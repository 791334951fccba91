------------------------ MODULE RpcFallbackProvider ------------------------
(***************************************************************************)
(* One fallback provider over the shared endpoint pool, used by several    *)
(* tasks: choosing and opening an endpoint under the connect lock, sending *)
(* a request, and ending the connection under the failover lock after a    *)
(* failure.  Role is the class: FallbackRequestProvider retries and fails  *)
(* over, FallbackSubscriptionProvider reports that a reconnect is due.     *)
(* One action is the code between two suspensions of a task; a connection  *)
(* generation is kept as whether it is still the one a task has seen.      *)
(***************************************************************************)
EXTENDS RpcEndpointPool

CONSTANTS
  Tasks,       (* asyncio tasks that use the provider                       *)
  Role,        (* "request" or "subscription"                               *)
  None

ASSUME ProviderAssumption ==
  /\ Role \in {"request", "subscription"}
  /\ None \notin Endpoints \cup Tasks

VARIABLES
  active,       \* active_endpoint
  transport,    \* _active_transport, or _listener_endpoint
  up,           \* endpoints to which this provider's connection is open
  connectLock,  \* holder of _connect_lock
  failoverLock, \* holder of _failover_lock
  task          \* the local state of each task

vars == <<cooling, strikes, strikeAge, preferred,
          active, transport, up, connectLock, failoverLock, task>>

providerVars == <<active, transport, up, connectLock, failoverLock>>

Holding == {"check", "closing", "opening", "openFailed", "sleep", "disconnecting"}
PCs == Holding \cup {"idle", "connect", "sent", "invalidate", "invalidating", "asserted"}

Task == [pc: PCs, phase: {"plain", "outer", "inner", "disconnect"},
         rejected: SUBSET Endpoints, retried: SUBSET Endpoints,
         endpoint: Endpoints \cup {None}, current: BOOLEAN,
         cands: Seq(Endpoints), closing: Endpoints \cup {None},
         charge: BOOLEAN, sentTo: Endpoints \cup {None}]

Idle == [pc |-> "idle", phase |-> "plain", rejected |-> {}, retried |-> {},
         endpoint |-> None, current |-> FALSE, cands |-> <<>>, closing |-> None,
         charge |-> FALSE, sentTo |-> None]

Init ==
  /\ PoolInit
  /\ active = None /\ transport = None /\ up = {}
  /\ connectLock = None /\ failoverLock = None
  /\ task = [t \in Tasks |-> Idle]

Become(t, r) == task' = [task EXCEPT ![t] = r]

(* connect, a request through execute_request or execute_subscription, or   *)
(* disconnect.                                                              *)
Begin(t) ==
  /\ task[t].pc \in {"idle", "asserted"}
  /\ \E p \in {"plain", "outer", "disconnect"} : Become(t, [Idle EXCEPT !.pc = "connect", !.phase = p])
  /\ UNCHANGED <<poolVars, providerVars>>

Excluded(r) == IF r.phase = "outer" THEN r.rejected ELSE {}

(* Every endpoint is asked once, after a rejection, and for ever otherwise. *)
OneRound(r) == r.phase = "outer" /\ r.rejected # {}

(* What follows the return of _connect_with_fallback with a active: the     *)
(* request goes out, through make_request which connects once more without  *)
(* exclusions, or the assertion that there is an endpoint fails.            *)
After(r, a) ==
  IF r.phase = "plain" THEN Idle
  ELSE IF a = None THEN [Idle EXCEPT !.pc = "asserted"]
  ELSE IF r.phase = "inner" THEN [r EXCEPT !.pc = "sent", !.sentTo = a, !.closing = None]
  ELSE IF Role = "request"
       THEN [r EXCEPT !.pc = "connect", !.phase = "inner", !.endpoint = a, !.current = TRUE, !.closing = None]
       ELSE [r EXCEPT !.pc = "sent", !.endpoint = a, !.current = TRUE, !.sentTo = a, !.closing = None]

(* The next endpoints to open, or a sleep while all are in cooldown.        *)
Choice(r) ==
  IF Available(Excluded(r)) = {}
  THEN [r EXCEPT !.pc = "sleep", !.cands = <<>>, !.closing = None]
  ELSE [r EXCEPT !.pc = "opening", !.cands = Candidates(Excluded(r)), !.closing = None]

(* An open begins by naming the transport.                                  *)
Opens(r) == transport' = IF r.pc = "opening" THEN Head(r.cands) ELSE None

Choose(t) == Become(t, Choice(task[t])) /\ Opens(Choice(task[t]))

(* _close_endpoint up to its await.                                         *)
CloseBegins(t, pc) ==
  /\ active' = None
  /\ transport' = None
  /\ Become(t, [task[t] EXCEPT !.pc = pc, !.closing = transport])

(* A request provider closes the transport it took; the subscription        *)
(* provider drops whatever connection it has by then.                       *)
StillUp(t) == IF Role = "request" THEN up \ {task[t].closing} ELSE {}

MayEnter(t) == connectLock = None

AcquireConnect(t) ==
  /\ task[t].pc = "connect" /\ MayEnter(t)
  /\ connectLock' = t
  /\ \/ /\ task[t].phase = "disconnect"
        /\ CloseBegins(t, "disconnecting")
     \/ /\ task[t].phase # "disconnect" /\ active = None
        /\ Choose(t)
        /\ UNCHANGED active
     \/ /\ task[t].phase # "disconnect" /\ active # None /\ active \in Excluded(task[t])
        /\ CloseBegins(t, "closing")
     \/ /\ task[t].phase # "disconnect" /\ active # None /\ active \notin Excluded(task[t])
        /\ Become(t, [task[t] EXCEPT !.pc = "check", !.closing = transport])
        /\ UNCHANGED <<active, transport>>
  /\ UNCHANGED <<poolVars, up, failoverLock>>

(* is_connected has answered for the transport it looked at.                *)
Alive(t) == IF Role = "request" THEN task[t].closing \in up ELSE up # {}

StillConnected(t) ==
  /\ task[t].pc = "check" /\ Alive(t)
  /\ connectLock' = None
  /\ Become(t, After(task[t], active))
  /\ UNCHANGED <<poolVars, active, transport, up, failoverLock>>

FoundDisconnected(t) ==
  /\ task[t].pc = "check" /\ ~Alive(t)
  /\ CloseBegins(t, "closing")
  /\ UNCHANGED <<poolVars, up, connectLock, failoverLock>>

ClosedBeforeOpening(t) ==
  /\ task[t].pc = "closing"
  /\ up' = StillUp(t)
  /\ Choose(t)
  /\ UNCHANGED <<poolVars, active, connectLock, failoverLock>>

(* The endpoint is active in a new generation.                              *)
OpenSucceeds(t) ==
  /\ task[t].pc = "opening"
  /\ LET e == Head(task[t].cands) IN
     /\ up' = IF Role = "request" THEN up \cup {e} ELSE {e}
     /\ active' = e
     /\ MarkSuccess(e)
     /\ task' = [u \in Tasks |-> IF u = t
                                 THEN After([task[t] EXCEPT !.current = FALSE, !.cands = <<>>], e)
                                 ELSE [task[u] EXCEPT !.current = FALSE]]
  /\ connectLock' = None
  /\ UNCHANGED <<transport, failoverLock>>

OpenFails(t) ==
  /\ task[t].pc = "opening"
  /\ transport' = None
  /\ Become(t, [task[t] EXCEPT !.pc = "openFailed", !.closing = transport])
  /\ UNCHANGED <<poolVars, active, up, connectLock, failoverLock>>

(* The next candidate, the end of the only round, or a sleep and a round.   *)
OpenFailed(t) ==
  /\ task[t].pc = "openFailed"
  /\ up' = StillUp(t)
  /\ MarkFailed(Head(task[t].cands))
  /\ LET rest == Tail(task[t].cands)
         r == IF rest # <<>> THEN [task[t] EXCEPT !.pc = "opening", !.cands = rest, !.closing = None]
              ELSE IF OneRound(task[t]) THEN Idle
              ELSE [task[t] EXCEPT !.pc = "sleep", !.cands = <<>>, !.closing = None]
     IN /\ Become(t, r) /\ Opens(r)
        /\ connectLock' = IF r.pc = "idle" THEN None ELSE t
  /\ UNCHANGED <<active, failoverLock>>

Wake(t) ==
  /\ task[t].pc = "sleep"
  /\ Choose(t)
  /\ UNCHANGED <<poolVars, active, up, connectLock, failoverLock>>

Disconnected(t) ==
  /\ task[t].pc = "disconnecting"
  /\ up' = StillUp(t)
  /\ connectLock' = None
  /\ Become(t, Idle)
  /\ UNCHANGED <<poolVars, active, transport, failoverLock>>

(* An answer, or a domain error such as BlockNotFound.                      *)
Answered(t) ==
  /\ task[t].pc = "sent" /\ task[t].sentTo \in up
  /\ Become(t, Idle)
  /\ UNCHANGED <<poolVars, providerVars>>

(* A rejection by the endpoint, then a connection lost or a request never   *)
(* answered, in execute_request: the endpoint is retried once and cooled    *)
(* the second time.                                                         *)
Refused(t) ==
  /\ task[t].pc = "sent" /\ Role = "request" /\ task[t].sentTo \in up
  /\ Become(t, [task[t] EXCEPT !.pc = "invalidate", !.charge = FALSE,
                               !.rejected = @ \cup {task[t].endpoint}])
  /\ UNCHANGED <<poolVars, providerVars>>

Lost(t) ==
  /\ task[t].pc = "sent" /\ Role = "request"
  /\ LET e == task[t].endpoint
         again == e \in task[t].retried
     IN Become(t, [task[t] EXCEPT !.pc = "invalidate", !.charge = again,
                                  !.retried = @ \cup {e},
                                  !.rejected = @ \cup (IF again THEN {e} ELSE {})])
  /\ UNCHANGED <<poolVars, providerVars>>

(* The same two in execute_subscription: a rejection cools the endpoint, a  *)
(* lost connection is a strike.                                             *)
SubscriptionRefused(t) ==
  /\ task[t].pc = "sent" /\ Role = "subscription" /\ task[t].sentTo \in up
  /\ Become(t, [task[t] EXCEPT !.pc = "invalidate", !.charge = TRUE])
  /\ UNCHANGED <<poolVars, providerVars>>

SubscriptionLost(t) ==
  /\ task[t].pc = "sent" /\ Role = "subscription"
  /\ RecordStrike(task[t].endpoint)
  /\ Become(t, [task[t] EXCEPT !.pc = "invalidate", !.charge = SecondStrike(task[t].endpoint)])
  /\ UNCHANGED providerVars

(* The request goes on to another endpoint, or raises.                      *)
AfterFailure(r) ==
  IF Role = "subscription" \/ r.rejected = Endpoints THEN Idle
  ELSE [r EXCEPT !.pc = "connect", !.phase = "outer", !.endpoint = None, !.current = FALSE,
                 !.charge = FALSE, !.closing = None, !.sentTo = None]

(* Mutant of OwnConnection: the generation is not compared.                 *)
OwnEndpoint(r) == active = r.endpoint

OwnConnection(r) == active = r.endpoint /\ r.current

(* _invalidate_endpoint: only the connection the request was sent on.       *)
Invalidate(t) ==
  /\ task[t].pc = "invalidate" /\ failoverLock = None
  /\ IF OwnConnection(task[t])
     THEN /\ failoverLock' = t
          /\ IF task[t].charge THEN MarkFailed(task[t].endpoint) ELSE UNCHANGED poolVars
          /\ CloseBegins(t, "invalidating")
     ELSE /\ Become(t, AfterFailure(task[t]))
          /\ UNCHANGED <<poolVars, active, transport, failoverLock>>
  /\ UNCHANGED <<up, connectLock>>

(* Mutants of Invalidated: the transport is not closed, the lock is kept.   *)
InvalidatedOpen(t) ==
  /\ task[t].pc = "invalidating"
  /\ failoverLock' = None
  /\ Become(t, AfterFailure(task[t]))
  /\ UNCHANGED <<poolVars, active, transport, up, connectLock>>

InvalidatedHolding(t) ==
  /\ task[t].pc = "invalidating"
  /\ up' = StillUp(t)
  /\ Become(t, AfterFailure(task[t]))
  /\ UNCHANGED <<poolVars, active, transport, connectLock, failoverLock>>

Invalidated(t) ==
  /\ task[t].pc = "invalidating"
  /\ up' = StillUp(t)
  /\ failoverLock' = None
  /\ Become(t, AfterFailure(task[t]))
  /\ UNCHANGED <<poolVars, active, transport, connectLock>>

(* A connection drops; on a subscription provider the listener records the  *)
(* failure of its endpoint, or cools it if the endpoint refused the stream. *)
LinkDrops(e) ==
  /\ e \in up
  /\ up' = up \ {e}
  /\ Role = "subscription" => RecordStrike(e)
  /\ Role = "request" => UNCHANGED poolVars
  /\ UNCHANGED <<active, transport, connectLock, failoverLock, task>>

StreamRefused(e) ==
  /\ e \in up /\ Role = "subscription"
  /\ up' = up \ {e}
  /\ MarkFailed(e)
  /\ UNCHANGED <<active, transport, connectLock, failoverLock, task>>

(* Another provider of the pool, and the clock.                             *)
OtherRole(e) == (MarkFailed(e) \/ MarkSuccess(e)) /\ UNCHANGED <<providerVars, task>>
Time == Tick /\ UNCHANGED <<providerVars, task>>

Step(t) ==
  \/ AcquireConnect(t) \/ StillConnected(t) \/ FoundDisconnected(t)
  \/ ClosedBeforeOpening(t) \/ OpenSucceeds(t) \/ OpenFails(t) \/ OpenFailed(t)
  \/ Wake(t) \/ Disconnected(t)
  \/ Answered(t) \/ Refused(t) \/ Lost(t) \/ SubscriptionRefused(t) \/ SubscriptionLost(t)
  \/ Invalidate(t) \/ Invalidated(t)

Next ==
  \/ \E t \in Tasks : Begin(t) \/ Step(t)
  \/ \E e \in Endpoints : LinkDrops(e) \/ StreamRefused(e) \/ OtherRole(e)
  \/ Time

Spec == Init /\ [][Next]_vars

(* The environment without other roles: nobody else cools the endpoints.    *)
NextAlone ==
  \/ \E t \in Tasks : Begin(t) \/ Step(t)
  \/ \E e \in Endpoints : LinkDrops(e) \/ StreamRefused(e)
  \/ Time

(* Every await ends, each lock's waiters are served in turn, an endpoint    *)
(* comes out of cooldown, and one opened again and again is reached.        *)
LiveSpec ==
  /\ Init /\ [][NextAlone]_vars
  /\ WF_vars(Time)
  /\ \A t \in Tasks :
       /\ WF_vars(Step(t))
       /\ SF_vars(AcquireConnect(t)) /\ SF_vars(Invalidate(t))
       /\ SF_vars(Wake(t) /\ task'[t].pc = "opening")
       /\ SF_vars(OpenSucceeds(t))

-----------------------------------------------------------------------------
(* Types of the variables.                                                  *)
TypeOK ==
  /\ PoolTypeOK
  /\ active \in Endpoints \cup {None} /\ transport \in Endpoints \cup {None}
  /\ up \subseteq Endpoints
  /\ connectLock \in Tasks \cup {None} /\ failoverLock \in Tasks \cup {None}
  /\ task \in [Tasks -> Task]

(* Connecting and disconnecting are one task's at a time, and so is ending  *)
(* a failed connection, although the two hold different locks.              *)
LocksHeld ==
  \A t \in Tasks : /\ (connectLock = t) = (task[t].pc \in Holding)
                   /\ (failoverLock = t) = (task[t].pc = "invalidating")

(* No transport is left open behind the provider's back: whatever the two   *)
(* locks let interleave, an open one is the current one or being closed.    *)
NoForgottenTransport ==
  \A e \in Endpoints : e \in up =>
    \/ e = transport
    \/ \E t \in Tasks : /\ task[t].pc \in {"closing", "openFailed", "disconnecting", "invalidating"}
                       /\ task[t].closing = e

(* The preferred endpoint moves only to one out of cooldown, though another *)
(* role may report its failure while it is being opened.                    *)
PreferredIsAvailable == [][preferred' # preferred => cooling[preferred'] = 0]_vars

(* A failed request ends, and charges, only the connection it was sent on:  *)
(* not one that its own reconnection or another task has opened since.      *)
FailureEndsOwnConnection ==
  [][\A t \in Tasks : task[t].pc = "invalidate" /\ task'[t].pc = "invalidating"
       => task[t].current /\ task[t].sentTo = task'[t].closing]_vars

(* Each failure of a request is the first or the second loss or a rejection *)
(* by an endpoint it has not given up: at most two per endpoint in all.     *)
RetryMakesProgress ==
  [][\A t \in Tasks : Role = "request" /\ task[t].pc = "sent" /\ task'[t].pc = "invalidate"
       => \/ task'[t].retried # task[t].retried
          \/ task'[t].rejected # task[t].rejected]_vars

(* Two failures of a stream cool its endpoint only within one cooldown.     *)
OldStrikesForgotten ==
  [][\A e \in Endpoints : strikes[e] = 1 /\ strikes'[e] = 0 => strikeAge[e] <= Cooldown]_vars

(* A request that goes round the endpoints comes to an end, and so do a     *)
(* connect and a disconnect: no task is left inside the provider for ever.  *)
RequestsEnd == \A t \in Tasks : []<>(task[t].pc \in {"idle", "asserted"})

(* rpc_provider.py: "assert endpoint is not None" after each connect.       *)
EndpointAfterConnect == \A t \in Tasks : task[t].pc # "asserted"
=============================================================================
