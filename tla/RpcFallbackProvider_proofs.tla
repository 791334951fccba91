--------------------- MODULE RpcFallbackProvider_proofs ---------------------
(* That the locks are held by the tasks that work under them, that a failed  *)
(* request ends its own connection only, and that no connection is left open *)
(* and forgotten; that each failure of a request is a new one, and that the  *)
(* pool is fair; for any endpoints and tasks and both kinds of provider.     *)
EXTENDS MCRpcFallbackProvider, FunctionTheorems, FiniteSetTheorems, TLAPS

-----------------------------------------------------------------------------
(* A task is a record of these fields, whatever they hold.                   *)
AnyTask(r) ==
  r = [pc |-> r.pc, phase |-> r.phase, rejected |-> r.rejected, retried |-> r.retried,
       endpoint |-> r.endpoint, current |-> r.current, cands |-> r.cands,
       closing |-> r.closing, charge |-> r.charge, sentTo |-> r.sentTo]

Shape == /\ task = [t \in Tasks |-> task[t]]
         /\ \A t \in Tasks : AnyTask(task[t])

Reopening == {"closing", "opening", "openFailed", "sleep", "disconnecting"}

(* The inductive invariant.  No endpoint is active while another is being    *)
(* opened; and a task that has seen no newer generation was sent to the      *)
(* endpoint it has noted, which is active or was ended since.                *)
Opening(r) == /\ r.pc \in Reopening => active = None
              /\ r.pc = "opening" => transport = Head(r.cands)
Noted(r) == r.phase = "inner" \/ r.pc \in {"sent", "invalidate"} => r.endpoint # None
Seen(r) == r.current => active \in {None, r.endpoint}
Sent(r) == r.pc \in {"sent", "invalidate"} /\ r.current => r.sentTo = r.endpoint

TaskOK(r) == Opening(r) /\ Noted(r) /\ Seen(r) /\ Sent(r)
ActiveIsOpen == active # None => transport = active

IInv == Shape /\ LocksHeld /\ ActiveIsOpen /\ \A t \in Tasks : TaskOK(task[t])

LEMMA InvInit == Init => IInv
  <1> SUFFICES ASSUME Init PROVE IInv
    OBVIOUS
  <1>1. /\ task = [t \in Tasks |-> Idle] /\ connectLock = None /\ failoverLock = None
        /\ active = None
    BY DEF Init
  <1>2. Shape
    BY <1>1 DEF Shape, AnyTask, Idle
  <1>3. LocksHeld
    BY <1>1, ProviderAssumption DEF LocksHeld, Idle, Holding
  <1>4. ActiveIsOpen
    BY <1>1 DEF ActiveIsOpen
  <1>5. \A t \in Tasks : TaskOK(task[t])
    BY <1>1 DEF TaskOK, Opening, Noted, Seen, Sent, Idle, Reopening
  <1> QED
    BY <1>2, <1>3, <1>4, <1>5 DEF IInv

-----------------------------------------------------------------------------
(* What becomes of a task.                                                   *)

LEMMA IdleShape == AnyTask(Idle) /\ Idle.pc = "idle" /\ ~Idle.current /\ Idle.phase = "plain"
  BY DEF AnyTask, Idle

(* When connecting has come back with a as the active endpoint.              *)
LEMMA AfterIsOK ==
  ASSUME NEW r, AnyTask(r), NEW a, Noted(r), r.current => a \in {None, r.endpoint}
  PROVE  LET n == After(r, a) IN
         /\ AnyTask(n) /\ n.pc \in {"idle", "asserted", "sent", "connect"}
         /\ Noted(n) /\ Sent(n)
         /\ n.current => a \in {None, n.endpoint}
  <1> DEFINE n == After(r, a)
  <1>1. CASE r.phase = "plain"
    <2>1. n = Idle
      BY <1>1 DEF After
    <2> QED
      BY <2>1, IdleShape DEF Noted, Sent
  <1>2. CASE r.phase # "plain" /\ a = None
    <2>1. n = [Idle EXCEPT !.pc = "asserted"]
      BY <1>2 DEF After
    <2>2. AnyTask(n) /\ n.pc = "asserted" /\ ~n.current /\ n.phase = "plain"
      BY <2>1 DEF AnyTask, Idle
    <2> QED
      BY <2>2 DEF Noted, Sent
  <1>3. CASE r.phase = "inner" /\ a # None
    <2>1. n = [r EXCEPT !.pc = "sent", !.sentTo = a, !.closing = None]
      BY <1>3 DEF After
    <2>2. /\ AnyTask(n) /\ n.pc = "sent" /\ n.current = r.current /\ n.phase = "inner"
          /\ n.endpoint = r.endpoint /\ n.sentTo = a
      BY <1>3, <2>1 DEF AnyTask
    <2> QED
      BY <1>3, <2>2 DEF Noted, Sent
  <1>4. CASE r.phase \notin {"plain", "inner"} /\ a # None /\ Role = "request"
    <2>1. n = [r EXCEPT !.pc = "connect", !.phase = "inner", !.endpoint = a, !.current = TRUE,
                        !.closing = None]
      BY <1>4 DEF After
    <2>2. AnyTask(n) /\ n.pc = "connect" /\ n.phase = "inner" /\ n.endpoint = a
      BY <2>1 DEF AnyTask
    <2> QED
      BY <1>4, <2>2 DEF Noted, Sent
  <1>5. CASE r.phase \notin {"plain", "inner"} /\ a # None /\ Role # "request"
    <2>1. n = [r EXCEPT !.pc = "sent", !.endpoint = a, !.current = TRUE, !.sentTo = a,
                        !.closing = None]
      BY <1>5 DEF After
    <2>2. AnyTask(n) /\ n.pc = "sent" /\ n.endpoint = a /\ n.sentTo = a
      BY <2>1 DEF AnyTask
    <2> QED
      BY <1>5, <2>2 DEF Noted, Sent
  <1> QED
    BY <1>1, <1>2, <1>3, <1>4, <1>5

(* When the next endpoints are chosen.                                       *)
LEMMA ChoiceIsOK ==
  ASSUME NEW r, AnyTask(r), Noted(r)
  PROVE  LET n == Choice(r) IN
         /\ AnyTask(n) /\ n.pc \in {"sleep", "opening"} /\ Noted(n) /\ Sent(n)
         /\ n.current = r.current /\ n.endpoint = r.endpoint
  <1> DEFINE n == Choice(r)
             cands == Candidates(Excluded(r))
  <1>1. CASE Available(Excluded(r)) = {}
    <2>1. n = [r EXCEPT !.pc = "sleep", !.cands = <<>>, !.closing = None]
      BY <1>1 DEF Choice
    <2>2. /\ AnyTask(n) /\ n.pc = "sleep" /\ n.phase = r.phase
          /\ n.current = r.current /\ n.endpoint = r.endpoint
      BY <2>1 DEF AnyTask
    <2>3. Noted(n) /\ Sent(n)
      BY <2>2 DEF Noted, Sent
    <2> QED
      BY <2>2, <2>3
  <1>2. CASE Available(Excluded(r)) # {}
    <2>1. n = [r EXCEPT !.pc = "opening", !.cands = cands, !.closing = None]
      BY <1>2 DEF Choice
    <2> HIDE DEF cands
    <2>2. /\ AnyTask(n) /\ n.pc = "opening" /\ n.phase = r.phase
          /\ n.current = r.current /\ n.endpoint = r.endpoint
      BY <2>1 DEF AnyTask
    <2>3. Noted(n) /\ Sent(n)
      BY <2>2 DEF Noted, Sent
    <2> QED
      BY <2>2, <2>3
  <1> QED
    BY <1>1, <1>2

(* When its failure has been dealt with.                                     *)
LEMMA AfterFailureIsOK ==
  ASSUME NEW r, AnyTask(r)
  PROVE  LET n == AfterFailure(r) IN
         /\ AnyTask(n) /\ n.pc \in {"idle", "connect"}
         /\ Noted(n) /\ ~n.current
  <1> DEFINE n == AfterFailure(r)
  <1>1. CASE Role = "subscription" \/ r.rejected = Endpoints
    BY <1>1, IdleShape DEF AfterFailure, Noted
  <1>2. CASE ~(Role = "subscription" \/ r.rejected = Endpoints)
    <2>1. n = [r EXCEPT !.pc = "connect", !.phase = "outer", !.endpoint = None,
                        !.current = FALSE, !.charge = FALSE, !.closing = None, !.sentTo = None]
      BY <1>2 DEF AfterFailure
    <2> QED
      BY <2>1 DEF AnyTask, Noted
  <1> QED
    BY <1>1, <1>2

-----------------------------------------------------------------------------
(* The steps of a task, in four kinds.                                       *)

LEMMA Becomes ==
  ASSUME IInv, NEW t \in Tasks, NEW n, AnyTask(n), Become(t, n)
  PROVE  /\ Shape' /\ task'[t] = n
         /\ \A u \in Tasks : u # t => task'[u] = task[u]
  <1>1. task' = [task EXCEPT ![t] = n] /\ task = [u \in Tasks |-> task[u]]
        /\ \A u \in Tasks : AnyTask(task[u])
    BY DEF Become, IInv, Shape
  <1>2. /\ task'[t] = n /\ \A u \in Tasks : u # t => task'[u] = task[u]
        /\ task' = [u \in Tasks |-> task'[u]]
    BY <1>1
  <1>3. \A u \in Tasks : AnyTask(task'[u])
    BY <1>1, <1>2
  <1> QED
    BY <1>2, <1>3 DEF Shape, AnyTask

LEMMA NobodyElse ==
  ASSUME IInv, NEW t, connectLock \in {None, t}
  PROVE  \A u \in Tasks : u # t => task[u].pc \notin Holding
  BY ProviderAssumption DEF IInv, LocksHeld

(* Under the connect lock, without an endpoint becoming active.              *)
LEMMA LockedStep ==
  ASSUME IInv, NEW t \in Tasks, NEW n, AnyTask(n), Become(t, n),
         connectLock \in {None, t}, failoverLock' = failoverLock,
         task[t].pc # "invalidating", n.pc # "invalidating",
         connectLock' = IF n.pc \in Holding THEN t ELSE None,
         active' \in {active, None}, active' # None => transport' = active',
         TaskOK(n)'
  PROVE  IInv'
  <1>1. /\ Shape' /\ task'[t] = n
        /\ \A u \in Tasks : u # t => task'[u] = task[u]
    BY Becomes
  <1>2. \A u \in Tasks : u # t => task[u].pc \notin Holding
    BY NobodyElse
  <1>3. LocksHeld'
    <2>1. \A u \in Tasks : (connectLock' = u) = (task'[u].pc \in Holding)
      BY <1>1, <1>2, ProviderAssumption
    <2>2. \A u \in Tasks : (failoverLock' = u) = (task'[u].pc = "invalidating")
      BY <1>1 DEF IInv, LocksHeld
    <2> QED
      BY <2>1, <2>2 DEF LocksHeld
  <1>4. ActiveIsOpen'
    BY DEF ActiveIsOpen
  <1>5. ASSUME NEW u \in Tasks, u # t
        PROVE  TaskOK(task[u])'
    <2>1. task'[u] = task[u] /\ task[u].pc \notin Reopening /\ TaskOK(task[u])
      BY <1>1, <1>2, <1>5 DEF Holding, Reopening, IInv
    <2>2. Opening(task[u])'
      BY <2>1 DEF Opening, Reopening
    <2>3. Noted(task[u])' /\ Sent(task[u])'
      BY <2>1 DEF TaskOK, Noted, Sent
    <2>4. Seen(task[u])'
      BY <2>1 DEF TaskOK, Seen
    <2> QED
      BY <2>2, <2>3, <2>4 DEF TaskOK
  <1>6. TaskOK(task[t])'
    BY <1>1 DEF TaskOK, Opening, Noted, Seen, Sent
  <1> QED
    BY <1>1, <1>3, <1>4, <1>5, <1>6 DEF IInv

(* Without the connect lock.                                                 *)
LEMMA FreeStep ==
  ASSUME IInv, NEW t \in Tasks, NEW n, AnyTask(n), Become(t, n),
         UNCHANGED <<connectLock, active, transport>>,
         task[t].pc \notin Holding, n.pc \notin Holding, n.pc # "invalidating",
         failoverLock' = IF task[t].pc = "invalidating" THEN None ELSE failoverLock,
         Noted(n), Seen(n), Sent(n)
  PROVE  IInv'
  <1>1. /\ Shape' /\ task'[t] = n
        /\ \A u \in Tasks : u # t => task'[u] = task[u]
    BY Becomes
  <1>2. LocksHeld'
    <2>1. \A u \in Tasks : (connectLock' = u) = (task'[u].pc \in Holding)
      BY <1>1 DEF IInv, LocksHeld
    <2>2. \A u \in Tasks : (failoverLock' = u) = (task'[u].pc = "invalidating")
      BY <1>1, ProviderAssumption DEF IInv, LocksHeld
    <2> QED
      BY <2>1, <2>2 DEF LocksHeld
  <1>3. ActiveIsOpen'
    BY DEF IInv, ActiveIsOpen
  <1>4. ASSUME NEW u \in Tasks, u # t
        PROVE  TaskOK(task[u])'
    BY <1>1, <1>4 DEF IInv, TaskOK, Opening, Noted, Seen, Sent
  <1>5. TaskOK(task[t])'
    <2>1. Opening(task[t])'
      BY <1>1 DEF Opening, Reopening, Holding
    <2>2. Noted(task[t])' /\ Seen(task[t])' /\ Sent(task[t])'
      BY <1>1 DEF Noted, Seen, Sent
    <2> QED
      BY <2>1, <2>2 DEF TaskOK
  <1> QED
    BY <1>1, <1>2, <1>3, <1>4, <1>5 DEF IInv

LEMMA OutdatedIsOK ==
  ASSUME NEW r, AnyTask(r)
  PROVE  LET n == [r EXCEPT !.current = FALSE]
             m == [r EXCEPT !.current = FALSE, !.cands = <<>>] IN
         /\ AnyTask(n) /\ n.pc = r.pc /\ n.phase = r.phase /\ n.endpoint = r.endpoint
         /\ ~n.current
         /\ AnyTask(m) /\ m.pc = r.pc /\ m.phase = r.phase /\ m.endpoint = r.endpoint
         /\ ~m.current
  <1>1. ASSUME NEW c
        PROVE  LET n == [r EXCEPT !.current = c] IN
               AnyTask(n) /\ n.pc = r.pc /\ n.phase = r.phase /\ n.endpoint = r.endpoint
    BY DEF AnyTask
  <1>2. ASSUME NEW q, AnyTask(q), NEW d
        PROVE  LET m == [q EXCEPT !.cands = d] IN
               AnyTask(m) /\ m.pc = q.pc /\ m.phase = q.phase /\ m.endpoint = q.endpoint
    BY <1>2 DEF AnyTask
  <1>3. ASSUME NEW c, NEW d
        PROVE  [r EXCEPT !.current = c, !.cands = d] = [[r EXCEPT !.current = c] EXCEPT !.cands = d]
    OBVIOUS
  <1>4. ASSUME NEW c, NEW d
        PROVE  LET m == [r EXCEPT !.current = c, !.cands = d] IN
               AnyTask(m) /\ m.pc = r.pc /\ m.phase = r.phase /\ m.endpoint = r.endpoint
    <2> DEFINE q == [r EXCEPT !.current = c]
               m == [q EXCEPT !.cands = d]
    <2>1. AnyTask(q) /\ q.pc = r.pc /\ q.phase = r.phase /\ q.endpoint = r.endpoint
      BY <1>1
    <2> HIDE DEF q
    <2>2. AnyTask(m) /\ m.pc = q.pc /\ m.phase = q.phase /\ m.endpoint = q.endpoint
      BY <1>2, <2>1
    <2>3. AnyTask(m) /\ m.pc = r.pc /\ m.phase = r.phase /\ m.endpoint = r.endpoint
      BY <2>1, <2>2
    <2>4. m = [r EXCEPT !.current = c, !.cands = d]
      BY <1>3 DEF q
    <2> HIDE DEF m
    <2> QED
      BY <2>3, <2>4
  <1>5. ~([r EXCEPT !.current = FALSE].current)
    BY DEF AnyTask
  <1>6. ~([r EXCEPT !.current = FALSE, !.cands = <<>>].current)
    BY DEF AnyTask
  <1> QED
    BY <1>1, <1>4, <1>5, <1>6

(* An endpoint becomes active, and every task's connection an old one.       *)
LEMMA OpenSucceedsKeeps == ASSUME IInv, NEW t \in Tasks, OpenSucceeds(t) PROVE IInv'
  <1> DEFINE e == Head(task[t].cands)
             r == [task[t] EXCEPT !.current = FALSE, !.cands = <<>>]
             n == After(r, e)
             Old(u) == [task[u] EXCEPT !.current = FALSE]
  <1>1. /\ task[t].pc = "opening" /\ active' = e /\ transport' = transport
        /\ connectLock' = None /\ failoverLock' = failoverLock
        /\ task' = [u \in Tasks |-> IF u = t THEN n ELSE Old(u)]
    BY DEF OpenSucceeds
  <1>2. /\ AnyTask(task[t]) /\ TaskOK(task[t]) /\ connectLock = t /\ transport = e
    BY <1>1 DEF IInv, Shape, LocksHeld, Holding, TaskOK, Opening
  <1>3. AnyTask(r) /\ r.phase = task[t].phase /\ r.endpoint = task[t].endpoint
        /\ ~r.current
        /\ r.pc = task[t].pc
    BY <1>2, OutdatedIsOK
  <1>4. Noted(r)
    BY <1>2, <1>3 DEF TaskOK, Noted
  <1> HIDE DEF r, e
  <1>5. /\ AnyTask(n) /\ n.pc \in {"idle", "asserted", "sent", "connect"}
        /\ Noted(n) /\ Sent(n)
        /\ n.current => e \in {None, n.endpoint}
    BY <1>3, <1>4, AfterIsOK
  <1> HIDE DEF n
  <1>6. task'[t] = n /\ \A u \in Tasks : u # t => task'[u] = Old(u)
    BY <1>1
  <1>7. \A u \in Tasks : /\ AnyTask(Old(u)) /\ ~Old(u).current /\ Old(u).pc = task[u].pc
                         /\ Old(u).phase = task[u].phase /\ Old(u).endpoint = task[u].endpoint
    BY OutdatedIsOK DEF IInv, Shape
  <1> HIDE DEF Old
  <1>8. Shape'
    <2>1. task' = [u \in Tasks |-> task'[u]]
      BY <1>1
    <2>2. \A u \in Tasks : AnyTask(task'[u])
      BY <1>5, <1>6, <1>7
    <2> QED
      BY <2>1, <2>2 DEF Shape, AnyTask
  <1>9. \A u \in Tasks : u # t => task[u].pc \notin Holding
    BY <1>2, NobodyElse
  <1>10. LocksHeld'
    <2>1. \A u \in Tasks : connectLock' # u /\ task'[u].pc \notin Holding
      BY <1>1, <1>5, <1>6, <1>7, <1>9, ProviderAssumption DEF Holding
    <2>2. \A u \in Tasks : (failoverLock' = u) = (task'[u].pc = "invalidating")
      <3>1. \A u \in Tasks : (failoverLock = u) = (task[u].pc = "invalidating")
        BY DEF IInv, LocksHeld
      <3>2. (task'[t].pc = "invalidating") = (task[t].pc = "invalidating")
        BY <1>1, <1>5, <1>6
      <3>3. \A u \in Tasks : u # t => task'[u].pc = task[u].pc
        BY <1>6, <1>7
      <3> QED
        BY <1>1, <3>1, <3>2, <3>3
    <2> QED
      BY <2>1, <2>2 DEF LocksHeld
  <1>11. ActiveIsOpen'
    BY <1>1, <1>2 DEF ActiveIsOpen
  <1>12. ASSUME NEW u \in Tasks, u # t
         PROVE  TaskOK(task[u])'
    <2>1. /\ ~task'[u].current /\ task'[u].pc = task[u].pc /\ task'[u].phase = task[u].phase
          /\ task'[u].endpoint = task[u].endpoint
      BY <1>6, <1>7, <1>12
    <2>2. task'[u].pc \notin Reopening
      BY <1>9, <1>12, <2>1 DEF Reopening, Holding
    <2>3. Noted(task[u])
      BY DEF IInv, TaskOK
    <2> QED
      BY <2>1, <2>2, <2>3 DEF TaskOK, Opening, Noted, Seen, Sent, Reopening
  <1>13. TaskOK(task[t])'
    <2>1. Opening(task[t])'
      BY <1>5, <1>6 DEF Opening, Reopening
    <2>2. Noted(task[t])' /\ Sent(task[t])'
      BY <1>5, <1>6 DEF Noted, Sent
    <2>3. Seen(task[t])'
      BY <1>1, <1>5, <1>6 DEF Seen
    <2> QED
      BY <2>1, <2>2, <2>3 DEF TaskOK
  <1> QED
    BY <1>8, <1>10, <1>11, <1>12, <1>13 DEF IInv

-----------------------------------------------------------------------------
(* The actions under the connect lock.                                       *)

Waiting(r, p, c) == [r EXCEPT !.pc = p, !.closing = c]

LEMMA WaitingIsOK ==
  ASSUME NEW r, AnyTask(r), Noted(r), NEW p, NEW c
  PROVE  LET n == Waiting(r, p, c) IN
         /\ AnyTask(n) /\ n.pc = p /\ n.phase = r.phase
         /\ n.endpoint = r.endpoint /\ n.current = r.current
         /\ p \notin {"sent", "invalidate"} => Noted(n) /\ Sent(n)
  <1>1. ASSUME NEW q, AnyTask(q)
        PROVE  LET m == [q EXCEPT !.pc = p] IN
               /\ AnyTask(m) /\ m.pc = p /\ m.phase = q.phase
               /\ m.endpoint = q.endpoint /\ m.current = q.current
    BY <1>1 DEF AnyTask
  <1>2. ASSUME NEW q, AnyTask(q)
        PROVE  LET m == [q EXCEPT !.closing = c] IN
               /\ AnyTask(m) /\ m.pc = q.pc /\ m.phase = q.phase
               /\ m.endpoint = q.endpoint /\ m.current = q.current
    BY <1>2 DEF AnyTask
  <1> DEFINE q == [r EXCEPT !.pc = p]
             n == [q EXCEPT !.closing = c]
  <1>3. Waiting(r, p, c) = n
    BY DEF Waiting
  <1>4. /\ AnyTask(q) /\ q.pc = p /\ q.phase = r.phase
        /\ q.endpoint = r.endpoint /\ q.current = r.current
    BY <1>1
  <1> HIDE DEF q
  <1>5. /\ AnyTask(n) /\ n.pc = q.pc /\ n.phase = q.phase
        /\ n.endpoint = q.endpoint /\ n.current = q.current
    BY <1>2, <1>4
  <1> HIDE DEF n
  <1>6. /\ AnyTask(n) /\ n.pc = p /\ n.phase = r.phase
        /\ n.endpoint = r.endpoint /\ n.current = r.current
    BY <1>4, <1>5
  <1>7. p \notin {"sent", "invalidate"} => Noted(n) /\ Sent(n)
    BY <1>6 DEF Noted, Sent
  <1> QED
    BY <1>3, <1>6, <1>7

(* A connection is dropped under the connect lock.                           *)
LEMMA CloseKeeps ==
  ASSUME IInv, NEW t \in Tasks, NEW p \in {"closing", "disconnecting"}, CloseBegins(t, p),
         task[t].pc # "invalidating", connectLock \in {None, t}, connectLock' = t,
         failoverLock' = failoverLock
  PROVE  IInv'
  <1>1. PICK n : n = Waiting(task[t], p, transport)
    OBVIOUS
  <1>2. active' = None /\ Become(t, n)
    BY <1>1 DEF CloseBegins, Waiting
  <1>3. AnyTask(task[t]) /\ Noted(task[t])
    BY DEF IInv, Shape, TaskOK
  <1>4. AnyTask(n) /\ n.pc = p /\ Noted(n) /\ Sent(n)
    BY <1>1, <1>3, WaitingIsOK
  <1>5. TaskOK(n)'
    BY <1>2, <1>4 DEF TaskOK, Opening, Noted, Seen, Sent
  <1>6. n.pc \in Holding /\ n.pc # "invalidating"
    BY <1>4 DEF Holding
  <1> QED
    BY <1>2, <1>4, <1>5, <1>6, LockedStep

(* The next endpoint is opened under the connect lock, or a sleep begins.    *)
LEMMA ChooseKeeps ==
  ASSUME IInv, NEW t \in Tasks, Choose(t), active = None, active' = active,
         task[t].pc # "invalidating", connectLock \in {None, t}, connectLock' = t,
         failoverLock' = failoverLock
  PROVE  IInv'
  <1>1. PICK n : n = Choice(task[t])
    OBVIOUS
  <1>2. Become(t, n) /\ transport' = IF n.pc = "opening" THEN Head(n.cands) ELSE None
    BY <1>1 DEF Choose, Opens
  <1>3. AnyTask(task[t]) /\ Noted(task[t])
    BY DEF IInv, Shape, TaskOK
  <1>4. AnyTask(n) /\ n.pc \in {"sleep", "opening"} /\ Noted(n) /\ Sent(n)
    BY <1>1, <1>3, ChoiceIsOK
  <1>5. TaskOK(n)'
    BY <1>2, <1>4 DEF TaskOK, Opening, Noted, Seen, Sent
  <1>6. n.pc \in Holding /\ n.pc # "invalidating"
    BY <1>4 DEF Holding
  <1> QED
    BY <1>2, <1>4, <1>5, <1>6, LockedStep

LEMMA AcquireConnectKeeps == ASSUME IInv, NEW t \in Tasks, AcquireConnect(t) PROVE IInv'
  <1>1. /\ task[t].pc = "connect" /\ connectLock = None /\ connectLock' = t
        /\ failoverLock' = failoverLock
    BY DEF AcquireConnect, MayEnter
  <1>2. CASE CloseBegins(t, "disconnecting")
    BY <1>1, <1>2, CloseKeeps
  <1>3. CASE active = None /\ Choose(t) /\ UNCHANGED active
    BY <1>1, <1>3, ChooseKeeps
  <1>4. CASE CloseBegins(t, "closing")
    BY <1>1, <1>4, CloseKeeps
  <1>5. CASE /\ Become(t, [task[t] EXCEPT !.pc = "check", !.closing = transport])
             /\ UNCHANGED <<active, transport>>
    <2>1. PICK n : n = Waiting(task[t], "check", transport)
      OBVIOUS
    <2>2. AnyTask(task[t]) /\ Noted(task[t]) /\ Seen(task[t])
      BY DEF IInv, Shape, TaskOK
    <2>3. /\ AnyTask(n) /\ n.pc = "check" /\ Noted(n) /\ Sent(n)
          /\ n.endpoint = task[t].endpoint /\ n.current = task[t].current
      BY <2>1, <2>2, WaitingIsOK
    <2>4. TaskOK(n)'
      BY <1>5, <2>2, <2>3 DEF TaskOK, Opening, Reopening, Noted, Seen, Sent
    <2>5. n.pc \in Holding /\ n.pc # "invalidating"
      BY <2>3 DEF Holding
    <2>6. active' # None => transport' = active'
      BY <1>5 DEF IInv, ActiveIsOpen
    <2>7. Become(t, n)
      BY <1>5, <2>1 DEF Waiting
    <2> QED
      BY <1>1, <1>5, <2>7, <2>3, <2>4, <2>5, <2>6, LockedStep
  <1> QED
    BY <1>2, <1>3, <1>4, <1>5 DEF AcquireConnect

LEMMA StillConnectedKeeps == ASSUME IInv, NEW t \in Tasks, StillConnected(t) PROVE IInv'
  <1>1. PICK n : n = After(task[t], active)
    OBVIOUS
  <1>2. /\ task[t].pc = "check" /\ connectLock' = None /\ Become(t, n)
        /\ UNCHANGED <<active, transport, failoverLock>>
    BY <1>1 DEF StillConnected
  <1>3. AnyTask(task[t]) /\ Noted(task[t]) /\ Seen(task[t]) /\ connectLock = t
    BY <1>2 DEF IInv, Shape, TaskOK, LocksHeld, Holding
  <1>4. /\ AnyTask(n) /\ n.pc \in {"idle", "asserted", "sent", "connect"}
        /\ Noted(n) /\ Sent(n) /\ (n.current => active \in {None, n.endpoint})
    BY <1>1, <1>3, AfterIsOK DEF Seen
  <1>5. TaskOK(n)'
    BY <1>2, <1>4 DEF TaskOK, Opening, Reopening, Noted, Seen, Sent
  <1>6. n.pc \notin Holding /\ n.pc # "invalidating"
    BY <1>4 DEF Holding
  <1>7. active' # None => transport' = active'
    BY <1>2 DEF IInv, ActiveIsOpen
  <1> QED
    BY <1>2, <1>3, <1>4, <1>5, <1>6, <1>7, LockedStep

(* A failed open drops the transport; the endpoint is still none.            *)
LEMMA OpenFailsKeeps == ASSUME IInv, NEW t \in Tasks, OpenFails(t) PROVE IInv'
  <1>1. PICK n : n = Waiting(task[t], "openFailed", transport)
    OBVIOUS
  <1>2. /\ task[t].pc = "opening" /\ Become(t, n)
        /\ UNCHANGED <<active, connectLock, failoverLock>>
    BY <1>1 DEF OpenFails, Waiting
  <1>3. AnyTask(task[t]) /\ TaskOK(task[t]) /\ connectLock = t
    BY <1>2 DEF IInv, Shape, LocksHeld, Holding
  <1>4. active = None /\ Noted(task[t])
    BY <1>2, <1>3 DEF TaskOK, Opening, Reopening
  <1>5. AnyTask(n) /\ n.pc = "openFailed" /\ Noted(n) /\ Sent(n)
    BY <1>1, <1>3, <1>4, WaitingIsOK
  <1>6. TaskOK(n)'
    BY <1>2, <1>4, <1>5 DEF TaskOK, Opening, Noted, Seen, Sent
  <1>7. n.pc \in Holding /\ n.pc # "invalidating"
    BY <1>5 DEF Holding
  <1> QED
    BY <1>2, <1>3, <1>4, <1>5, <1>6, <1>7, LockedStep

LEMMA OpenFailedKeeps == ASSUME IInv, NEW t \in Tasks, OpenFailed(t) PROVE IInv'
  <1> DEFINE rest == Tail(task[t].cands)
  <1>1. PICK n : n = IF rest # <<>> THEN [task[t] EXCEPT !.pc = "opening", !.cands = rest, !.closing = None]
                     ELSE IF OneRound(task[t]) THEN Idle
                     ELSE [task[t] EXCEPT !.pc = "sleep", !.cands = <<>>, !.closing = None]
    OBVIOUS
  <1>2. /\ task[t].pc = "openFailed" /\ Become(t, n) /\ Opens(n)
        /\ connectLock' = IF n.pc = "idle" THEN None ELSE t
        /\ UNCHANGED <<active, failoverLock>>
    BY <1>1 DEF OpenFailed
  <1>3. AnyTask(task[t]) /\ TaskOK(task[t]) /\ connectLock = t
    BY <1>2 DEF IInv, Shape, LocksHeld, Holding
  <1>4. active = None /\ Noted(task[t])
    BY <1>2, <1>3 DEF TaskOK, Opening, Reopening
  <1> HIDE DEF rest
  <1>5. ASSUME NEW p \in {"opening", "sleep"}, NEW d,
               n = [task[t] EXCEPT !.pc = p, !.cands = d, !.closing = None]
        PROVE  AnyTask(n) /\ n.pc = p /\ n.phase = task[t].phase /\ n.endpoint = task[t].endpoint
    BY <1>3, <1>5 DEF AnyTask
  <1>6. AnyTask(n) /\ n.pc \in {"opening", "sleep", "idle"} /\ Noted(n) /\ Sent(n)
    <2>1. CASE n = Idle
      BY <2>1, IdleShape DEF Noted, Sent
    <2>2. CASE n # Idle
      <3>1. AnyTask(n) /\ n.pc \in {"opening", "sleep"} /\ n.phase = task[t].phase
            /\ n.endpoint = task[t].endpoint
        BY <1>1, <1>5, <2>2
      <3> QED
        BY <3>1, <1>4 DEF Noted, Sent
    <2> QED
      BY <2>1, <2>2
  <1>7. TaskOK(n)'
    BY <1>2, <1>4, <1>6 DEF TaskOK, Opening, Opens, Noted, Seen, Sent
  <1>8. connectLock' = (IF n.pc \in Holding THEN t ELSE None) /\ n.pc # "invalidating"
    BY <1>2, <1>6 DEF Holding
  <1> QED
    BY <1>2, <1>3, <1>4, <1>6, <1>7, <1>8, LockedStep

LEMMA DisconnectedKeeps == ASSUME IInv, NEW t \in Tasks, Disconnected(t) PROVE IInv'
  <1>1. PICK n : n = Idle
    OBVIOUS
  <1>2. /\ task[t].pc = "disconnecting" /\ Become(t, n) /\ connectLock' = None
        /\ UNCHANGED <<active, transport, failoverLock>>
    BY <1>1 DEF Disconnected
  <1>3. connectLock = t /\ active = None
    BY <1>2 DEF IInv, LocksHeld, Holding, TaskOK, Opening, Reopening
  <1>4. AnyTask(n) /\ n.pc = "idle" /\ ~n.current /\ n.phase = "plain"
    BY <1>1, IdleShape
  <1>5. TaskOK(n)'
    BY <1>2, <1>3, <1>4 DEF TaskOK, Opening, Reopening, Noted, Seen, Sent
  <1>6. n.pc \notin Holding
    BY <1>4 DEF Holding
  <1> QED
    BY <1>2, <1>3, <1>4, <1>5, <1>6, LockedStep

LEMMA ConnectingKeeps ==
  ASSUME IInv, NEW t \in Tasks,
         \/ AcquireConnect(t) \/ StillConnected(t) \/ FoundDisconnected(t)
         \/ ClosedBeforeOpening(t) \/ OpenSucceeds(t) \/ OpenFails(t) \/ OpenFailed(t)
         \/ Wake(t) \/ Disconnected(t)
  PROVE  IInv'
  <1>1. CASE FoundDisconnected(t)
    <2>1. connectLock = t /\ task[t].pc = "check"
      BY <1>1 DEF FoundDisconnected, IInv, LocksHeld, Holding
    <2> QED
      BY <1>1, <2>1, CloseKeeps DEF FoundDisconnected
  <1>2. CASE ClosedBeforeOpening(t)
    <2>1. connectLock = t /\ task[t].pc = "closing" /\ active = None
      BY <1>2 DEF ClosedBeforeOpening, IInv, LocksHeld, Holding, TaskOK, Opening, Reopening
    <2> QED
      BY <1>2, <2>1, ChooseKeeps DEF ClosedBeforeOpening
  <1>3. CASE Wake(t)
    <2>1. connectLock = t /\ task[t].pc = "sleep" /\ active = None
      BY <1>3 DEF Wake, IInv, LocksHeld, Holding, TaskOK, Opening, Reopening
    <2> QED
      BY <1>3, <2>1, ChooseKeeps DEF Wake
  <1> QED
    BY <1>1, <1>2, <1>3, AcquireConnectKeeps, StillConnectedKeeps, OpenSucceedsKeeps,
       OpenFailsKeeps, OpenFailedKeeps, DisconnectedKeeps

-----------------------------------------------------------------------------
(* The actions outside the connect lock.                                     *)

LEMMA BeginKeeps == ASSUME IInv, NEW t \in Tasks, Begin(t) PROVE IInv'
  <1>1. PICK p : Become(t, [Idle EXCEPT !.pc = "connect", !.phase = p]) /\ p \in {"plain", "outer", "disconnect"}
    BY DEF Begin
  <1>2. PICK n : n = [Idle EXCEPT !.pc = "connect", !.phase = p]
    OBVIOUS
  <1>3. AnyTask(n) /\ n.pc = "connect" /\ ~n.current /\ n.phase # "inner"
    BY <1>1, <1>2 DEF AnyTask, Idle
  <1>4. /\ task[t].pc \in {"idle", "asserted"} /\ Become(t, n)
        /\ UNCHANGED <<connectLock, active, transport, failoverLock>>
    BY <1>1, <1>2 DEF Begin, providerVars
  <1>5. Noted(n) /\ Seen(n) /\ Sent(n)
    BY <1>3 DEF Noted, Seen, Sent
  <1>6. task[t].pc \notin Holding /\ n.pc \notin Holding /\ n.pc # "invalidating"
        /\ failoverLock' = IF task[t].pc = "invalidating" THEN None ELSE failoverLock
    BY <1>3, <1>4 DEF Holding
  <1> QED
    BY <1>3, <1>4, <1>5, <1>6, FreeStep

(* A request that has been sent is answered or fails.                        *)
LEMMA FailingIsOK ==
  ASSUME NEW r, AnyTask(r), NEW n, n.pc = "invalidate",
         n.phase = r.phase, n.endpoint = r.endpoint, n.current = r.current, n.sentTo = r.sentTo,
         r.pc = "sent", Noted(r), Sent(r), Seen(r)
  PROVE  Noted(n) /\ Sent(n) /\ Seen(n)
  BY DEF Noted, Sent, Seen

LEMMA SentKeeps ==
  ASSUME IInv, NEW t \in Tasks, NEW n, AnyTask(n), Become(t, n), task[t].pc = "sent",
         n.pc = "invalidate", n.phase = task[t].phase, n.endpoint = task[t].endpoint,
         n.current = task[t].current, n.sentTo = task[t].sentTo, UNCHANGED providerVars
  PROVE  IInv'
  <1>1. AnyTask(task[t]) /\ Noted(task[t]) /\ Sent(task[t]) /\ Seen(task[t])
    BY DEF IInv, Shape, TaskOK
  <1>2. Noted(n) /\ Sent(n) /\ Seen(n)
    BY <1>1, FailingIsOK
  <1>3. /\ UNCHANGED <<connectLock, active, transport>>
        /\ task[t].pc \notin Holding /\ n.pc \notin Holding /\ n.pc # "invalidating"
        /\ failoverLock' = IF task[t].pc = "invalidating" THEN None ELSE failoverLock
    BY DEF providerVars, Holding
  <1> QED
    BY <1>2, <1>3, FreeStep

LEMMA AnsweredKeeps == ASSUME IInv, NEW t \in Tasks, Answered(t) PROVE IInv'
  <1>1. PICK n : n = Idle
    OBVIOUS
  <1>2. /\ task[t].pc = "sent" /\ Become(t, n)
        /\ UNCHANGED <<connectLock, active, transport, failoverLock>>
    BY <1>1 DEF Answered, providerVars
  <1>3. AnyTask(n) /\ n.pc = "idle" /\ ~n.current /\ n.phase = "plain"
    BY <1>1, IdleShape
  <1>4. Noted(n) /\ Seen(n) /\ Sent(n)
    BY <1>3 DEF Noted, Seen, Sent
  <1>5. task[t].pc \notin Holding /\ n.pc \notin Holding /\ n.pc # "invalidating"
        /\ failoverLock' = IF task[t].pc = "invalidating" THEN None ELSE failoverLock
    BY <1>2, <1>3 DEF Holding
  <1> QED
    BY <1>2, <1>3, <1>4, <1>5, FreeStep

LEMMA FailureKeeps ==
  ASSUME IInv, NEW t \in Tasks,
         Refused(t) \/ Lost(t) \/ SubscriptionRefused(t) \/ SubscriptionLost(t)
  PROVE  IInv'
  <1>1. AnyTask(task[t])
    BY DEF IInv, Shape
  <1>2. CASE Refused(t)
    <2>1. PICK n : n = [task[t] EXCEPT !.pc = "invalidate", !.charge = FALSE,
                                       !.rejected = @ \cup {task[t].endpoint}]
      OBVIOUS
    <2>2. task[t].pc = "sent" /\ Become(t, n) /\ UNCHANGED providerVars
      BY <1>2, <2>1 DEF Refused
    <2>3. /\ AnyTask(n) /\ n.pc = "invalidate" /\ n.phase = task[t].phase
          /\ n.endpoint = task[t].endpoint /\ n.current = task[t].current
          /\ n.sentTo = task[t].sentTo
      BY <1>1, <2>1 DEF AnyTask
    <2> QED
      BY <2>2, <2>3, SentKeeps
  <1>3. CASE Lost(t)
    <2> DEFINE e == task[t].endpoint
               again == e \in task[t].retried
    <2>1. PICK n : n = [task[t] EXCEPT !.pc = "invalidate", !.charge = again,
                                       !.retried = @ \cup {e},
                                       !.rejected = @ \cup (IF again THEN {e} ELSE {})]
      OBVIOUS
    <2>2. task[t].pc = "sent" /\ Become(t, n) /\ UNCHANGED providerVars
      BY <1>3, <2>1 DEF Lost
    <2> HIDE DEF again
    <2>3. /\ AnyTask(n) /\ n.pc = "invalidate" /\ n.phase = task[t].phase
          /\ n.endpoint = task[t].endpoint /\ n.current = task[t].current
          /\ n.sentTo = task[t].sentTo
      BY <1>1, <2>1 DEF AnyTask
    <2> QED
      BY <2>2, <2>3, SentKeeps
  <1>4. ASSUME NEW c, Become(t, [task[t] EXCEPT !.pc = "invalidate", !.charge = c]),
               task[t].pc = "sent", UNCHANGED providerVars
        PROVE  IInv'
    <2>1. PICK n : n = [task[t] EXCEPT !.pc = "invalidate", !.charge = c]
      OBVIOUS
    <2>2. Become(t, n)
      BY <1>4, <2>1
    <2>3. /\ AnyTask(n) /\ n.pc = "invalidate" /\ n.phase = task[t].phase
          /\ n.endpoint = task[t].endpoint /\ n.current = task[t].current
          /\ n.sentTo = task[t].sentTo
      BY <1>1, <2>1 DEF AnyTask
    <2> QED
      BY <1>4, <2>2, <2>3, SentKeeps
  <1>5. CASE SubscriptionRefused(t)
    BY <1>4, <1>5 DEF SubscriptionRefused
  <1>6. CASE SubscriptionLost(t)
    BY <1>4, <1>6 DEF SubscriptionLost
  <1> QED
    BY <1>2, <1>3, <1>5, <1>6

(* A failure that has been dealt with, or that was another connection's.     *)
LEMMA DealtWithKeeps ==
  ASSUME IInv, NEW t \in Tasks, Become(t, AfterFailure(task[t])),
         task[t].pc \in {"invalidate", "invalidating"},
         UNCHANGED <<connectLock, active, transport>>,
         failoverLock' = IF task[t].pc = "invalidating" THEN None ELSE failoverLock
  PROVE  IInv'
  <1>1. PICK n : n = AfterFailure(task[t])
    OBVIOUS
  <1>2. AnyTask(task[t])
    BY DEF IInv, Shape
  <1>3. AnyTask(n) /\ n.pc \in {"idle", "connect"} /\ Noted(n) /\ ~n.current
    BY <1>1, <1>2, AfterFailureIsOK
  <1>4. Noted(n) /\ Seen(n) /\ Sent(n)
    BY <1>3 DEF Seen, Sent
  <1>5. task[t].pc \notin Holding /\ n.pc \notin Holding /\ n.pc # "invalidating"
    BY <1>3 DEF Holding
  <1> QED
    BY <1>1, <1>3, <1>4, <1>5, FreeStep

(* The endpoint that is ended is active: nobody is opening another.          *)
LEMMA InvalidateKeeps == ASSUME IInv, NEW t \in Tasks, Invalidate(t) PROVE IInv'
  <1>1. task[t].pc = "invalidate" /\ failoverLock = None /\ connectLock' = connectLock
    BY DEF Invalidate
  <1>2. CASE ~OwnConnection(task[t])
    BY <1>1, <1>2, DealtWithKeeps DEF Invalidate
  <1>3. CASE OwnConnection(task[t])
    <2>1. PICK n : n = Waiting(task[t], "invalidating", transport)
      OBVIOUS
    <2>2. Become(t, n) /\ failoverLock' = t /\ active' = None /\ transport' = None
      BY <1>3, <2>1 DEF Invalidate, CloseBegins, Waiting
    <2>3. AnyTask(task[t]) /\ Noted(task[t]) /\ active = task[t].endpoint
      BY <1>3 DEF IInv, Shape, TaskOK, OwnConnection
    <2>4. AnyTask(n) /\ n.pc = "invalidating" /\ Noted(n) /\ Sent(n)
      BY <2>1, <2>3, WaitingIsOK
    <2>5. Shape' /\ task'[t] = n /\ \A u \in Tasks : u # t => task'[u] = task[u]
      BY <2>2, <2>4, Becomes
    <2>6. active # None
      BY <1>1, <2>3 DEF Noted
    <2>7. LocksHeld'
      <3>1. \A u \in Tasks : (connectLock' = u) = (task'[u].pc \in Holding)
        BY <1>1, <2>4, <2>5 DEF IInv, LocksHeld, Holding
      <3>2. \A u \in Tasks : (failoverLock' = u) = (task'[u].pc = "invalidating")
        BY <1>1, <2>2, <2>4, <2>5, ProviderAssumption DEF IInv, LocksHeld
      <3> QED
        BY <3>1, <3>2 DEF LocksHeld
    <2>8. ActiveIsOpen'
      BY <2>2 DEF ActiveIsOpen
    <2>9. ASSUME NEW u \in Tasks, u # t
          PROVE  TaskOK(task[u])'
      <3>1. task'[u] = task[u] /\ TaskOK(task[u])
        BY <2>5, <2>9 DEF IInv
      <3>2. task[u].pc \notin Reopening
        BY <3>1, <2>6 DEF TaskOK, Opening
      <3> QED
        BY <2>2, <3>1, <3>2 DEF TaskOK, Opening, Reopening, Noted, Seen, Sent
    <2>10. TaskOK(task[t])'
      BY <2>2, <2>4, <2>5 DEF TaskOK, Opening, Reopening, Noted, Seen, Sent
    <2> QED
      BY <2>5, <2>7, <2>8, <2>9, <2>10 DEF IInv
  <1> QED
    BY <1>2, <1>3

LEMMA InvalidatedKeeps == ASSUME IInv, NEW t \in Tasks, Invalidated(t) PROVE IInv'
  BY DealtWithKeeps DEF Invalidated

-----------------------------------------------------------------------------
(* Every step, and what follows.                                             *)

LEMMA OthersKeep ==
  ASSUME IInv, UNCHANGED <<active, transport, connectLock, failoverLock, task>>
  PROVE  IInv'
  BY DEF IInv, Shape, LocksHeld, ActiveIsOpen, TaskOK, Opening, Noted, Seen, Sent

LEMMA InvStep == ASSUME IInv, [Next]_vars PROVE IInv'
  <1>1. ASSUME NEW t \in Tasks, Step(t)
        PROVE  IInv'
    BY <1>1, ConnectingKeeps, AnsweredKeeps, FailureKeeps, InvalidateKeeps, InvalidatedKeeps
       DEF Step
  <1>2. ASSUME NEW e \in Endpoints, LinkDrops(e) \/ StreamRefused(e) \/ OtherRole(e)
        PROVE  IInv'
    BY <1>2, OthersKeep DEF LinkDrops, StreamRefused, OtherRole, providerVars
  <1>3. CASE Time
    BY <1>3, OthersKeep DEF Time, providerVars
  <1>4. CASE UNCHANGED vars
    BY <1>4, OthersKeep DEF vars
  <1> QED
    BY <1>1, <1>2, <1>3, <1>4, BeginKeeps DEF Next

LEMMA Invariant == Spec => []IInv
  <1>1. Init => IInv
    BY InvInit
  <1>2. IInv /\ [Next]_vars => IInv'
    BY InvStep
  <1> QED
    BY <1>1, <1>2, PTL DEF Spec

(* Only a task that opens, checks or closes connections holds the connect    *)
(* lock, and only one that ends a failed connection the failover lock: each  *)
(* is one task's at a time, and every way out of the code gives it back.     *)
THEOREM LocksAreHeld == Spec => []LocksHeld
  <1>1. IInv => LocksHeld
    BY DEF IInv
  <1> QED
    BY <1>1, Invariant, PTL

(* The failover lock is taken by the step that ends a connection.            *)
LEMMA OnlyInvalidateTakes ==
  ASSUME [Next]_vars, NEW u \in Tasks, failoverLock' = u, failoverLock # u
  PROVE  \E t \in Tasks : Invalidate(t) /\ OwnConnection(task[t]) /\ t = u
  <1>1. u # None
    BY ProviderAssumption
  <1>2. ASSUME NEW t \in Tasks, Begin(t)
        PROVE  FALSE
    BY <1>2 DEF Begin, providerVars
  <1>3. ASSUME NEW t \in Tasks, Step(t)
        PROVE  Invalidate(t)
    BY <1>1, <1>3
       DEF Step, AcquireConnect, StillConnected, FoundDisconnected, ClosedBeforeOpening,
           OpenSucceeds, OpenFails, OpenFailed, Wake, Disconnected, Answered, Refused, Lost,
           SubscriptionRefused, SubscriptionLost, Invalidated, providerVars
  <1>4. ASSUME NEW e \in Endpoints, LinkDrops(e) \/ StreamRefused(e) \/ OtherRole(e)
        PROVE  FALSE
    BY <1>4 DEF LinkDrops, StreamRefused, OtherRole, providerVars
  <1>5. ~Time /\ ~(UNCHANGED vars)
    BY DEF Time, providerVars, vars
  <1>6. PICK t \in Tasks : Invalidate(t)
    BY <1>2, <1>3, <1>4, <1>5 DEF Next
  <1>7. OwnConnection(task[t]) /\ failoverLock' = t
    BY <1>6 DEF Invalidate
  <1> QED
    BY <1>6, <1>7

LEMMA OwnStep ==
  ASSUME IInv, [Next]_vars, IInv', NEW t \in Tasks,
         task[t].pc = "invalidate", task'[t].pc = "invalidating"
  PROVE  task[t].current /\ task[t].sentTo = task'[t].closing
  <1>1. failoverLock' = t /\ failoverLock # t
    BY DEF IInv, LocksHeld
  <1>2. Invalidate(t) /\ OwnConnection(task[t])
    BY <1>1, OnlyInvalidateTakes
  <1>3. task' = [task EXCEPT ![t] = [task[t] EXCEPT !.pc = "invalidating", !.closing = transport]]
    BY <1>2 DEF Invalidate, CloseBegins, Become
  <1>4. task = [u \in Tasks |-> task[u]] /\ AnyTask(task[t])
    BY DEF IInv, Shape
  <1>5. task'[t].closing = transport
    BY <1>3, <1>4 DEF AnyTask
  <1>6. task[t].endpoint # None /\ task[t].current /\ active = task[t].endpoint
    BY <1>2 DEF IInv, TaskOK, Noted, OwnConnection
  <1>7. transport = active /\ task[t].sentTo = task[t].endpoint
    BY <1>6 DEF IInv, ActiveIsOpen, TaskOK, Sent
  <1> QED
    BY <1>5, <1>6, <1>7

(* A failed request ends, and charges, the connection it was sent on and no  *)
(* other, though it finds out after other tasks may have opened new ones.    *)
THEOREM OwnConnectionOnly == Spec => FailureEndsOwnConnection
  <1>1. IInv /\ IInv' /\ [Next]_vars
          => [\A t \in Tasks : task[t].pc = "invalidate" /\ task'[t].pc = "invalidating"
                => task[t].current /\ task[t].sentTo = task'[t].closing]_vars
    BY OwnStep
  <1> QED
    BY <1>1, Invariant, PTL DEF Spec, FailureEndsOwnConnection

-----------------------------------------------------------------------------
(* No transport is left behind.  The invariant that says so needs that a     *)
(* transport is named without an endpoint being active only while its task   *)
(* opens it: whoever names another one has nothing to lose.                  *)
Closers == {"closing", "openFailed", "disconnecting", "invalidating"}

Named == transport # None /\ active = None => \E t \in Tasks : task[t].pc = "opening"
Tidy == Named /\ NoForgottenTransport

LEMMA TidyInit == Init => Tidy
  BY DEF Init, Tidy, Named, NoForgottenTransport

LEMMA Replaced ==
  ASSUME IInv, NEW t \in Tasks, NEW n, Become(t, n)
  PROVE  task'[t] = n /\ \A u \in Tasks : u # t => task'[u] = task[u]
  BY DEF Become, IInv, Shape

(* Whoever may take the connect lock finds no transport being opened.        *)
LEMMA NoTransport ==
  ASSUME IInv, Tidy, NEW t \in Tasks, connectLock \in {None, t}, task[t].pc # "opening",
         active = None
  PROVE  transport = None
  <1>1. \A u \in Tasks : task[u].pc # "opening"
    BY NobodyElse DEF Holding
  <1> QED
    BY <1>1 DEF Tidy, Named

LEMMA Closed ==
  ASSUME NEW t \in Tasks
  PROVE  StillUp(t) \subseteq up /\ task[t].closing \notin StillUp(t)
  BY DEF StillUp

(* A step that leaves the transport alone closes what it was to close.       *)
LEMMA TidySame ==
  ASSUME IInv, Tidy, NEW t \in Tasks, NEW n, Become(t, n), task[t].pc # "opening",
         UNCHANGED <<active, transport>>, up' \subseteq up,
         task[t].pc \in Closers => task[t].closing \notin up'
  PROVE  Tidy'
  <1>1. task'[t] = n /\ \A u \in Tasks : u # t => task'[u] = task[u]
    BY Replaced
  <1>2. Named'
    BY <1>1 DEF Tidy, Named
  <1>3. ASSUME NEW e \in Endpoints, e \in up', e # transport
        PROVE  \E u \in Tasks : task'[u].pc \in Closers /\ task'[u].closing = e
    <2>1. PICK u \in Tasks : task[u].pc \in Closers /\ task[u].closing = e
      BY <1>3 DEF Tidy, NoForgottenTransport, Closers
    <2>2. u # t
      BY <1>3, <2>1
    <2> QED
      BY <1>1, <2>1, <2>2
  <1> QED
    BY <1>2, <1>3 DEF Tidy, NoForgottenTransport, Closers

(* One that drops the transport is going to close it.                        *)
LEMMA TidyClose ==
  ASSUME IInv, Tidy, NEW t \in Tasks, NEW p \in Closers, task[t].pc \notin Closers,
         Become(t, [task[t] EXCEPT !.pc = p, !.closing = transport]),
         transport' = None, UNCHANGED up
  PROVE  Tidy'
  <1>1. PICK n : n = [task[t] EXCEPT !.pc = p, !.closing = transport]
    OBVIOUS
  <1>2. AnyTask(task[t])
    BY DEF IInv, Shape
  <1>3. n.pc = p /\ n.closing = transport
    BY <1>1, <1>2 DEF AnyTask
  <1>4. task'[t] = n /\ \A u \in Tasks : u # t => task'[u] = task[u]
    BY <1>1, Replaced
  <1>5. Named'
    BY DEF Named
  <1>6. ASSUME NEW e \in Endpoints, e \in up
        PROVE  \E u \in Tasks : task'[u].pc \in Closers /\ task'[u].closing = e
    <2>1. CASE e = transport
      BY <1>3, <1>4, <2>1
    <2>2. CASE e # transport
      <3>1. PICK u \in Tasks : task[u].pc \in Closers /\ task[u].closing = e
        BY <1>6, <2>2 DEF Tidy, NoForgottenTransport, Closers
      <3>2. u # t
        BY <3>1
      <3> QED
        BY <1>4, <3>1, <3>2
    <2> QED
      BY <2>1, <2>2
  <1> QED
    BY <1>5, <1>6 DEF Tidy, NoForgottenTransport, Closers

(* One that names a transport, or none, had none before.                     *)
LEMMA TidyChoose ==
  ASSUME IInv, Tidy, NEW t \in Tasks, NEW n, Become(t, n), Opens(n), transport = None,
         up' \subseteq up,
         task[t].pc \in Closers => task[t].closing \notin up'
  PROVE  Tidy'
  <1>1. task'[t] = n /\ \A u \in Tasks : u # t => task'[u] = task[u]
    BY Replaced
  <1>2. Named'
    BY <1>1 DEF Named, Opens
  <1>3. ASSUME NEW e \in Endpoints, e \in up'
        PROVE  \E u \in Tasks : task'[u].pc \in Closers /\ task'[u].closing = e
    <2>1. PICK u \in Tasks : task[u].pc \in Closers /\ task[u].closing = e
      BY <1>3, ProviderAssumption DEF Tidy, NoForgottenTransport, Closers
    <2>2. u # t
      BY <1>3, <2>1
    <2> QED
      BY <1>1, <2>1, <2>2
  <1> QED
    BY <1>2, <1>3 DEF Tidy, NoForgottenTransport, Closers

(* The actions.                                                              *)
LEMMA TidyAcquire == ASSUME IInv, Tidy, NEW t \in Tasks, AcquireConnect(t) PROVE Tidy'
  <1>1. task[t].pc = "connect" /\ connectLock = None /\ up' = up
    BY DEF AcquireConnect, MayEnter
  <1>2. task[t].pc \notin Closers
    BY <1>1 DEF Closers
  <1>3. ASSUME NEW p \in {"closing", "disconnecting"}, CloseBegins(t, p)
        PROVE  Tidy'
    <2>1. p \in Closers
      BY <1>3 DEF Closers
    <2> QED
      BY <1>1, <1>2, <1>3, <2>1, TidyClose DEF CloseBegins
  <1>4. ASSUME active = None, Choose(t)
        PROVE  Tidy'
    <2>1. transport = None
      BY <1>1, <1>4, NoTransport
    <2>2. PICK n : n = Choice(task[t])
      OBVIOUS
    <2>3. Become(t, n) /\ Opens(n)
      BY <1>4, <2>2 DEF Choose
    <2> QED
      BY <1>1, <1>2, <2>1, <2>3, TidyChoose
  <1>5. ASSUME NEW n, Become(t, n), UNCHANGED <<active, transport>>
        PROVE  Tidy'
    BY <1>1, <1>2, <1>5, TidySame
  <1> QED
    BY <1>3, <1>4, <1>5 DEF AcquireConnect

LEMMA TidyConnecting ==
  ASSUME IInv, Tidy, NEW t \in Tasks,
         StillConnected(t) \/ FoundDisconnected(t) \/ OpenFails(t) \/ Disconnected(t)
  PROVE  Tidy'
  <1>1. CASE StillConnected(t)
    <2>1. task[t].pc = "check" /\ Become(t, After(task[t], active))
          /\ UNCHANGED <<active, transport, up>>
      BY <1>1 DEF StillConnected
    <2> QED
      BY <2>1, TidySame DEF Closers
  <1>2. CASE FoundDisconnected(t)
    <2>1. task[t].pc = "check" /\ CloseBegins(t, "closing") /\ up' = up
      BY <1>2 DEF FoundDisconnected
    <2>2. task[t].pc \notin Closers /\ "closing" \in Closers
      BY <2>1 DEF Closers
    <2> QED
      BY <2>1, <2>2, TidyClose DEF CloseBegins
  <1>3. CASE OpenFails(t)
    <2>1. /\ task[t].pc = "opening" /\ transport' = None /\ up' = up
          /\ Become(t, [task[t] EXCEPT !.pc = "openFailed", !.closing = transport])
      BY <1>3 DEF OpenFails
    <2>2. task[t].pc \notin Closers /\ "openFailed" \in Closers
      BY <2>1 DEF Closers
    <2> QED
      BY <2>1, <2>2, TidyClose
  <1>4. CASE Disconnected(t)
    <2>1. task[t].pc = "disconnecting" /\ Become(t, Idle) /\ up' = StillUp(t)
          /\ UNCHANGED <<active, transport>>
      BY <1>4 DEF Disconnected
    <2> QED
      BY <2>1, Closed, TidySame
  <1> QED
    BY <1>1, <1>2, <1>3, <1>4

LEMMA TidyReopening ==
  ASSUME IInv, Tidy, NEW t \in Tasks,
         ClosedBeforeOpening(t) \/ OpenFailed(t) \/ Wake(t)
  PROVE  Tidy'
  <1>1. task[t].pc \in {"closing", "openFailed", "sleep"}
    BY DEF ClosedBeforeOpening, OpenFailed, Wake
  <1>2. connectLock = t /\ active = None
    BY <1>1 DEF IInv, LocksHeld, Holding, TaskOK, Opening, Reopening
  <1>3. transport = None
    BY <1>1, <1>2, NoTransport
  <1>4. up' \subseteq up /\ (task[t].pc \in Closers => task[t].closing \notin up')
    BY Closed DEF ClosedBeforeOpening, OpenFailed, Wake, Closers
  <1>5. \E n : Become(t, n) /\ Opens(n)
    <2>1. CASE ClosedBeforeOpening(t) \/ Wake(t)
      BY <2>1 DEF ClosedBeforeOpening, Wake, Choose
    <2>2. CASE OpenFailed(t)
      BY <2>2 DEF OpenFailed
    <2> QED
      BY <2>1, <2>2
  <1> QED
    BY <1>3, <1>4, <1>5, TidyChoose

LEMMA TidyOpen == ASSUME IInv, Tidy, NEW t \in Tasks, OpenSucceeds(t) PROVE Tidy'
  <1> DEFINE e == Head(task[t].cands)
             n == After([task[t] EXCEPT !.current = FALSE, !.cands = <<>>], e)
             Old(u) == [task[u] EXCEPT !.current = FALSE]
  <1>1. /\ task[t].pc = "opening" /\ active' = e /\ transport' = transport
        /\ up' \subseteq up \cup {e}
        /\ task' = [u \in Tasks |-> IF u = t THEN n ELSE Old(u)]
    BY DEF OpenSucceeds
  <1>2. transport = e /\ \A u \in Tasks : AnyTask(task[u])
    BY <1>1 DEF IInv, Shape, TaskOK, Opening
  <1>3. \A u \in Tasks : Old(u).pc = task[u].pc /\ Old(u).closing = task[u].closing
    BY <1>2 DEF AnyTask
  <1> HIDE DEF e, n, Old
  <1>4. Named'
    BY <1>1, <1>2 DEF Named
  <1>5. ASSUME NEW f \in Endpoints, f \in up', f # transport
        PROVE  \E u \in Tasks : task'[u].pc \in Closers /\ task'[u].closing = f
    <2>1. PICK u \in Tasks : task[u].pc \in Closers /\ task[u].closing = f
      BY <1>1, <1>2, <1>5 DEF Tidy, NoForgottenTransport, Closers
    <2>2. task'[u] = Old(u)
      BY <1>1, <2>1 DEF Closers
    <2> QED
      BY <1>3, <2>1, <2>2
  <1> QED
    BY <1>1, <1>4, <1>5 DEF Tidy, NoForgottenTransport, Closers

LEMMA TidyRequest ==
  ASSUME IInv, Tidy, NEW t \in Tasks,
         \/ Begin(t) \/ Answered(t) \/ Refused(t) \/ Lost(t)
         \/ SubscriptionRefused(t) \/ SubscriptionLost(t)
  PROVE  Tidy'
  <1>1. task[t].pc \in {"idle", "asserted", "sent"} /\ UNCHANGED <<active, transport, up>>
    BY DEF Begin, Answered, Refused, Lost, SubscriptionRefused, SubscriptionLost, providerVars
  <1>2. \E n : Become(t, n)
    BY DEF Begin, Answered, Refused, Lost, SubscriptionRefused, SubscriptionLost
  <1> QED
    BY <1>1, <1>2, TidySame DEF Closers

LEMMA TidyInvalidate ==
  ASSUME IInv, Tidy, NEW t \in Tasks, Invalidate(t) \/ Invalidated(t)
  PROVE  Tidy'
  <1>1. CASE Invalidated(t)
    <2>1. task[t].pc = "invalidating" /\ Become(t, AfterFailure(task[t])) /\ up' = StillUp(t)
          /\ UNCHANGED <<active, transport>>
      BY <1>1 DEF Invalidated
    <2> QED
      BY <2>1, Closed, TidySame
  <1>2. CASE Invalidate(t) /\ OwnConnection(task[t])
    <2>1. task[t].pc = "invalidate" /\ CloseBegins(t, "invalidating") /\ up' = up
      BY <1>2 DEF Invalidate
    <2>2. task[t].pc \notin Closers /\ "invalidating" \in Closers
      BY <2>1 DEF Closers
    <2> QED
      BY <2>1, <2>2, TidyClose DEF CloseBegins
  <1>3. CASE Invalidate(t) /\ ~OwnConnection(task[t])
    <2>1. task[t].pc = "invalidate" /\ Become(t, AfterFailure(task[t]))
          /\ UNCHANGED <<active, transport, up>>
      BY <1>3 DEF Invalidate
    <2> QED
      BY <2>1, TidySame DEF Closers
  <1> QED
    BY <1>1, <1>2, <1>3

LEMMA TidyElse ==
  ASSUME Tidy, UNCHANGED <<active, transport, task>>, up' \subseteq up
  PROVE  Tidy'
  BY DEF Tidy, Named, NoForgottenTransport

LEMMA TidyStep == ASSUME IInv, Tidy, [Next]_vars PROVE Tidy'
  <1>1. ASSUME NEW t \in Tasks, Begin(t) \/ Step(t)
        PROVE  Tidy'
    BY <1>1, TidyAcquire, TidyConnecting, TidyReopening, TidyOpen, TidyRequest, TidyInvalidate
       DEF Step
  <1>2. ASSUME NEW e \in Endpoints, LinkDrops(e) \/ StreamRefused(e) \/ OtherRole(e)
        PROVE  Tidy'
    BY <1>2, TidyElse DEF LinkDrops, StreamRefused, OtherRole, providerVars
  <1>3. CASE Time \/ UNCHANGED vars
    BY <1>3, TidyElse DEF Time, providerVars, vars
  <1> QED
    BY <1>1, <1>2, <1>3 DEF Next

(* A connection that is open is the one the provider knows, or some task is  *)
(* closing it: between the connect lock and the failover lock none is lost,  *)
(* to stay open and be read by nobody.                                       *)
THEOREM NothingLeftOpen == Spec => []NoForgottenTransport
  <1>1. Init => Tidy
    BY TidyInit
  <1>2. IInv /\ Tidy /\ [Next]_vars => Tidy'
    BY TidyStep
  <1>3. Tidy => NoForgottenTransport
    BY DEF Tidy
  <1> QED
    BY <1>1, <1>2, <1>3, Invariant, PTL DEF Spec

-----------------------------------------------------------------------------
(* The order in which the endpoints are asked: their rank in it, and the     *)
(* sequence that Candidates chooses.                                         *)
Earlier(excluded, e) == {f \in Available(excluded) : AskedBefore(f, e)}

LEMMA AvailableAre ==
  ASSUME NEW excluded
  PROVE  /\ Available(excluded) \subseteq Endpoints \ excluded /\ Available(excluded) \subseteq Nat
         /\ IsFiniteSet(Available(excluded)) /\ Cardinality(Available(excluded)) \in Nat
  <1>1. Available(excluded) \subseteq Endpoints \ excluded
    BY DEF Available, Eligible
  <1>2. Endpoints \subseteq Nat /\ IsFiniteSet(Endpoints)
    BY PoolAssumption
  <1>3. Available(excluded) \in SUBSET Endpoints
    BY <1>1
  <1>4. IsFiniteSet(Available(excluded))
    BY <1>2, <1>3, FS_Subset
  <1> QED
    BY <1>1, <1>2, <1>4, FS_CardinalityType

LEMMA AskedInOrder ==
  ASSUME NEW e \in Nat, NEW f \in Nat, NEW g \in Nat
  PROVE  /\ ~AskedBefore(e, e)
         /\ e # f => AskedBefore(e, f) \/ AskedBefore(f, e)
         /\ AskedBefore(e, f) /\ AskedBefore(f, g) => AskedBefore(e, g)
  BY DEF AskedBefore

LEMMA RanksAre ==
  ASSUME NEW excluded, NEW e \in Available(excluded)
  PROVE  /\ IsFiniteSet(Earlier(excluded, e))
         /\ Cardinality(Earlier(excluded, e)) \in 0..(Cardinality(Available(excluded)) - 1)
         /\ \A f \in Available(excluded) :
              AskedBefore(f, e) =>
                Cardinality(Earlier(excluded, f)) < Cardinality(Earlier(excluded, e))
  <1> DEFINE A == Available(excluded)
  <1>1. A \subseteq Nat /\ IsFiniteSet(A) /\ Cardinality(A) \in Nat
    BY AvailableAre
  <1>2. Earlier(excluded, e) \in SUBSET (A \ {e})
    BY <1>1, AskedInOrder DEF Earlier
  <1>3. IsFiniteSet(A \ {e}) /\ Cardinality(A \ {e}) = Cardinality(A) - 1
    BY <1>1, FS_RemoveElement
  <1>4. /\ IsFiniteSet(Earlier(excluded, e)) /\ Cardinality(Earlier(excluded, e)) \in Nat
        /\ Cardinality(Earlier(excluded, e)) <= Cardinality(A \ {e})
    BY <1>2, <1>3, FS_Subset, FS_CardinalityType
  <1>5. ASSUME NEW f \in A, AskedBefore(f, e)
        PROVE  Cardinality(Earlier(excluded, f)) < Cardinality(Earlier(excluded, e))
    <2>1. Earlier(excluded, f) \in SUBSET Earlier(excluded, e)
      BY <1>1, <1>5, AskedInOrder DEF Earlier
    <2>2. f \in Earlier(excluded, e) /\ f \notin Earlier(excluded, f)
      BY <1>1, <1>5, AskedInOrder DEF Earlier
    <2>3. /\ Cardinality(Earlier(excluded, f)) <= Cardinality(Earlier(excluded, e))
          /\ Cardinality(Earlier(excluded, f)) # Cardinality(Earlier(excluded, e))
          /\ Cardinality(Earlier(excluded, f)) \in Nat
      BY <1>4, <2>1, <2>2, FS_Subset, FS_CardinalityType
    <2> QED
      BY <1>4, <2>3
  <1> QED
    BY <1>1, <1>3, <1>4, <1>5

(* Each available endpoint is asked once, in the order of preference.        *)
LEMMA CandidatesAre ==
  ASSUME NEW excluded
  PROVE  LET s == Candidates(excluded)
             A == Available(excluded) IN
         /\ s \in [1..Cardinality(A) -> A]
         /\ \A i, j \in 1..Cardinality(A) : i < j => AskedBefore(s[i], s[j])
         /\ s \in Seq(Endpoints \ excluded)
         /\ A # {} => s # <<>>
  <1> DEFINE A == Available(excluded)
             n == Cardinality(A)
             rank == [e \in A |-> Cardinality(Earlier(excluded, e)) + 1]
             at == [i \in 1..n |-> CHOOSE e \in A : rank[e] = i]
  <1>1. /\ A \subseteq Endpoints \ excluded /\ A \subseteq Nat
        /\ IsFiniteSet(A) /\ n \in Nat
    BY AvailableAre
  <1>2. \A e \in A : rank[e] \in 1..n
    BY <1>1, RanksAre
  <1>3. \A e, f \in A : AskedBefore(f, e) => rank[f] < rank[e]
    <2> SUFFICES ASSUME NEW e \in A, NEW f \in A, AskedBefore(f, e)
                 PROVE  rank[f] < rank[e]
      OBVIOUS
    <2>1. /\ Cardinality(Earlier(excluded, f)) < Cardinality(Earlier(excluded, e))
          /\ Cardinality(Earlier(excluded, f)) \in Nat /\ Cardinality(Earlier(excluded, e)) \in Nat
      BY <1>1, RanksAre
    <2> QED
      BY <2>1
  <1>4. rank \in Injection(A, 1..n)
    <2>1. rank \in [A -> 1..n]
      BY <1>2
    <2>2. ASSUME NEW e \in A, NEW f \in A, rank[e] = rank[f]
          PROVE  e = f
      <3>1. ~(rank[e] < rank[f]) /\ ~(rank[f] < rank[e])
        BY <1>2, <2>2
      <3>2. ~AskedBefore(e, f) /\ ~AskedBefore(f, e)
        BY <1>3, <3>1
      <3> QED
        BY <1>1, <3>2, AskedInOrder
    <2> HIDE DEF rank
    <2> QED
      BY <2>1, <2>2 DEF Injection, IsInjective
  <1>5. \A i \in 1..n : \E e \in A : rank[e] = i
    <2>1. IsFiniteSet(1..n) /\ Cardinality(1..n) = n
      BY <1>1, FS_Interval
    <2> HIDE DEF rank
    <2>2. rank \in Surjection(A, 1..n)
      BY <1>4, <2>1, FS_Injection
    <2> QED
      BY <2>2 DEF Surjection
  <1>6. \A i \in 1..n : at[i] \in A /\ rank[at[i]] = i
    <2> HIDE DEF rank
    <2> QED
      BY <1>5
  <1>7. at \in [1..n -> A]
    BY <1>6
  <1>8. \A i, j \in DOMAIN at : i < j => AskedBefore(at[i], at[j])
    <2> SUFFICES ASSUME NEW i \in 1..n, NEW j \in 1..n, i < j
                 PROVE  AskedBefore(at[i], at[j])
      BY <1>7
    <2> HIDE DEF rank, at
    <2>1. rank[at[i]] = i /\ rank[at[j]] = j /\ at[i] \in A /\ at[j] \in A
      BY <1>6
    <2>2. at[i] # at[j]
      BY <2>1
    <2>3. ~AskedBefore(at[j], at[i])
      BY <1>3, <2>1
    <2> QED
      BY <1>1, <2>1, <2>2, <2>3, AskedInOrder
  <1> DEFINE Sorted(s) == \A i, j \in DOMAIN s : i < j => AskedBefore(s[i], s[j])
  <1>9. \E s \in [1..n -> A] : Sorted(s)
    <2> HIDE DEF at
    <2> QED
      BY <1>7, <1>8
  <1>10. Candidates(excluded) = CHOOSE s \in [1..n -> A] : Sorted(s)
    BY DEF Candidates
  <1>11. Candidates(excluded) \in [1..n -> A] /\ Sorted(Candidates(excluded))
    <2> HIDE DEF Sorted
    <2> QED
      BY <1>9, <1>10
  <1>12. Candidates(excluded) \in Seq(Endpoints \ excluded) /\ Len(Candidates(excluded)) = n
    BY <1>1, <1>11
  <1>13. A # {} => n # 0
    BY <1>1, FS_EmptySet
  <1> QED
    BY <1>11, <1>12, <1>13

-----------------------------------------------------------------------------
(* What a request still has to try: it never asks an endpoint that has       *)
(* refused it, so each of its failures is a new one.                         *)
Asking(r)   == r.pc \in {"opening", "openFailed"} =>
                 r.cands \in Seq(Endpoints \ Excluded(r)) /\ r.cands # <<>>
Checking(r) == r.pc = "check" => active = None \/ active \notin Excluded(r)
Untried(r)  == r.pc = "sent" \/ (r.phase = "inner" /\ r.pc \notin {"invalidate", "invalidating"})
                 => r.endpoint \notin r.rejected
Phased(r)   == \/ r.phase \in {"plain", "outer", "inner"}
               \/ r.phase = "disconnect" /\ r.pc \in {"connect", "disconnecting"}

Fresh(r) == Asking(r) /\ Checking(r) /\ Untried(r) /\ Phased(r)
AllFresh == \A t \in Tasks : Fresh(task[t])

LEMMA IdleFresh == Asking(Idle) /\ Checking(Idle) /\ Untried(Idle) /\ Phased(Idle)
  BY DEF Asking, Checking, Untried, Phased, Idle

LEMMA FreshInit == Init => AllFresh
  BY IdleFresh DEF Init, AllFresh, Fresh

LEMMA FreshStep ==
  ASSUME IInv, AllFresh, NEW t \in Tasks, NEW n, AnyTask(n), Become(t, n),
         active' \in {active, None} \/ connectLock \in {None, t}, Fresh(n)'
  PROVE  AllFresh'
  <1>1. task'[t] = n /\ \A u \in Tasks : u # t => task'[u] = task[u]
    BY Becomes
  <1>2. ASSUME NEW u \in Tasks, u # t
        PROVE  Fresh(task[u])'
    <2>1. task'[u] = task[u] /\ Fresh(task[u])
      BY <1>1, <1>2 DEF AllFresh
    <2>2. Asking(task[u])' /\ Untried(task[u])' /\ Phased(task[u])'
      BY <2>1 DEF Fresh, Asking, Excluded, Untried, Phased
    <2>3. Checking(task[u])'
      <3>1. CASE active' \in {active, None}
        BY <2>1, <3>1 DEF Fresh, Checking, Excluded
      <3>2. CASE connectLock \in {None, t}
        <4>1. task[u].pc # "check"
          BY <1>2, <3>2, NobodyElse DEF Holding
        <4> QED
          BY <2>1, <4>1 DEF Checking
      <3> QED
        BY <3>1, <3>2
    <2> QED
      BY <2>2, <2>3 DEF Fresh
  <1>3. Fresh(task[t])'
    BY <1>1 DEF Fresh, Asking, Checking, Excluded, Untried, Phased
  <1> QED
    BY <1>2, <1>3 DEF AllFresh

(* An endpoint that has come to be active, or none.                          *)
LEMMA AfterFresh ==
  ASSUME NEW r, AnyTask(r), NEW a, Untried(r), Phased(r), r.pc \in {"check", "opening"},
         a = None \/ a \notin Excluded(r)
  PROVE  LET n == After(r, a) IN
         /\ n.pc \in {"idle", "asserted", "sent", "connect"} /\ Untried(n) /\ Phased(n)
  <1> DEFINE n == After(r, a)
  <1>1. CASE r.phase = "plain"
    <2>1. n = Idle
      BY <1>1 DEF After
    <2> QED
      BY <2>1, IdleFresh, IdleShape
  <1>2. CASE r.phase # "plain" /\ a = None
    <2>1. n = [Idle EXCEPT !.pc = "asserted"]
      BY <1>2 DEF After
    <2>2. n.pc = "asserted" /\ n.phase = "plain"
      BY <2>1 DEF Idle
    <2> QED
      BY <2>2 DEF Untried, Phased
  <1>3. CASE r.phase = "inner" /\ a # None
    <2>1. n = [r EXCEPT !.pc = "sent", !.sentTo = a, !.closing = None]
      BY <1>3 DEF After
    <2>2. /\ n.pc = "sent" /\ n.phase = "inner" /\ n.endpoint = r.endpoint
          /\ n.rejected = r.rejected
      BY <1>3, <2>1 DEF AnyTask
    <2> QED
      BY <1>3, <2>2 DEF Untried, Phased
  <1>4. CASE r.phase \notin {"plain", "inner"} /\ a # None
    <2>1. r.phase = "outer" /\ a \notin r.rejected
      BY <1>4 DEF Phased, Excluded
    <2>2. \E p \in {"connect", "sent"}, f \in {"inner", "outer"}, x \in {r.sentTo, a} :
            n = [r EXCEPT !.pc = p, !.phase = f, !.endpoint = a, !.current = TRUE,
                          !.sentTo = x, !.closing = None]
      <3>1. CASE Role = "request"
        <4>1. n = [r EXCEPT !.pc = "connect", !.phase = "inner", !.endpoint = a,
                            !.current = TRUE, !.closing = None]
          BY <1>4, <3>1 DEF After
        <4>2. n = [r EXCEPT !.pc = "connect", !.phase = "inner", !.endpoint = a,
                            !.current = TRUE, !.sentTo = r.sentTo, !.closing = None]
          BY <4>1 DEF AnyTask
        <4> QED
          BY <4>2
      <3>2. CASE Role # "request"
        <4>1. n = [r EXCEPT !.pc = "sent", !.endpoint = a, !.current = TRUE, !.sentTo = a,
                            !.closing = None]
          BY <1>4, <3>2 DEF After
        <4>2. n = [r EXCEPT !.pc = "sent", !.phase = "outer", !.endpoint = a,
                            !.current = TRUE, !.sentTo = a, !.closing = None]
          BY <2>1, <4>1 DEF AnyTask
        <4> QED
          BY <4>2
      <3> QED
        BY <3>1, <3>2
    <2>3. /\ n.pc \in {"connect", "sent"} /\ n.phase \in {"inner", "outer"}
          /\ n.endpoint = a /\ n.rejected = r.rejected
      BY <2>2 DEF AnyTask
    <2> QED
      BY <2>1, <2>3 DEF Untried, Phased
  <1> QED
    BY <1>1, <1>2, <1>3, <1>4

(* A record that goes on with the same endpoints given up.                   *)
LEMMA SameFresh ==
  ASSUME NEW r, Untried(r), Phased(r), NEW n,
         n.phase = r.phase, n.rejected = r.rejected, n.endpoint = r.endpoint,
         n.pc # "sent", r.pc \notin {"invalidate", "invalidating"},
         r.phase # "disconnect" \/ n.pc = "disconnecting"
  PROVE  Untried(n) /\ Phased(n) /\ Excluded(n) = Excluded(r)
  BY DEF Untried, Phased, Excluded

LEMMA ChooseFresh ==
  ASSUME IInv, AllFresh, NEW t \in Tasks, Choose(t), active' = active,
         task[t].phase # "disconnect", task[t].pc \notin {"invalidate", "invalidating"}
  PROVE  AllFresh'
  <1> DEFINE r == task[t]
             s == Candidates(Excluded(r))
  <1>1. PICK n : n = Choice(r)
    OBVIOUS
  <1>2. Become(t, n) /\ AnyTask(r) /\ Noted(r) /\ Fresh(r)
    BY <1>1 DEF Choose, IInv, Shape, TaskOK, AllFresh
  <1>3. AnyTask(n) /\ n.pc \in {"sleep", "opening"}
    BY <1>1, <1>2, ChoiceIsOK
  <1>4. s \in Seq(Endpoints \ Excluded(r)) /\ (Available(Excluded(r)) # {} => s # <<>>)
    BY CandidatesAre
  <1> HIDE DEF s
  <1>5. \/ n = [r EXCEPT !.pc = "sleep", !.cands = <<>>, !.closing = None]
        \/ /\ n = [r EXCEPT !.pc = "opening", !.cands = s, !.closing = None]
           /\ Available(Excluded(r)) # {}
    BY <1>1 DEF Choice, s
  <1>6. /\ n.phase = r.phase /\ n.rejected = r.rejected /\ n.endpoint = r.endpoint
        /\ n.pc = "opening" => n.cands = s /\ Available(Excluded(r)) # {}
    <2>1. CASE n = [r EXCEPT !.pc = "sleep", !.cands = <<>>, !.closing = None]
      BY <1>2, <2>1 DEF AnyTask
    <2>2. CASE /\ n = [r EXCEPT !.pc = "opening", !.cands = s, !.closing = None]
               /\ Available(Excluded(r)) # {}
      BY <1>2, <2>2 DEF AnyTask
    <2> QED
      BY <1>5, <2>1, <2>2
  <1>7. Untried(n) /\ Phased(n) /\ Excluded(n) = Excluded(r)
    BY <1>2, <1>3, <1>6, SameFresh DEF Fresh
  <1>8. Fresh(n)'
    BY <1>3, <1>4, <1>6, <1>7 DEF Fresh, Asking, Checking, Untried, Phased, Excluded
  <1> QED
    BY <1>2, <1>3, <1>8, FreshStep

(* A connection is looked at or closed.                                      *)
LEMMA WaitingFresh ==
  ASSUME IInv, AllFresh, NEW t \in Tasks, NEW p, NEW c, Become(t, Waiting(task[t], p, c)),
         active' \in {active, None},
         p \in {"closing", "disconnecting", "check", "openFailed", "invalidating"},
         p = "check" => active' = active /\ active \notin Excluded(task[t]),
         p = "openFailed" => task[t].pc = "opening",
         p = "disconnecting" \/ task[t].phase # "disconnect",
         task[t].pc \notin {"invalidate", "invalidating"} \/ p = "invalidating"
  PROVE  AllFresh'
  <1> DEFINE r == task[t]
  <1>1. PICK n : n = Waiting(r, p, c)
    OBVIOUS
  <1>2. Become(t, n) /\ AnyTask(r) /\ Noted(r) /\ Fresh(r)
    BY <1>1 DEF IInv, Shape, TaskOK, AllFresh
  <1>3. AnyTask(n) /\ n.pc = p
    BY <1>1, <1>2, WaitingIsOK
  <1>4. n.phase = r.phase /\ n.rejected = r.rejected /\ n.endpoint = r.endpoint /\ n.cands = r.cands
    BY <1>1, <1>2 DEF AnyTask, Waiting
  <1>5. Untried(n) /\ Phased(n) /\ Excluded(n) = Excluded(r)
    <2>1. CASE p = "invalidating"
      BY <1>2, <1>3, <1>4, <2>1 DEF Fresh, Untried, Phased, Excluded
    <2>2. CASE p # "invalidating"
      BY <1>2, <1>3, <1>4, <2>2, SameFresh DEF Fresh
    <2> QED
      BY <2>1, <2>2
  <1>6. Asking(n)
    <2>1. CASE p = "openFailed"
      BY <1>2, <1>4, <1>5, <2>1 DEF Fresh, Asking
    <2>2. CASE p # "openFailed"
      BY <1>3, <2>2 DEF Asking
    <2> QED
      BY <2>1, <2>2
  <1>7. Checking(n)'
    BY <1>3, <1>5 DEF Checking, Excluded
  <1>8. Fresh(n)'
    BY <1>5, <1>6, <1>7 DEF Fresh, Asking, Untried, Phased, Excluded
  <1> QED
    BY <1>2, <1>3, <1>8, FreshStep

(* The steps under the connect lock.                                         *)
LEMMA FreshAcquire == ASSUME IInv, AllFresh, NEW t \in Tasks, AcquireConnect(t) PROVE AllFresh'
  <1>1. task[t].pc = "connect" /\ Fresh(task[t])
    BY DEF AcquireConnect, AllFresh
  <1>2. CASE task[t].phase = "disconnect" /\ CloseBegins(t, "disconnecting")
    BY <1>1, <1>2, WaitingFresh DEF CloseBegins, Waiting
  <1>3. CASE task[t].phase # "disconnect" /\ Choose(t) /\ UNCHANGED active
    BY <1>1, <1>3, ChooseFresh
  <1>4. CASE task[t].phase # "disconnect" /\ CloseBegins(t, "closing")
    BY <1>1, <1>4, WaitingFresh DEF CloseBegins, Waiting
  <1>5. CASE /\ task[t].phase # "disconnect" /\ active \notin Excluded(task[t])
             /\ Become(t, [task[t] EXCEPT !.pc = "check", !.closing = transport])
             /\ UNCHANGED <<active, transport>>
    BY <1>1, <1>5, WaitingFresh DEF Waiting
  <1> QED
    BY <1>2, <1>3, <1>4, <1>5 DEF AcquireConnect

LEMMA FreshConnected == ASSUME IInv, AllFresh, NEW t \in Tasks, StillConnected(t) PROVE AllFresh'
  <1>1. PICK n : n = After(task[t], active)
    OBVIOUS
  <1>2. /\ task[t].pc = "check" /\ Become(t, n) /\ active' = active
        /\ AnyTask(task[t]) /\ Noted(task[t]) /\ Seen(task[t]) /\ Fresh(task[t])
    BY <1>1 DEF StillConnected, IInv, Shape, TaskOK, AllFresh
  <1>3. active = None \/ active \notin Excluded(task[t])
    BY <1>2 DEF Fresh, Checking
  <1>4. n.pc \in {"idle", "asserted", "sent", "connect"} /\ Untried(n) /\ Phased(n)
    BY <1>1, <1>2, <1>3, AfterFresh DEF Fresh
  <1>5. AnyTask(n)
    BY <1>1, <1>2, AfterIsOK DEF Seen
  <1>6. Fresh(n)'
    BY <1>4 DEF Fresh, Asking, Checking, Untried, Phased
  <1> QED
    BY <1>2, <1>5, <1>6, FreshStep

LEMMA FreshOpenFailed == ASSUME IInv, AllFresh, NEW t \in Tasks, OpenFailed(t) PROVE AllFresh'
  <1> DEFINE r == task[t]
             rest == Tail(task[t].cands)
  <1>1. PICK n : n = IF rest # <<>> THEN [r EXCEPT !.pc = "opening", !.cands = rest, !.closing = None]
                     ELSE IF OneRound(r) THEN Idle
                     ELSE [r EXCEPT !.pc = "sleep", !.cands = <<>>, !.closing = None]
    OBVIOUS
  <1>2. /\ r.pc = "openFailed" /\ Become(t, n) /\ active' = active /\ AnyTask(r) /\ Fresh(r)
    BY <1>1 DEF OpenFailed, IInv, Shape, AllFresh
  <1>3. rest \in Seq(Endpoints \ Excluded(r)) /\ r.phase # "disconnect"
    BY <1>2 DEF Fresh, Asking, Phased
  <1> HIDE DEF rest
  <1>4. CASE n = Idle
    <2>1. Fresh(n)'
      BY <1>4, IdleFresh, IdleShape DEF Fresh, Asking, Checking, Untried, Phased
    <2> QED
      BY <1>2, <1>4, <2>1, IdleShape, FreshStep
  <1>5. CASE n # Idle
    <2>1. \/ /\ n = [r EXCEPT !.pc = "opening", !.cands = rest, !.closing = None]
             /\ rest # <<>>
          \/ n = [r EXCEPT !.pc = "sleep", !.cands = <<>>, !.closing = None]
      BY <1>1, <1>5
    <2>2. /\ AnyTask(n) /\ n.pc \in {"opening", "sleep"}
          /\ n.phase = r.phase /\ n.rejected = r.rejected /\ n.endpoint = r.endpoint
          /\ n.pc = "opening" => n.cands = rest /\ rest # <<>>
      <3>1. CASE /\ n = [r EXCEPT !.pc = "opening", !.cands = rest, !.closing = None]
                 /\ rest # <<>>
        BY <1>2, <3>1 DEF AnyTask
      <3>2. CASE n = [r EXCEPT !.pc = "sleep", !.cands = <<>>, !.closing = None]
        BY <1>2, <3>2 DEF AnyTask
      <3> QED
        BY <2>1, <3>1, <3>2
    <2>3. Untried(n) /\ Phased(n) /\ Excluded(n) = Excluded(r)
      BY <1>2, <1>3, <2>2, SameFresh DEF Fresh
    <2>4. Fresh(n)'
      BY <1>3, <2>2, <2>3 DEF Fresh, Asking, Checking, Untried, Phased, Excluded
    <2> QED
      BY <1>2, <2>2, <2>4, FreshStep
  <1> QED
    BY <1>4, <1>5

LEMMA FreshOpened == ASSUME IInv, AllFresh, NEW t \in Tasks, OpenSucceeds(t) PROVE AllFresh'
  <1> DEFINE e == Head(task[t].cands)
             r == [task[t] EXCEPT !.current = FALSE, !.cands = <<>>]
             n == After(r, e)
             Old(u) == [task[u] EXCEPT !.current = FALSE]
  <1>1. /\ task[t].pc = "opening"
        /\ task' = [u \in Tasks |-> IF u = t THEN n ELSE Old(u)]
    BY DEF OpenSucceeds
  <1>2. /\ AnyTask(task[t]) /\ Fresh(task[t]) /\ connectLock = t
    BY <1>1 DEF IInv, Shape, LocksHeld, Holding, AllFresh
  <1>3. e \notin Excluded(task[t])
    BY <1>1, <1>2 DEF Fresh, Asking
  <1>4. /\ AnyTask(r) /\ r.phase = task[t].phase /\ r.endpoint = task[t].endpoint
        /\ r.rejected = task[t].rejected /\ r.pc = "opening"
    <2>1. r.rejected = task[t].rejected
      BY <1>2 DEF AnyTask
    <2> QED
      BY <1>1, <1>2, <2>1, OutdatedIsOK
  <1> HIDE DEF r, e
  <1>5. Untried(r) /\ Phased(r) /\ e \notin Excluded(r)
    BY <1>1, <1>2, <1>3, <1>4 DEF Fresh, Untried, Phased, Excluded
  <1>6. n.pc \in {"idle", "asserted", "sent", "connect"} /\ Untried(n) /\ Phased(n)
    BY <1>4, <1>5, AfterFresh
  <1> HIDE DEF n
  <1>7. ASSUME NEW u \in Tasks, u # t
        PROVE  Fresh(task[u])'
    <2>1. AnyTask(task[u]) /\ task'[u] = Old(u) /\ Fresh(task[u]) /\ task[u].pc # "check"
      BY <1>1, <1>2, <1>7, NobodyElse DEF IInv, Shape, AllFresh, Holding
    <2>2. /\ Old(u).pc = task[u].pc /\ Old(u).phase = task[u].phase
          /\ Old(u).endpoint = task[u].endpoint /\ Old(u).rejected = task[u].rejected
          /\ Old(u).cands = task[u].cands
      BY <2>1 DEF AnyTask
    <2> HIDE DEF Old
    <2> QED
      BY <2>1, <2>2 DEF Fresh, Asking, Checking, Excluded, Untried, Phased
  <1>8. Fresh(task[t])'
    <2>1. task'[t] = n
      BY <1>1
    <2> QED
      BY <1>6, <2>1 DEF Fresh, Asking, Checking, Untried, Phased
  <1> QED
    BY <1>7, <1>8 DEF AllFresh

LEMMA FreshConnecting ==
  ASSUME IInv, AllFresh, NEW t \in Tasks,
         \/ AcquireConnect(t) \/ StillConnected(t) \/ FoundDisconnected(t)
         \/ ClosedBeforeOpening(t) \/ OpenSucceeds(t) \/ OpenFails(t) \/ OpenFailed(t)
         \/ Wake(t) \/ Disconnected(t)
  PROVE  AllFresh'
  <1>1. Fresh(task[t])
    BY DEF AllFresh
  <1>2. CASE FoundDisconnected(t)
    <2>1. task[t].pc = "check" /\ task[t].phase # "disconnect"
      BY <1>1, <1>2 DEF FoundDisconnected, Fresh, Phased
    <2> QED
      BY <1>2, <2>1, WaitingFresh DEF FoundDisconnected, CloseBegins, Waiting
  <1>3. CASE OpenFails(t)
    <2>1. task[t].pc = "opening" /\ task[t].phase # "disconnect"
      BY <1>1, <1>3 DEF OpenFails, Fresh, Phased
    <2> QED
      BY <1>3, <2>1, WaitingFresh DEF OpenFails, Waiting
  <1>4. CASE ClosedBeforeOpening(t) \/ Wake(t)
    <2>1. /\ task[t].pc \in {"closing", "sleep"} /\ task[t].phase # "disconnect"
          /\ Choose(t) /\ active' = active
      BY <1>1, <1>4 DEF ClosedBeforeOpening, Wake, Fresh, Phased
    <2> QED
      BY <2>1, ChooseFresh
  <1>5. CASE Disconnected(t)
    <2>1. Become(t, Idle) /\ active' = active
      BY <1>5 DEF Disconnected
    <2>2. Fresh(Idle)'
      BY IdleFresh, IdleShape DEF Fresh, Asking, Checking, Excluded, Untried, Phased, Idle
    <2> QED
      BY <2>1, <2>2, IdleShape, FreshStep
  <1> QED
    BY <1>2, <1>3, <1>4, <1>5, FreshAcquire, FreshConnected, FreshOpened, FreshOpenFailed

(* The others: a request begins, is answered, fails, and is dealt with.      *)
LEMMA FreshSent ==
  ASSUME IInv, AllFresh, NEW t \in Tasks,
         Refused(t) \/ Lost(t) \/ SubscriptionRefused(t) \/ SubscriptionLost(t)
  PROVE  AllFresh'
  <1>1. task[t].pc = "sent" /\ AnyTask(task[t]) /\ Fresh(task[t]) /\ active' = active
    BY DEF Refused, Lost, SubscriptionRefused, SubscriptionLost, providerVars, IInv, Shape, AllFresh
  <1>2. \E c, x, y : Become(t, [task[t] EXCEPT !.pc = "invalidate", !.charge = c, !.retried = x,
                                               !.rejected = y])
    <2>1. CASE Refused(t)
      <3>1. Become(t, [task[t] EXCEPT !.pc = "invalidate", !.charge = FALSE, !.retried = @,
                                      !.rejected = @ \cup {task[t].endpoint}])
        BY <1>1, <2>1 DEF Refused, Become, AnyTask
      <3> QED
        BY <3>1
    <2>2. CASE Lost(t)
      <3> DEFINE e == task[t].endpoint
                 again == e \in task[t].retried
      <3>1. Become(t, [task[t] EXCEPT !.pc = "invalidate", !.charge = again,
                                      !.retried = @ \cup {e},
                                      !.rejected = @ \cup (IF again THEN {e} ELSE {})])
        BY <2>2 DEF Lost
      <3> QED
        BY <3>1
    <2>3. ASSUME NEW c, Become(t, [task[t] EXCEPT !.pc = "invalidate", !.charge = c])
          PROVE  \E x, y : Become(t, [task[t] EXCEPT !.pc = "invalidate", !.charge = c, !.retried = x,
                                                     !.rejected = y])
      <3>1. Become(t, [task[t] EXCEPT !.pc = "invalidate", !.charge = c, !.retried = @, !.rejected = @])
        BY <1>1, <2>3 DEF Become, AnyTask
      <3> QED
        BY <3>1
    <2>4. CASE SubscriptionRefused(t) \/ SubscriptionLost(t)
      BY <2>3, <2>4 DEF SubscriptionRefused, SubscriptionLost
    <2> QED
      BY <2>1, <2>2, <2>4
  <1>3. PICK n, c, x, y : /\ n = [task[t] EXCEPT !.pc = "invalidate", !.charge = c, !.retried = x,
                                                 !.rejected = y]
                          /\ Become(t, n)
    BY <1>2
  <1>4. AnyTask(n) /\ n.pc = "invalidate" /\ n.phase = task[t].phase
    BY <1>1, <1>3 DEF AnyTask
  <1>5. Fresh(n)'
    BY <1>1, <1>4 DEF Fresh, Asking, Checking, Untried, Phased
  <1> QED
    BY <1>1, <1>3, <1>4, <1>5, FreshStep

LEMMA FreshElse ==
  ASSUME IInv, AllFresh, NEW t \in Tasks,
         Begin(t) \/ Answered(t) \/ Invalidate(t) \/ Invalidated(t)
  PROVE  AllFresh'
  <1>1. AnyTask(task[t]) /\ Fresh(task[t])
    BY DEF IInv, Shape, AllFresh
  <1>2. ASSUME NEW n, AnyTask(n), Become(t, n), active' = active,
               n.pc \in {"idle", "connect"}, n.phase \in {"plain", "outer", "disconnect"},
               n.phase # "disconnect" \/ n.pc = "connect"
        PROVE  AllFresh'
    <2>1. Fresh(n)'
      BY <1>2 DEF Fresh, Asking, Checking, Untried, Phased
    <2> QED
      BY <1>2, <2>1, FreshStep
  <1>3. CASE Begin(t)
    <2>1. PICK p \in {"plain", "outer", "disconnect"} :
            Become(t, [Idle EXCEPT !.pc = "connect", !.phase = p])
      BY <1>3 DEF Begin
    <2>2. PICK n : n = [Idle EXCEPT !.pc = "connect", !.phase = p]
      OBVIOUS
    <2>3. AnyTask(n) /\ n.pc = "connect" /\ n.phase = p
      BY <2>2 DEF AnyTask, Idle
    <2> QED
      BY <1>2, <1>3, <2>1, <2>2, <2>3 DEF Begin, providerVars
  <1>4. CASE Answered(t)
    BY <1>2, <1>4, IdleShape DEF Answered, providerVars
  <1>5. CASE Become(t, AfterFailure(task[t])) /\ active' = active
    <2>1. PICK n : n = AfterFailure(task[t])
      OBVIOUS
    <2>2. AnyTask(n) /\ n.pc \in {"idle", "connect"}
      BY <1>1, <2>1, AfterFailureIsOK
    <2>3. n.phase \in {"plain", "outer"}
      <3>1. n = Idle \/ n = [task[t] EXCEPT !.pc = "connect", !.phase = "outer", !.endpoint = None,
                                            !.current = FALSE, !.charge = FALSE, !.closing = None,
                                            !.sentTo = None]
        BY <2>1 DEF AfterFailure
      <3> QED
        BY <1>1, <3>1, IdleShape DEF AnyTask
    <2> QED
      BY <1>2, <1>5, <2>1, <2>2, <2>3
  <1>6. CASE Invalidate(t) /\ OwnConnection(task[t])
    <2>1. task[t].pc = "invalidate" /\ CloseBegins(t, "invalidating")
      BY <1>6 DEF Invalidate
    <2>2. task[t].phase # "disconnect"
      BY <1>1, <2>1 DEF Fresh, Phased
    <2> QED
      BY <2>1, <2>2, WaitingFresh DEF CloseBegins, Waiting
  <1> QED
    BY <1>3, <1>4, <1>5, <1>6 DEF Invalidate, Invalidated

LEMMA FreshKept == ASSUME IInv, AllFresh, [Next]_vars PROVE AllFresh'
  <1>1. ASSUME NEW t \in Tasks, Begin(t) \/ Step(t)
        PROVE  AllFresh'
    BY <1>1, FreshConnecting, FreshSent, FreshElse DEF Step
  <1>2. CASE UNCHANGED <<active, task>>
    BY <1>2 DEF AllFresh, Fresh, Asking, Checking, Excluded, Untried, Phased
  <1> QED
    BY <1>1, <1>2 DEF Next, LinkDrops, StreamRefused, OtherRole, Time, providerVars, vars

(* A step of one task leaves where another one is.                           *)
LEMMA OthersStay ==
  ASSUME IInv, NEW u \in Tasks, Begin(u) \/ Step(u), NEW t \in Tasks, t # u
  PROVE  task'[t].pc = task[t].pc
  <1>1. task = [v \in Tasks |-> task[v]] /\ AnyTask(task[t])
    BY DEF IInv, Shape
  <1>2. ASSUME NEW n, Become(u, n)
        PROVE  task'[t] = task[t]
    BY <1>1, <1>2 DEF Become
  <1>3. CASE OpenSucceeds(u)
    <2>1. task'[t] = [task[t] EXCEPT !.current = FALSE]
      BY <1>3 DEF OpenSucceeds
    <2> QED
      BY <1>1, <2>1, OutdatedIsOK
  <1>4. CASE ~OpenSucceeds(u)
    <2>1. \E n : Become(u, n)
      BY <1>4 DEF Begin, Step, AcquireConnect, Choose, CloseBegins, StillConnected,
         FoundDisconnected, ClosedBeforeOpening, OpenFails, OpenFailed, Wake, Disconnected,
         Answered, Refused, Lost, SubscriptionRefused, SubscriptionLost, Invalidate, Invalidated
    <2> QED
      BY <1>2, <2>1
  <1> QED
    BY <1>3, <1>4

LEMMA FailuresAreNew ==
  ASSUME IInv, AllFresh, [Next]_vars, NEW t \in Tasks,
         Role = "request", task[t].pc = "sent", task'[t].pc = "invalidate"
  PROVE  task'[t].retried # task[t].retried \/ task'[t].rejected # task[t].rejected
  <1> DEFINE e == task[t].endpoint
  <1>1. /\ AnyTask(task[t]) /\ e \notin task[t].rejected
        /\ task = [v \in Tasks |-> task[v]]
    BY DEF IInv, Shape, AllFresh, Fresh, Untried
  <1>2. task'[t].pc # task[t].pc
    OBVIOUS
  <1>3. ~(UNCHANGED task)
    BY <1>2
  <1>4. PICK u \in Tasks : Begin(u) \/ Step(u)
    BY <1>3 DEF Next, LinkDrops, StreamRefused, OtherRole, Time, providerVars, vars
  <1>5. Begin(t) \/ Step(t)
    BY <1>2, <1>4, OthersStay
  <1>6. Refused(t) \/ Lost(t)
    <2>1. ~Begin(t)
      BY DEF Begin
    <2>2. CASE Answered(t)
      <3>1. task'[t] = Idle
        BY <1>1, <2>2 DEF Answered, Become
      <3> QED
        BY <3>1, IdleShape
    <2> QED
      BY <1>5, <2>1, <2>2
         DEF Step, AcquireConnect, StillConnected, FoundDisconnected, ClosedBeforeOpening,
             OpenSucceeds, OpenFails, OpenFailed, Wake, Disconnected, SubscriptionRefused,
             SubscriptionLost, Invalidate, Invalidated
  <1>7. CASE Refused(t)
    <2>1. task'[t] = [task[t] EXCEPT !.pc = "invalidate", !.charge = FALSE,
                                     !.rejected = @ \cup {e}]
      BY <1>1, <1>7 DEF Refused, Become
    <2>2. task'[t].rejected = task[t].rejected \cup {e}
      BY <1>1, <2>1 DEF AnyTask
    <2> QED
      BY <1>1, <2>2
  <1>8. CASE Lost(t)
    <2>1. PICK again, x : /\ again = (e \in task[t].retried)
                          /\ x = task[t].rejected \cup (IF again THEN {e} ELSE {})
                          /\ task'[t] = [task[t] EXCEPT !.pc = "invalidate", !.charge = again,
                                                        !.retried = @ \cup {e}, !.rejected = x]
      BY <1>1, <1>8 DEF Lost, Become
    <2>2. task'[t].rejected = x /\ task'[t].retried = task[t].retried \cup {e}
      BY <1>1, <2>1 DEF AnyTask
    <2> QED
      BY <1>1, <2>1, <2>2
  <1> QED
    BY <1>6, <1>7, <1>8

LEMMA FreshAlways == Spec => []AllFresh
  <1>1. IInv /\ AllFresh /\ [Next]_vars => AllFresh'
    BY FreshKept
  <1> QED
    BY <1>1, FreshInit, Invariant, PTL DEF Spec

(* Each failure of a request is the first loss of an endpoint or its last    *)
(* chance: whatever other tasks open and close, a request asks no endpoint   *)
(* that has refused it, and so fails at most twice for each of them.         *)
THEOREM RetriesProgress == Spec => RetryMakesProgress
  <1>1. IInv /\ AllFresh /\ [Next]_vars
          => [\A t \in Tasks : Role = "request" /\ task[t].pc = "sent" /\ task'[t].pc = "invalidate"
                => \/ task'[t].retried # task[t].retried
                   \/ task'[t].rejected # task[t].rejected]_vars
    BY FailuresAreNew
  <1> QED
    BY <1>1, FreshAlways, Invariant, PTL DEF Spec, RetryMakesProgress

-----------------------------------------------------------------------------
(* The health of the endpoints.                                              *)
PoolTypes ==
  /\ cooling \in [Endpoints -> Nat]
  /\ strikes \in [Endpoints -> 0..1]
  /\ strikeAge \in [Endpoints -> 0..Forgotten]

LEMMA PoolStarts == Init => PoolTypes
  BY PoolAssumption DEF Init, PoolInit, PoolTypes, Forgotten

LEMMA PoolMoves ==
  ASSUME PoolTypes,
         \/ UNCHANGED poolVars \/ Tick
         \/ \E x : MarkFailed(x) \/ MarkSuccess(x) \/ RecordStrike(x)
  PROVE  /\ PoolTypes'
         /\ \A f \in Endpoints : strikes[f] = 1 /\ strikes'[f] = 0 => strikeAge[f] <= Cooldown
         /\ preferred' # preferred => \E x : MarkSuccess(x) /\ preferred' = x
  <1>1. Cooldown \in Nat \ {0} /\ Forgotten = Cooldown + 1
    BY PoolAssumption DEF Forgotten
  <1>2. CASE UNCHANGED poolVars
    BY <1>2 DEF PoolTypes, poolVars
  <1>3. CASE Tick
    <2>1. cooling' \in [Endpoints -> Nat]
      BY <1>3 DEF Tick, PoolTypes
    <2>2. strikeAge' \in [Endpoints -> 0..Forgotten]
      BY <1>1, <1>3 DEF Tick, PoolTypes
    <2> QED
      BY <1>3, <2>1, <2>2 DEF Tick, PoolTypes
  <1>4. ASSUME NEW x, MarkFailed(x)
        PROVE  PoolTypes' /\ UNCHANGED <<strikes, preferred>>
    BY <1>1, <1>4 DEF MarkFailed, PoolTypes
  <1>5. ASSUME NEW x, MarkSuccess(x)
        PROVE  PoolTypes' /\ UNCHANGED strikes /\ preferred' \in {preferred, x}
    BY <1>5 DEF MarkSuccess, PoolTypes
  <1>6. ASSUME NEW x, RecordStrike(x)
        PROVE  /\ PoolTypes' /\ preferred' = preferred
               /\ \A f \in Endpoints : strikes[f] = 1 /\ strikes'[f] = 0 => strikeAge[f] <= Cooldown
    <2>1. /\ strikes' = [strikes EXCEPT ![x] = IF SecondStrike(x) THEN 0 ELSE 1]
          /\ strikeAge' = [strikeAge EXCEPT ![x] = 0] /\ preferred' = preferred
          /\ cooling' = IF SecondStrike(x) THEN [cooling EXCEPT ![x] = Cooldown] ELSE cooling
      BY <1>6 DEF RecordStrike
    <2>2. PoolTypes'
      <3>1. strikes' \in [Endpoints -> 0..1]
        <4>1. PICK v \in 0..1 : strikes' = [strikes EXCEPT ![x] = v]
          <5>1. CASE SecondStrike(x)
            BY <2>1, <5>1
          <5>2. CASE ~SecondStrike(x)
            BY <2>1, <5>2
          <5> QED
            BY <5>1, <5>2
        <4> QED
          BY <4>1 DEF PoolTypes
      <3>2. 0 \in 0..Forgotten
        BY <1>1
      <3>3. strikeAge' \in [Endpoints -> 0..Forgotten]
        BY <2>1, <3>2 DEF PoolTypes
      <3>4. cooling' \in [Endpoints -> Nat]
        BY <1>1, <2>1 DEF PoolTypes
      <3> QED
        BY <3>1, <3>3, <3>4 DEF PoolTypes
    <2>3. ASSUME NEW f \in Endpoints, strikes[f] = 1, strikes'[f] = 0
          PROVE  strikeAge[f] <= Cooldown
      <3>1. f = x /\ SecondStrike(x)
        BY <2>1, <2>3 DEF PoolTypes
      <3> QED
        BY <3>1 DEF SecondStrike
    <2> QED
      BY <2>1, <2>2, <2>3
  <1> QED
    BY <1>2, <1>3, <1>4, <1>5, <1>6 DEF Tick, poolVars

LEMMA PoolSteps ==
  ASSUME [Next]_vars
  PROVE  \/ UNCHANGED poolVars \/ Tick
         \/ \E x : MarkFailed(x) \/ MarkSuccess(x) \/ RecordStrike(x)
  <1>1. CASE UNCHANGED vars
    BY <1>1 DEF vars, poolVars
  <1>2. ASSUME NEW t \in Tasks, Begin(t) \/ Step(t)
        PROVE  \/ UNCHANGED poolVars
               \/ \E x : MarkFailed(x) \/ MarkSuccess(x) \/ RecordStrike(x)
    BY <1>2 DEF Begin, Step, AcquireConnect, StillConnected,
       FoundDisconnected, ClosedBeforeOpening, OpenSucceeds, OpenFails, OpenFailed, Wake,
       Disconnected, Answered, Refused, Lost, SubscriptionRefused, SubscriptionLost, Invalidate,
       Invalidated
  <1>3. ASSUME NEW e \in Endpoints, LinkDrops(e) \/ StreamRefused(e) \/ OtherRole(e)
        PROVE  \/ UNCHANGED poolVars
               \/ \E x : MarkFailed(x) \/ MarkSuccess(x) \/ RecordStrike(x)
    <2>1. CASE LinkDrops(e)
      BY <2>1, ProviderAssumption DEF LinkDrops
    <2> QED
      BY <1>3, <2>1 DEF StreamRefused, OtherRole
  <1> QED
    BY <1>1, <1>2, <1>3 DEF Next, Time

(* What succeeds is an endpoint.                                             *)
LEMMA SuccessIsOf ==
  ASSUME IInv, AllFresh, PoolTypes, [Next]_vars, preferred' # preferred
  PROVE  \E e \in Endpoints : MarkSuccess(e) /\ preferred' = e
  <1>1. ASSUME NEW t \in Tasks, Begin(t) \/ Step(t)
        PROVE  OpenSucceeds(t)
    BY <1>1 DEF Begin, Step, AcquireConnect, StillConnected, poolVars,
       FoundDisconnected, ClosedBeforeOpening, OpenFails, OpenFailed, Wake, MarkFailed, RecordStrike,
       Disconnected, Answered, Refused, Lost, SubscriptionRefused, SubscriptionLost, Invalidate,
       Invalidated
  <1>2. CASE \E e \in Endpoints : MarkSuccess(e)
    <2>1. PICK e \in Endpoints : MarkSuccess(e)
      BY <1>2
    <2>2. preferred' = e
      BY <2>1 DEF MarkSuccess
    <2> QED
      BY <2>1, <2>2
  <1>3. ASSUME NEW t \in Tasks, OpenSucceeds(t)
        PROVE  \E e \in Endpoints : MarkSuccess(e)
    <2>1. task[t].pc = "opening" /\ MarkSuccess(Head(task[t].cands))
      BY <1>3 DEF OpenSucceeds
    <2>2. task[t].cands \in Seq(Endpoints \ Excluded(task[t])) /\ task[t].cands # <<>>
      BY <2>1 DEF AllFresh, Fresh, Asking
    <2>3. Head(task[t].cands) \in Endpoints
      BY <2>2
    <2> QED
      BY <2>1, <2>3
  <1>4. ASSUME NEW e \in Endpoints, LinkDrops(e) \/ StreamRefused(e) \/ OtherRole(e)
        PROVE  MarkSuccess(e)
    <2>1. ~LinkDrops(e)
      BY ProviderAssumption DEF LinkDrops, RecordStrike, poolVars
    <2> QED
      BY <1>4, <2>1 DEF StreamRefused, OtherRole, MarkFailed
  <1> QED
    BY <1>1, <1>2, <1>3, <1>4 DEF Next, Time, Tick, vars

(* The pool is fair to its endpoints, for any number of them and any         *)
(* cooldown: the preference goes only to one that is out of cooldown, though *)
(* it may have been cooled by another role while it was being opened; and    *)
(* two failures of a stream cool its endpoint only within one cooldown.      *)
THEOREM PoolStaysFair == Spec => PoolIsFair
  <1>1. PoolTypes /\ [Next]_vars => PoolTypes'
    BY PoolMoves, PoolSteps
  <1>2. Spec => []PoolTypes
    BY <1>1, PoolStarts, PTL DEF Spec
  <1>3. IInv /\ AllFresh /\ PoolTypes /\ [Next]_vars
          => [preferred' # preferred => cooling[preferred'] = 0]_vars
    <2> SUFFICES ASSUME IInv, AllFresh, PoolTypes, [Next]_vars, preferred' # preferred
                 PROVE  cooling[preferred'] = 0
      OBVIOUS
    <2>1. PICK e \in Endpoints : MarkSuccess(e) /\ preferred' = e
      BY SuccessIsOf
    <2>2. ~(cooling[e] > 0) /\ cooling[e] \in Nat
      BY <2>1 DEF MarkSuccess, PoolTypes
    <2> QED
      BY <2>1, <2>2
  <1>4. PoolTypes /\ [Next]_vars
          => [\A e \in Endpoints : strikes[e] = 1 /\ strikes'[e] = 0 => strikeAge[e] <= Cooldown]_vars
    BY PoolMoves, PoolSteps
  <1>5. Spec => PreferredIsAvailable
    BY <1>2, <1>3, FreshAlways, Invariant, PTL DEF Spec, PreferredIsAvailable
  <1>6. Spec => OldStrikesForgotten
    BY <1>2, <1>4, PTL DEF Spec, OldStrikesForgotten
  <1> QED
    BY <1>5, <1>6 DEF PoolIsFair
=============================================================================
