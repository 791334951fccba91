----------------------------- MODULE MCChainReads -----------------------------
(* How tasks share what reads the chain, on small instances: the lease of    *)
(* the shared connection (SharedChainConnection), and fallback providers     *)
(* (RpcFallbackProvider, with the fairness of LiveSpec), where one task goes *)
(* round two endpoints or two tasks contend for one.  The parts share no     *)
(* state, so a behaviour runs one of them and leaves the lease in its        *)
(* initial state if it is not the lease's.                                   *)
EXTENDS SharedChainConnection

CONSTANT None

VARIABLES
  part,
  cooling, strikes, strikeAge, preferred, active, transport, up, connectLock, failoverLock,
  task

requestVars == <<cooling, strikes, strikeAge, preferred, active, transport, up, connectLock,
                 failoverLock, task>>

Rounds == INSTANCE RpcFallbackProvider WITH
  Endpoints <- {0, 1}, Cooldown <- 1, Tasks <- {"t1"}, Role <- "request", None <- None

Contention == INSTANCE RpcFallbackProvider WITH
  Endpoints <- {0}, Cooldown <- 1, Tasks <- {"t1", "t2"}, Role <- "request", None <- None

LeaseTurn(A)   == part = "lease" /\ A /\ UNCHANGED <<part, requestVars>>
RoundsTurn(A)  == part = "rounds" /\ A /\ UNCHANGED <<part, vars>>
ContendTurn(A) == part = "contention" /\ A /\ UNCHANGED <<part, vars>>
TaskTurn(t, A, B) == RoundsTurn(t = "t1" /\ A) \/ ContendTurn(B)

MCInit ==
  /\ part \in {"lease", "rounds", "contention"}
  /\ Init
  /\ IF part = "contention" THEN Contention!Init ELSE Rounds!Init

MCNext ==
  \/ LeaseTurn(Next)
  \/ RoundsTurn(Rounds!NextAlone) \/ ContendTurn(Contention!NextAlone)

MCSpec ==
  /\ MCInit /\ [][MCNext]_<<part, vars, requestVars>>
  (* FairSpec *)
  /\ \A t \in Readers :
       /\ WF_vars(LeaseTurn(EnterAfterWait(t)))
       /\ WF_vars(LeaseTurn(Connected(t) \/ ConnectFails(t)))
       /\ WF_vars(LeaseTurn(LeaveInner(t)))
  /\ SF_vars(LeaseTurn(\E t \in Readers : Leave(t)))
  /\ WF_vars(LeaseTurn(CloseAfterWait)) /\ WF_vars(LeaseTurn(Disconnected))
  (* Rounds!LiveSpec and Contention!LiveSpec: a behaviour has one part, so   *)
  (* fairness to the same step of either is fairness to each.                *)
  /\ WF_requestVars(RoundsTurn(Rounds!Time) \/ ContendTurn(Contention!Time))
  /\ \A t \in {"t1", "t2"} :
       /\ WF_requestVars(TaskTurn(t, Rounds!Step(t), Contention!Step(t)))
       /\ SF_requestVars(TaskTurn(t, Rounds!AcquireConnect(t), Contention!AcquireConnect(t)))
       /\ SF_requestVars(TaskTurn(t, Rounds!Invalidate(t), Contention!Invalidate(t)))
       /\ SF_requestVars(TaskTurn(t, Rounds!Wake(t) /\ task'[t].pc = "opening",
                                     Contention!Wake(t) /\ task'[t].pc = "opening"))
       /\ SF_requestVars(TaskTurn(t, Rounds!OpenSucceeds(t), Contention!OpenSucceeds(t)))

(* No task is left inside a provider for ever: not by going round endpoints  *)
(* that fail, for each retry leaves fewer to try, nor by another task that    *)
(* takes the locks (RetryMakesProgress, RequestsEnd of RpcFallbackProvider). *)
RequestsEnd ==
  /\ Rounds!RetryMakesProgress
  /\ \A t \in {"t1", "t2"} : []<>(t \in DOMAIN task => task[t].pc \in {"idle", "asserted"})
=============================================================================
