----------------------- MODULE SharedChainConnection -----------------------
(***************************************************************************)
(* The lease that serializes the tasks reading through the one shared RPC  *)
(* connection: reentrant for its owner, first come first served for the    *)
(* others (asyncio.Lock), and closed at shutdown while tasks may be        *)
(* holding it, connecting under it or waiting for it.                      *)
(***************************************************************************)
EXTENDS Naturals, Sequences, SequencesExt

CONSTANTS
  Readers,     (* asyncio tasks that enter the lease                        *)
  Closer,      (* the bootstrap task, which calls close once                *)
  Nobody,
  MaxDepth     (* bound on nested entries of the owner                      *)

ASSUME TaskAssumption ==
  /\ Closer \notin Readers /\ Nobody \notin Readers \cup {Closer}
  /\ MaxDepth \in Nat \ {0}

Tasks == Readers \cup {Closer}

VARIABLES
  locked,      \* _lease is held
  waiters,     \* tasks waiting in _lease.acquire, in order of arrival
  owner,       \* _owner
  depth,       \* _depth
  closed,      \* _closed
  connected,   \* whether the provider has a live connection
  pc           \* where each task is

vars == <<locked, waiters, owner, depth, closed, connected, pc>>

States == {"out", "waiting", "connecting", "reading", "disconnecting", "closed"}

Init ==
  /\ locked = FALSE /\ waiters = <<>>
  /\ owner = Nobody /\ depth = 0
  /\ closed = FALSE /\ connected = FALSE
  /\ pc = [t \in Tasks |-> "out"]

(* asyncio.Lock.acquire returns at once only if nobody waits; a waiter       *)
(* takes the lock in turn, some time after its release.                     *)
Free    == ~locked /\ waiters = <<>>
Turn(t) == ~locked /\ waiters # <<>> /\ Head(waiters) = t /\ pc[t] = "waiting"

Wait(t) == waiters' = Append(waiters, t) /\ pc' = [pc EXCEPT ![t] = "waiting"]

(* The lease is taken: __aenter__ goes on to is_connected and connect.       *)
Own(t) ==
  /\ locked' = TRUE
  /\ owner' = t /\ depth' = 1
  /\ pc' = [pc EXCEPT ![t] = "connecting"]

(* Mutant of Disown: the lock is not released.                               *)
DisownHolding(t) ==
  owner' = Nobody /\ depth' = 0 /\ pc' = [pc EXCEPT ![t] = "out"] /\ UNCHANGED locked

Disown(t) ==
  /\ locked' = FALSE
  /\ owner' = Nobody /\ depth' = 0
  /\ pc' = [pc EXCEPT ![t] = "out"]

(* Mutant of Reject: the closed connection is used.                          *)
RejectNot(t)     == Own(t)

(* The lock is released at once and RuntimeError raised.                    *)
Reject(t) == pc' = [pc EXCEPT ![t] = "out"] /\ UNCHANGED <<locked, owner, depth>>

(* __aenter__ by a task that is not the owner (rejected at once if closed). *)
Enter(t) ==
  /\ pc[t] = "out" /\ owner # t /\ ~closed
  /\ IF Free THEN Own(t) /\ UNCHANGED waiters
     ELSE Wait(t) /\ UNCHANGED <<locked, owner, depth>>
  /\ UNCHANGED <<closed, connected>>

(* acquire returned after a wait, and _closed is looked at again.           *)
EnterAfterWait(t) ==
  /\ Turn(t)
  /\ waiters' = Tail(waiters)
  /\ IF closed THEN Reject(t) ELSE Own(t)
  /\ UNCHANGED <<closed, connected>>

(* A handler task is cancelled while it waits for the lease.                *)
CancelWait(t) ==
  /\ pc[t] = "waiting"
  /\ \E i \in 1..Len(waiters) : waiters[i] = t /\ waiters' = RemoveAt(waiters, i)
  /\ pc' = [pc EXCEPT ![t] = "out"]
  /\ UNCHANGED <<locked, owner, depth, closed, connected>>

Connected(t) ==
  /\ pc[t] = "connecting"
  /\ connected' = TRUE
  /\ pc' = [pc EXCEPT ![t] = "reading"]
  /\ UNCHANGED <<locked, waiters, owner, depth, closed>>

(* connect raises, or the task is cancelled inside it.                      *)
ConnectFails(t) ==
  /\ pc[t] = "connecting"
  /\ Disown(t)
  /\ UNCHANGED <<waiters, closed, connected>>

(* __aenter__ by the owner, which looks at neither _closed nor the lock.     *)
EnterAgain(t) ==
  /\ pc[t] = "reading" /\ owner = t /\ depth < MaxDepth
  /\ depth' = depth + 1
  /\ UNCHANGED <<locked, waiters, owner, closed, connected, pc>>

(* __aexit__ of an inner, and of the outermost entry.                       *)
LeaveInner(t) ==
  /\ pc[t] = "reading" /\ owner = t /\ depth > 1
  /\ depth' = depth - 1
  /\ UNCHANGED <<locked, waiters, owner, closed, connected, pc>>

Leave(t) ==
  /\ pc[t] = "reading" /\ owner = t /\ depth = 1
  /\ Disown(t)
  /\ UNCHANGED <<waiters, closed, connected>>

TakeToClose ==
  locked' = TRUE /\ pc' = [pc EXCEPT ![Closer] = "disconnecting"] /\ UNCHANGED <<owner, depth>>

(* Mutant of Close: it does not wait for the reader.                         *)
CloseAtOnce ==
  /\ pc[Closer] = "out" /\ ~closed
  /\ closed' = TRUE
  /\ TakeToClose
  /\ UNCHANGED <<waiters, connected>>

(* close up to its await.                                                   *)
Close ==
  /\ pc[Closer] = "out" /\ ~closed
  /\ closed' = TRUE
  /\ IF Free
     THEN TakeToClose /\ UNCHANGED waiters
     ELSE Wait(Closer) /\ UNCHANGED <<locked, owner, depth>>
  /\ UNCHANGED connected

CloseAfterWait ==
  /\ Turn(Closer)
  /\ waiters' = Tail(waiters)
  /\ TakeToClose
  /\ UNCHANGED <<closed, connected>>

(* The lease is released whether or not disconnect raises.                  *)
Disconnected ==
  /\ pc[Closer] = "disconnecting"
  /\ connected' \in {FALSE, connected}
  /\ locked' = FALSE
  /\ pc' = [pc EXCEPT ![Closer] = "closed"]
  /\ UNCHANGED <<waiters, owner, depth, closed>>

(* The server or the network drops the connection.                          *)
ConnectionLost ==
  /\ connected
  /\ connected' = FALSE
  /\ UNCHANGED <<locked, waiters, owner, depth, closed, pc>>

Reader(t) ==
  \/ Enter(t) \/ EnterAfterWait(t) \/ CancelWait(t) \/ Connected(t) \/ ConnectFails(t)
  \/ EnterAgain(t) \/ LeaveInner(t) \/ Leave(t)

Next ==
  \/ \E t \in Readers : Reader(t)
  \/ Close \/ CloseAfterWait \/ Disconnected \/ ConnectionLost

Spec == Init /\ [][Next]_vars

(* Requests time out, so connecting ends and so does the body of a lease:   *)
(* an owner (there is one at a time) that is back at its outermost entry    *)
(* again and again leaves.                                                  *)
FairSpec ==
  /\ Spec
  /\ \A t \in Readers :
       /\ WF_vars(EnterAfterWait(t)) /\ WF_vars(Connected(t) \/ ConnectFails(t))
       /\ WF_vars(LeaveInner(t))
  /\ SF_vars(\E t \in Readers : Leave(t))
  /\ WF_vars(CloseAfterWait) /\ WF_vars(Disconnected)

(***************************************************************************)
(* Properties.                                                             *)
(***************************************************************************)
(* The types of the lease's state.                                           *)
TypeOK ==
  /\ locked \in BOOLEAN /\ waiters \in Seq(Tasks)
  /\ owner \in Readers \cup {Nobody} /\ depth \in 0..MaxDepth
  /\ closed \in BOOLEAN /\ connected \in BOOLEAN
  /\ pc \in [Tasks -> States]

Holds(t) == pc[t] \in {"connecting", "reading", "disconnecting"}

(* The shared connection is never used by two tasks at once: requests and    *)
(* answers on it are not interleaved, and close waits for the active reader. *)
OneAtATime == \A s, t \in Tasks : Holds(s) /\ Holds(t) => s = t

(* Bookkeeping that makes it so: the lock, _owner, _depth and the tasks      *)
(* agree, through nesting, failures and cancellations.                      *)
LeaseConsistent ==
  /\ locked <=> \E t \in Tasks : Holds(t)
  /\ \A t \in Readers : Holds(t) <=> owner = t
  /\ depth = 0 <=> owner = Nobody
  /\ closed <=> pc[Closer] # "out"

(* Nobody opens the connection again once close has come back.              *)
NeverReopened == [][pc[Closer] = "closed" /\ connected' => connected]_vars

(* close comes back, whoever held or waited for the lease.                  *)
CloseCompletes == []<>(closed => pc[Closer] = "closed")

(* First come, first served: every reader that waits is served or rejected.  *)
NoStarvation == \A t \in Readers : []<>(pc[t] # "waiting")

EveryoneIsServed == CloseCompletes /\ NoStarvation

(* The lease as its users see it.                                           *)
holder ==
  IF owner # Nobody THEN owner ELSE IF pc[Closer] = "disconnecting" THEN Closer ELSE Nobody

Lease == INSTANCE ExclusiveLease WITH closing <- closed

ImplementsLease == Lease!Spec
=============================================================================
