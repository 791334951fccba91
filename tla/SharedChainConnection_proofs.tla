-------------------- MODULE SharedChainConnection_proofs --------------------
(* Mutual exclusion of the shared connection and its refinement of           *)
(* ExclusiveLease, for any number of readers and any depth of nesting.       *)
EXTENDS SharedChainConnection, SequenceTheorems, TLAPS

-----------------------------------------------------------------------------
LEMMA RemoveAtType ==
  ASSUME NEW S, NEW s \in Seq(S), NEW i \in 1..Len(s)
  PROVE  RemoveAt(s, i) \in Seq(S)
  <1>1. SubSeq(s, 1, i - 1) \in Seq(S) /\ SubSeq(s, i + 1, Len(s)) \in Seq(S)
    BY SubSeqProperties
  <1> QED
    BY <1>1, ConcatProperties DEF RemoveAt

(* The flags and the rest of the state are typed apart: each suits another   *)
(* prover.                                                                   *)
Flags == locked \in BOOLEAN /\ closed \in BOOLEAN /\ connected \in BOOLEAN
Data  == /\ waiters \in Seq(Tasks)
         /\ owner \in Readers \cup {Nobody} /\ depth \in 0..MaxDepth
         /\ pc \in [Tasks -> States]

LEMMA InitType == Init => TypeOK
  <1>1. Init => Flags
    BY DEF Init, Flags
  <1>2. Init => Data
    BY TaskAssumption DEF Init, Data, States
  <1> QED
    BY <1>1, <1>2 DEF TypeOK, Flags, Data

LEMMA FlagsStep == Flags /\ [Next]_vars => Flags'
  <1> USE DEF Flags
  <1>1. ASSUME Flags, NEW t \in Readers, Reader(t)
        PROVE  Flags'
    BY <1>1, Zenon DEF Reader, Enter, EnterAfterWait, CancelWait, Connected, ConnectFails,
                       EnterAgain, LeaveInner, Leave, Own, Reject, Disown, Wait
  <1>2. ASSUME Flags, Close \/ CloseAfterWait \/ Disconnected \/ ConnectionLost \/ UNCHANGED vars
        PROVE  Flags'
    BY <1>2, Zenon DEF Close, CloseAfterWait, Disconnected, ConnectionLost, TakeToClose, Wait, vars
  <1> QED
    BY <1>1, <1>2 DEF Next

LEMMA DataStep == Data /\ [Next]_vars => Data'
  <1> SUFFICES ASSUME Data, [Next]_vars
               PROVE  Data'
    OBVIOUS
  <1>0. Readers \subseteq Tasks /\ Closer \in Tasks /\ 1 \in 0..MaxDepth /\ 0 \in 0..MaxDepth
    BY TaskAssumption DEF Tasks
  <1> USE <1>0, TaskAssumption DEF Data, States
  <1>1. ASSUME NEW t \in Readers, Enter(t)
        PROVE  Data'
    BY <1>1 DEF Enter, Own, Wait
  <1>2. ASSUME NEW t \in Readers, EnterAfterWait(t)
        PROVE  Data'
    <2>1. Tail(waiters) \in Seq(Tasks)
      BY <1>2 DEF EnterAfterWait, Turn
    <2>2. CASE closed
      BY <1>2, <2>1, <2>2 DEF EnterAfterWait, Reject
    <2>3. CASE ~closed
      BY <1>2, <2>1, <2>3 DEF EnterAfterWait, Own, Reject
    <2> QED
      BY <2>2, <2>3
  <1>3. ASSUME NEW t \in Readers, CancelWait(t)
        PROVE  Data'
    BY <1>3, RemoveAtType DEF CancelWait
  <1>4. ASSUME NEW t \in Readers,
               Connected(t) \/ ConnectFails(t) \/ EnterAgain(t) \/ LeaveInner(t) \/ Leave(t)
        PROVE  Data'
    BY <1>4 DEF Connected, ConnectFails, EnterAgain, LeaveInner, Leave, Disown
  <1>5. CASE Close
    <2>1. Append(waiters, Closer) \in Seq(Tasks)
      OBVIOUS
    <2>2. CASE Free
      BY <1>5, <2>2 DEF Close, TakeToClose
    <2>3. CASE ~Free
      BY <1>5, <2>1, <2>3 DEF Close, TakeToClose, Wait
    <2> QED
      BY <2>2, <2>3
  <1>6. CASE CloseAfterWait
    <2>1. Tail(waiters) \in Seq(Tasks)
      BY <1>6 DEF CloseAfterWait, TakeToClose, Turn
    <2> QED
      BY <1>6, <2>1 DEF CloseAfterWait, TakeToClose
  <1>7. CASE Disconnected \/ ConnectionLost
    BY <1>7 DEF Disconnected, ConnectionLost
  <1>8. CASE UNCHANGED vars
    BY <1>8 DEF vars
  <1> QED
    BY <1>1, <1>2, <1>3, <1>4, <1>5, <1>6, <1>7, <1>8 DEF Next, Reader

(* The types of the lease's state are kept by every step.                    *)
THEOREM TypeCorrect == Spec => []TypeOK
  <1>1. TypeOK <=> Flags /\ Data
    BY DEF TypeOK, Flags, Data
  <1> QED
    BY <1>1, InitType, FlagsStep, DataStep, PTL DEF Spec

-----------------------------------------------------------------------------
(* The inductive invariant: the bookkeeping, with the facts it leaves out:   *)
(* only readers are connecting or reading, only the closer disconnects, and  *)
(* after it has, no reader holds the lease, for _closed was set before.      *)
RolesKept ==
  /\ \A t \in Readers : pc[t] \notin {"disconnecting", "closed"}
  /\ pc[Closer] \in {"out", "waiting", "disconnecting", "closed"}

ClosedForGood == pc[Closer] = "closed" => \A t \in Readers : ~Holds(t)

IInv == TypeOK /\ RolesKept /\ ClosedForGood /\ LeaseConsistent /\ OneAtATime

LEMMA InvInit == Init => IInv
  <1> SUFFICES ASSUME Init
               PROVE  IInv
    OBVIOUS
  <1>1. TypeOK
    BY InitType
  <1> QED
    BY <1>1, TaskAssumption
    DEF Init, IInv, RolesKept, ClosedForGood, LeaseConsistent, OneAtATime, Holds, Tasks

LEMMA InvStep == IInv /\ TypeOK' /\ [Next]_vars => IInv'
  <1> SUFFICES ASSUME IInv, TypeOK', [Next]_vars
               PROVE  IInv'
    OBVIOUS
  <1> USE TaskAssumption DEF IInv, TypeOK, RolesKept, ClosedForGood, LeaseConsistent, OneAtATime,
              Holds, Tasks
  <1>1. ASSUME NEW t \in Readers, Enter(t)
        PROVE  IInv'
    BY <1>1 DEF Enter, Own, Wait, Free
  <1>2. ASSUME NEW t \in Readers, EnterAfterWait(t)
        PROVE  IInv'
    BY <1>2 DEF EnterAfterWait, Turn, Own, Reject
  <1>3. ASSUME NEW t \in Readers, CancelWait(t)
        PROVE  IInv'
    BY <1>3 DEF CancelWait
  <1>4. ASSUME NEW t \in Readers, Connected(t)
        PROVE  IInv'
    BY <1>4 DEF Connected
  <1>5. ASSUME NEW t \in Readers, ConnectFails(t) \/ Leave(t)
        PROVE  IInv'
    BY <1>5 DEF ConnectFails, Leave, Disown
  <1>6. ASSUME NEW t \in Readers, EnterAgain(t) \/ LeaveInner(t)
        PROVE  IInv'
    BY <1>6 DEF EnterAgain, LeaveInner
  <1>7. CASE Close
    BY <1>7 DEF Close, TakeToClose, Wait, Free
  <1>8. CASE CloseAfterWait
    BY <1>8 DEF CloseAfterWait, TakeToClose, Turn
  <1>9. CASE Disconnected
    BY <1>9 DEF Disconnected
  <1>10. CASE ConnectionLost \/ UNCHANGED vars
    BY <1>10 DEF ConnectionLost, vars
  <1> QED
    BY <1>1, <1>2, <1>3, <1>4, <1>5, <1>6, <1>7, <1>8, <1>9, <1>10 DEF Next, Reader

THEOREM InvariantHolds == Spec => []IInv
  BY InvInit, InvStep, TypeCorrect, PTL DEF Spec

(* The shared connection is never used by two tasks at once.                 *)
THEOREM MutualExclusion == Spec => []OneAtATime
  BY InvariantHolds, PTL DEF IInv

(* The lock, _owner, _depth and _closed agree with what the tasks do,        *)
(* through nesting, failures and cancellations.                              *)
THEOREM Bookkeeping == Spec => []LeaseConsistent
  BY InvariantHolds, PTL DEF IInv

(* After close has come back nobody connects again.                          *)
THEOREM StaysClosed == Spec => NeverReopened
  <1>1. IInv /\ [Next]_vars => [pc[Closer] = "closed" /\ connected' => connected]_vars
    <2> SUFFICES ASSUME IInv, [Next]_vars, pc[Closer] = "closed"
                 PROVE  connected' => connected
      OBVIOUS
    <2>1. \A t \in Readers : ~Connected(t)
      BY DEF IInv, ClosedForGood, Holds, Connected
    <2>2. ASSUME NEW t \in Readers, Reader(t)
          PROVE  connected' = connected
      BY <2>1, <2>2 DEF Reader, Enter, EnterAfterWait, CancelWait, ConnectFails, EnterAgain,
                        LeaveInner, Leave
    <2>3. Disconnected => FALSE
      BY DEF Disconnected
    <2> QED
      BY <2>2, <2>3 DEF Next, vars, Close, CloseAfterWait, ConnectionLost
  <1> QED
    BY <1>1, InvariantHolds, PTL DEF Spec, NeverReopened

-----------------------------------------------------------------------------
(* While the lock is free nobody holds the lease.                            *)
LEMMA UnlockedUnheld == IInv /\ ~locked => holder = Nobody /\ pc[Closer] # "disconnecting"
  BY DEF IInv, TypeOK, LeaseConsistent, Holds, Tasks, holder

(* The lease implements the exclusive lease its users rely on.               *)
THEOREM Implementation == Spec => ImplementsLease
  <1>1. Init => Lease!Init
    BY TaskAssumption DEF Init, Lease!Init, holder, Tasks
  <1>2. IInv /\ [Next]_vars => [Lease!Next]_<<holder, closed>>
    <2> SUFFICES ASSUME IInv, [Next]_vars
                 PROVE  [Lease!Next]_<<holder, closed>>
      OBVIOUS
    <2>0. pc \in [Tasks -> States] /\ Readers \subseteq Tasks /\ Closer \in Tasks
      BY DEF IInv, TypeOK, Tasks
    <2> USE <2>0, TaskAssumption
    <2>1. ASSUME NEW t \in Readers, Enter(t) \/ EnterAfterWait(t)
          PROVE  Lease!Grant(t) \/ UNCHANGED <<holder, closed>>
      BY <2>1, UnlockedUnheld
      DEF Enter, EnterAfterWait, Free, Turn, Own, Reject, Wait, Lease!Grant, holder
    <2>2. ASSUME NEW t \in Readers,
                 CancelWait(t) \/ Connected(t) \/ EnterAgain(t) \/ LeaveInner(t)
          PROVE  UNCHANGED <<holder, closed>>
      BY <2>2 DEF CancelWait, Connected, EnterAgain, LeaveInner, holder
    <2>3. ASSUME NEW t \in Readers, ConnectFails(t) \/ Leave(t)
          PROVE  Lease!Release
      <3>1. owner = t /\ pc[Closer] # "disconnecting"
        BY <2>3 DEF ConnectFails, Leave, IInv, LeaseConsistent, OneAtATime, Holds
      <3> QED
        BY <2>3, <3>1 DEF ConnectFails, Leave, Disown, Lease!Release, holder
    <2>4. CASE Close
      BY <2>4, UnlockedUnheld DEF Close, TakeToClose, Free, Wait, Lease!BeginClosing, Lease!Next, holder
    <2>5. CASE CloseAfterWait
      <3>1. closed
        BY <2>5 DEF CloseAfterWait, TakeToClose, Turn, IInv, LeaseConsistent
      <3>2. Lease!Grant(Closer)
        BY <2>5, <3>1, UnlockedUnheld DEF CloseAfterWait, TakeToClose, Turn, Lease!Grant, holder
      <3> QED
        BY <3>2 DEF Lease!Next
    <2>6. CASE Disconnected
      <3>1. owner = Nobody
        BY <2>6 DEF Disconnected, IInv, TypeOK, LeaseConsistent, OneAtATime, Holds
      <3> QED
        BY <2>6, <3>1 DEF Disconnected, Lease!Release, Lease!Next, holder
    <2>7. CASE ConnectionLost \/ UNCHANGED vars
      BY <2>7 DEF ConnectionLost, vars, holder
    <2> QED
      BY <2>1, <2>2, <2>3, <2>4, <2>5, <2>6, <2>7 DEF Next, Reader, Lease!Next
  <1> QED
    BY <1>1, <1>2, InvariantHolds, PTL DEF Spec, ImplementsLease, Lease!Spec
=============================================================================
