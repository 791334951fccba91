---------------------- MODULE SubscriptionRuntime_proofs ----------------------
(* Typing of the subscription runtime, for any chain, batch size, number of  *)
(* failures and restarts; with it, that the supervisor never runs out of     *)
(* runtimes: each replacement answers a failure of its own.  Then, that the  *)
(* live-event buffer always belongs to a replay that will flush it; that no  *)
(* event below the checkpoint is lost unless a replay was overtaken; and     *)
(* that with BLOCK_FROM set the checkpoint never moves back.  Last, over     *)
(* HealthReports, that /ready tells the truth but for two named races.       *)
EXTENDS HealthReports, TLAPS

LEMMA BlockArithmetic ==
  /\ 0 \in Blocks /\ \A a, b \in Blocks : Max(a, b) \in Blocks /\ Min(a, b) \in Blocks
  /\ \A n \in Nat, b \in Blocks : Min(n, b) \in Blocks /\ Max(n, b) \in Nat
  /\ \A m, n \in Nat : Max(m, n) \in Nat
  /\ Blocks \subseteq Nat
  BY ChainAssumption DEF Blocks, Max, Min

LEMMA ItemsOfBlocks ==
  \A b \in Blocks : EventOf(b) \in Items /\ Completed(b) \in Items
  BY DEF Items, EventOf, Completed

LEMMA BackfillStartType == \A n \in Nat : BackfillStart(n) \in Nat
  BY BlockFromAssumption DEF BackfillStart

LEMMA HandleType ==
  ASSUME NEW st \in Stores, NEW x \in Items
  PROVE  Handle(st, x) \in Stores
  BY BlockArithmetic DEF Handle, Stores, Items

LEMMA NewRuntimeType == \A b \in Blocks : NewRuntime(b) \in RuntimeRecords
  BY DEF NewRuntime, RuntimeRecords, Phases

LEMMA FreshRuntimes ==
  /\ 1 \in Runtimes
  /\ [r \in Runtimes |-> NewRuntime(0)] \in [Runtimes -> RuntimeRecords]
  /\ [r \in Runtimes |-> NewRuntime(0)][1].phase = "idle"
  <1>1. 1 \in Runtimes
    BY ChainAssumption DEF Runtimes
  <1>2. NewRuntime(0) \in RuntimeRecords
    BY NewRuntimeType, BlockArithmetic
  <1>3. NewRuntime(0).phase = "idle"
    BY DEF NewRuntime
  <1> QED
    BY <1>1, <1>2, <1>3

LEMMA NoReplayType ==
  /\ NoReplay \in ReplayRecords
  /\ \A n \in Nat : [NoReplay EXCEPT !.start = n] \in ReplayRecords
  /\ \A n \in Nat : [NoReplay EXCEPT !.stage = "head", !.start = n] \in ReplayRecords
  BY BlockArithmetic DEF NoReplay, ReplayRecords, Stages

(* TypeOK in three parts, and the count of failures that were not yet used   *)
(* up by a replacement, from which the bound on cur follows.                 *)
RuntimeType == runtime \in [Runtimes -> RuntimeRecords] /\ cur \in Runtimes
ReplayType  == replay \in [Replayers -> ReplayRecords]
ControlType ==
  /\ head \in 1..MaxBlock
  /\ sup \in SupStates /\ boot \in BootStates
  /\ pending \in Nat /\ catchupUntil \in Blocks
  /\ store \in Stores /\ saved \in Stores
  /\ faults \in [rpc : 0..MaxRpcFailures, restarts : 0..MaxRestarts]
  /\ base \in Nat
FlagType == catchupActive \in BOOLEAN /\ stopping \in BOOLEAN /\ overtaken \in BOOLEAN

FailuresCovered ==
  /\ cur =< faults.rpc + 1
  /\ sup = "aborting" \/ runtime[cur].phase = "failed" => cur =< faults.rpc

IInv == TypeOK /\ FailuresCovered

LEMMA TypeParts == TypeOK <=> RuntimeType /\ ReplayType /\ ControlType /\ FlagType
  BY DEF TypeOK, RuntimeType, ReplayType, ControlType, FlagType

LEMMA StartProcessInv ==
  ASSUME NEW st \in Stores, StartProcess(st), faults.rpc \in Nat,
         faults'.rpc = faults.rpc
  PROVE  /\ RuntimeType' /\ ReplayType' /\ FailuresCovered'
         /\ sup' \in SupStates /\ boot' \in BootStates
         /\ pending' \in Nat /\ catchupUntil' \in Blocks /\ store' \in Stores
  <1>1. RuntimeType' /\ cur' = 1 /\ runtime'[cur'].phase = "idle"
    BY FreshRuntimes DEF StartProcess, RuntimeType
  <1>2. ReplayType'
    BY NoReplayType, BackfillStartType, BlockArithmetic
    DEF StartProcess, ReplayType, Stores, Replayers
  <1>3. FailuresCovered'
    BY <1>1 DEF StartProcess, FailuresCovered
  <1>4. sup' \in SupStates /\ boot' \in BootStates
    BY DEF StartProcess, SupStates, BootStates
  <1>5. pending' \in Nat /\ catchupUntil' \in Blocks /\ store' \in Stores
    BY BlockArithmetic DEF StartProcess
  <1> QED
    BY <1>1, <1>2, <1>3, <1>4, <1>5

LEMMA InvInit == Init => IInv
  <1> SUFFICES ASSUME Init
               PROVE  IInv
    OBVIOUS
  <1>1. RuntimeType /\ cur = 1 /\ runtime[cur].phase = "idle"
    BY FreshRuntimes DEF Init, RuntimeType
  <1>2. ReplayType
    BY NoReplayType, BackfillStartType DEF Init, ReplayType, Replayers
  <1>3. FlagType
    BY DEF Init, FlagType
  <1>4. ControlType
    <2>1. base \in Nat
      BY BackfillStartType DEF Init
    <2>2. faults \in [rpc : 0..MaxRpcFailures, restarts : 0..MaxRestarts]
      BY ChainAssumption DEF Init
    <2>3. head \in 1..MaxBlock
      BY ChainAssumption DEF Init
    <2> QED
      BY <2>1, <2>2, <2>3, BlockArithmetic DEF Init, ControlType, Stores, SupStates, BootStates
  <1>5. FailuresCovered
    BY <1>1 DEF Init, FailuresCovered
  <1> QED
    BY <1>1, <1>2, <1>3, <1>4, <1>5, TypeParts DEF IInv

-----------------------------------------------------------------------------
(* The flags change to TRUE or FALSE only.                                   *)
LEMMA FlagStep == FlagType /\ [Next]_vars => FlagType'
  <1> SUFFICES ASSUME FlagType, [Next]_vars
               PROVE  FlagType'
    OBVIOUS
  <1> USE DEF FlagType
  <1>1. ASSUME Listener
        PROVE  FlagType'
    BY <1>1, Zenon DEF Listener, ListenerSubscribed, ListenerHandled, ListenerIgnores, ListenerBuffers,
                ListenerEmits, controlVars, historyVars
  <1>2. ASSUME Supervisor
        PROVE  FlagType'
    BY <1>2, Zenon DEF Supervisor, SupStarts, SupBeginsReplay, SupBeginsRestart, SupFinishesRestart,
                SupStops, BeginRestart, historyVars
  <1>3. ASSUME Bootstrap
        PROVE  FlagType'
    BY <1>3, Zenon DEF Bootstrap, CatchUpGivesUp, CatchUpRetries, CheckpointEstablished, Exit, Restart,
                AfterReplay, StartProcess, controlVars, historyVars
  <1>4. ASSUME Environment
        PROVE  FlagType'
    BY <1>4, Zenon DEF Environment, MineBlock, ListenerFailed, CatchUpFails, ReconnectReplayFails,
                CheckpointFails, Persist, RequestShutdown, Crash, AfterReplay, BeginRestart,
                StartProcess, controlVars, historyVars
  <1>5. ASSUME NEW p \in Replayers, Replay(p)
        PROVE  FlagType'
    BY <1>5, Zenon DEF Replay, ReplayBegins, ReplayFetches, ReplayFetchedAll, ReplayEmits, ReplayHandled,
                FlushRound, ReplayCompletes, ReplayInterrupted, AfterReplay, controlVars, historyVars
  <1>6. ASSUME UNCHANGED vars
        PROVE  FlagType'
    BY <1>6, Zenon DEF vars, controlVars, historyVars
  <1> QED
    BY <1>1, <1>2, <1>3, <1>4, <1>5, <1>6 DEF Next

-----------------------------------------------------------------------------
(* Updates of one runtime's record, and of one replay's.                     *)
LEMMA RuntimeFields ==
  ASSUME NEW r \in RuntimeRecords
  PROVE  /\ r.feed \in SUBSET Items /\ r.buffer \in SUBSET Items
         /\ r.handling \in Items \cup {NoItem} /\ r.threshold \in Blocks
         /\ \A ph \in Phases : [r EXCEPT !.phase = ph] \in RuntimeRecords
         /\ [r EXCEPT !.shut = TRUE] \in RuntimeRecords
         /\ \A t \in Blocks : [r EXCEPT !.threshold = t] \in RuntimeRecords
         /\ [r EXCEPT !.buffering = TRUE] \in RuntimeRecords
         /\ [r EXCEPT !.buffering = FALSE] \in RuntimeRecords
         /\ \A S \in SUBSET Items : [r EXCEPT !.buffer = S] \in RuntimeRecords
         /\ \A S \in SUBSET Items : [r EXCEPT !.feed = S] \in RuntimeRecords
         /\ \A x \in Items \cup {NoItem} : [r EXCEPT !.handling = x] \in RuntimeRecords
  BY DEF RuntimeRecords

LEMMA ReplayFields ==
  ASSUME NEW r \in ReplayRecords
  PROVE  /\ r.start \in Nat /\ r.next \in Nat /\ r.to \in Blocks
         /\ r.todo \in SUBSET Items /\ r.handling \in Items \cup {NoItem}
         /\ \A s \in Stages : [r EXCEPT !.stage = s] \in ReplayRecords
         /\ \A n \in Nat : [r EXCEPT !.start = n] \in ReplayRecords
         /\ \A n \in Nat : [r EXCEPT !.next = n] \in ReplayRecords
         /\ \A b \in Blocks : [r EXCEPT !.to = b] \in ReplayRecords
         /\ \A S \in SUBSET Items : [r EXCEPT !.todo = S] \in ReplayRecords
         /\ \A x \in Items \cup {NoItem} : [r EXCEPT !.handling = x] \in ReplayRecords
  BY DEF ReplayRecords

LEMMA UpdateRuntime ==
  ASSUME RuntimeType, NEW q \in Runtimes, NEW r \in RuntimeRecords
  PROVE  [runtime EXCEPT ![q] = r] \in [Runtimes -> RuntimeRecords]
  BY DEF RuntimeType

LEMMA UpdateReplay ==
  ASSUME ReplayType, NEW p \in Replayers, NEW r \in ReplayRecords
  PROVE  [replay EXCEPT ![p] = r] \in [Replayers -> ReplayRecords]
  BY DEF ReplayType

-----------------------------------------------------------------------------
(* The runtimes keep their types.                                            *)
LEMMA RuntimeOfType ==
  ASSUME RuntimeType, NEW p \in Replayers
  PROVE  RuntimeOf(p) \in Runtimes
  BY FreshRuntimes DEF RuntimeType, RuntimeOf

LEMMA StopBufferingType ==
  ASSUME RuntimeType, NEW r \in Runtimes, StopBuffering(r)
  PROVE  runtime' \in [Runtimes -> RuntimeRecords]
  <1>1. runtime[r] \in RuntimeRecords
    BY DEF RuntimeType
  <1>2. [[runtime[r] EXCEPT !.buffering = FALSE] EXCEPT !.buffer = {}] \in RuntimeRecords
    BY <1>1, RuntimeFields
  <1> QED
    BY <1>1, <1>2 DEF StopBuffering, RuntimeType

LEMMA ListenerRuntime ==
  RuntimeType /\ ControlType /\ Listener => RuntimeType'
  <1> SUFFICES ASSUME RuntimeType, ControlType, Listener
               PROVE  RuntimeType'
    OBVIOUS
  <1> DEFINE rec == runtime[cur]
  <1>0. /\ cur \in Runtimes
        /\ rec \in RuntimeRecords
    BY DEF RuntimeType
  <1>1. CASE ListenerSubscribed
    <2>1. [rec EXCEPT !.phase = "live"] \in RuntimeRecords
      BY <1>0, RuntimeFields DEF Phases
    <2> QED
      BY <1>0, <1>1, <2>1, UpdateRuntime DEF ListenerSubscribed, RuntimeType
  <1>2. CASE ListenerHandled
    <2>1. [rec EXCEPT !.handling = NoItem] \in RuntimeRecords
      BY <1>0, RuntimeFields
    <2> QED
      BY <1>0, <1>2, <2>1, UpdateRuntime DEF ListenerHandled, RuntimeType
  <1>3. ASSUME NEW x \in Items, ListenerIgnores(x)
        PROVE  RuntimeType'
    <2>1. [rec EXCEPT !.feed = @ \ {x}] \in RuntimeRecords
      BY <1>0, RuntimeFields
    <2> QED
      BY <1>0, <1>3, <2>1, UpdateRuntime DEF ListenerIgnores, RuntimeType
  <1>4. ASSUME NEW x \in Items, ListenerBuffers(x)
        PROVE  RuntimeType'
    <2>1. [rec EXCEPT !.feed = @ \ {x}] \in RuntimeRecords
      BY <1>0, RuntimeFields
    <2>2. rec.buffer \cup {x} \in SUBSET Items
      BY <1>0, RuntimeFields
    <2>3. [[rec EXCEPT !.feed = @ \ {x}] EXCEPT !.buffer = rec.buffer \cup {x}]
            \in RuntimeRecords
      BY <2>1, <2>2, RuntimeFields
    <2>4. [rec EXCEPT !.feed = @ \ {x}, !.buffer = @ \cup {x}]
            = [[rec EXCEPT !.feed = @ \ {x}] EXCEPT !.buffer = rec.buffer \cup {x}]
      BY <1>0 DEF RuntimeRecords
    <2> QED
      BY <1>0, <1>4, <2>3, <2>4, UpdateRuntime DEF ListenerBuffers, RuntimeType
  <1>5. ASSUME NEW x \in Items, ListenerEmits(x)
        PROVE  RuntimeType'
    <2>1. [[rec EXCEPT !.feed = @ \ {x}] EXCEPT !.handling = x] \in RuntimeRecords
      BY <1>0, RuntimeFields
    <2> QED
      BY <1>0, <1>5, <2>1, UpdateRuntime DEF ListenerEmits, RuntimeType
  <1> QED
    BY <1>1, <1>2, <1>3, <1>4, <1>5 DEF Listener

LEMMA ReplayRuntime ==
  ASSUME RuntimeType, ControlType, NEW p \in Replayers, Replay(p)
  PROVE  RuntimeType'
  <1> DEFINE r == RuntimeOf(p)
             rec == runtime[r]
  <1>0. r \in Runtimes /\ cur \in Runtimes /\ rec \in RuntimeRecords /\ rec.threshold \in Blocks
    BY RuntimeOfType, RuntimeFields DEF RuntimeType
  <1>1. CASE ReplayBegins(p)
    <2>1. head \in Blocks /\ Max(rec.threshold, head) \in Blocks
      <3>1. head \in Blocks
        BY DEF ControlType, Blocks
      <3> QED
        BY <1>0, <3>1, BlockArithmetic
    <2>2. [[[rec EXCEPT !.threshold = Max(@, head)] EXCEPT !.buffering = TRUE]
             EXCEPT !.buffer = {}] \in RuntimeRecords
      BY <1>0, <2>1, RuntimeFields
    <2>3. [rec EXCEPT !.threshold = Max(@, head), !.buffering = TRUE, !.buffer = {}]
            \in RuntimeRecords
      BY <2>2
    <2> QED
      BY <1>0, <1>1, <2>3, UpdateRuntime DEF ReplayBegins, RuntimeType
  <1>2. CASE FlushRound(p)
    <2>1. [rec EXCEPT !.buffer = {}] \in RuntimeRecords
      BY <1>0, RuntimeFields
    <2> QED
      BY <1>0, <1>2, <2>1, UpdateRuntime DEF FlushRound, RuntimeType
  <1>3. CASE ReplayCompletes(p)
    BY <1>0, <1>3, StopBufferingType DEF ReplayCompletes, RuntimeType
  <1>4. CASE ReplayInterrupted(p)
    BY <1>0, <1>4, StopBufferingType DEF ReplayInterrupted, RuntimeType
  <1>5. CASE \/ ReplayFetches(p) \/ ReplayFetchedAll(p) \/ ReplayEmits(p) \/ ReplayHandled(p)
    BY <1>5 DEF ReplayFetches, ReplayFetchedAll, ReplayEmits, ReplayHandled, runtimeVars,
                RuntimeType
  <1> QED
    BY <1>1, <1>2, <1>3, <1>4, <1>5 DEF Replay

LEMMA SupervisorRuntime ==
  RuntimeType /\ ControlType /\ FailuresCovered /\ Supervisor => RuntimeType'
  <1> SUFFICES ASSUME RuntimeType, ControlType, FailuresCovered, Supervisor
               PROVE  RuntimeType'
    OBVIOUS
  <1>0. cur \in Runtimes /\ runtime[cur] \in RuntimeRecords
    BY DEF RuntimeType
  <1>1. CASE SupBeginsRestart
    <2>1. [runtime[cur] EXCEPT !.shut = TRUE] \in RuntimeRecords
      BY <1>0, RuntimeFields
    <2> QED
      BY <1>0, <1>1, <2>1, UpdateRuntime DEF SupBeginsRestart, RuntimeType
  <1>2. CASE SupFinishesRestart
    <2>1. cur =< faults.rpc
      BY <1>2 DEF SupFinishesRestart, FailuresCovered
    <2>2. cur + 1 \in Runtimes
      BY <1>0, <2>1, ChainAssumption DEF ControlType, Runtimes
    <2>3. [runtime[cur] EXCEPT !.handling = NoItem] \in RuntimeRecords
      BY <1>0, RuntimeFields
    <2>4. NewRuntime(catchupUntil) \in RuntimeRecords
      BY NewRuntimeType DEF ControlType
    <2> QED
      BY <1>0, <1>2, <2>2, <2>3, <2>4 DEF SupFinishesRestart, RuntimeType
  <1>3. CASE SupStarts \/ SupBeginsReplay \/ SupStops
    BY <1>3 DEF SupStarts, SupBeginsReplay, SupStops, runtimeVars, RuntimeType
  <1> QED
    BY <1>1, <1>2, <1>3 DEF Supervisor

LEMMA BootstrapRuntime == RuntimeType /\ Bootstrap => RuntimeType'
  <1>1. RuntimeType /\ Restart => RuntimeType'
    BY FreshRuntimes DEF Restart, StartProcess, RuntimeType
  <1>2. RuntimeType /\ (CatchUpGivesUp \/ CatchUpRetries \/ CheckpointEstablished \/ Exit)
          => RuntimeType'
    BY DEF CatchUpGivesUp, CatchUpRetries, CheckpointEstablished, Exit, runtimeVars, RuntimeType
  <1> QED
    BY <1>1, <1>2 DEF Bootstrap

LEMMA EnvironmentRuntime ==
  RuntimeType /\ ControlType /\ Environment => RuntimeType'
  <1> SUFFICES ASSUME RuntimeType, ControlType, Environment
               PROVE  RuntimeType'
    OBVIOUS
  <1> DEFINE rec == runtime[cur]
  <1>0. cur \in Runtimes /\ rec \in RuntimeRecords /\ 1 \in Runtimes
    BY FreshRuntimes DEF RuntimeType
  <1>1. CASE MineBlock
    <2>1. {EventOf(head + 1), Completed(head)} \subseteq Items
      <3>1. head \in Blocks /\ head + 1 \in Blocks
        BY <1>1, ChainAssumption DEF MineBlock, ControlType, Blocks
      <3> QED
        BY <3>1, ItemsOfBlocks
    <2>2. \A r \in Runtimes : runtime[r] \in RuntimeRecords
      BY DEF RuntimeType
    <2>3. \A r \in Runtimes :
            [runtime[r] EXCEPT !.feed = @ \cup {EventOf(head + 1), Completed(head)}]
              \in RuntimeRecords
      BY <2>1, <2>2, RuntimeFields
    <2> QED
      BY <1>1, <2>2, <2>3 DEF MineBlock, RuntimeType
  <1>2. CASE ListenerFailed
    <2>1. [[rec EXCEPT !.phase = "failed"] EXCEPT !.feed = {}] \in RuntimeRecords
      BY <1>0, RuntimeFields DEF Phases
    <2> QED
      BY <1>0, <1>2, <2>1 DEF ListenerFailed, RuntimeType
  <1>3. CASE CatchUpFails
    BY <1>0, <1>3, StopBufferingType DEF CatchUpFails, RuntimeType
  <1>4. CASE ReconnectReplayFails
    <2>1. CASE stopping
      BY <1>0, <1>4, <2>1, StopBufferingType DEF ReconnectReplayFails, RuntimeType
    <2>2. CASE ~stopping
      <3>1. [[[rec EXCEPT !.shut = TRUE] EXCEPT !.buffering = FALSE] EXCEPT !.buffer = {}]
              \in RuntimeRecords
        BY <1>0, RuntimeFields
      <3> QED
        BY <1>0, <1>4, <2>2, <3>1 DEF ReconnectReplayFails, RuntimeType
    <2> QED
      BY <2>1, <2>2
  <1>5. CASE RequestShutdown
    <2>1. [rec EXCEPT !.shut = TRUE] \in RuntimeRecords
      BY <1>0, RuntimeFields
    <2> QED
      BY <1>0, <1>5, <2>1 DEF RequestShutdown, RuntimeType
  <1>6. CASE Crash
    BY <1>6, FreshRuntimes DEF Crash, StartProcess, RuntimeType
  <1>7. CASE CheckpointFails
    <2>1. [[[[rec EXCEPT !.shut = TRUE] EXCEPT !.handling = NoItem] EXCEPT !.buffering = FALSE]
             EXCEPT !.buffer = {}] \in RuntimeRecords
      BY <1>0, RuntimeFields
    <2> QED
      BY <1>0, <1>7, <2>1 DEF CheckpointFails, RuntimeType
  <1>8. CASE Persist
    BY <1>8 DEF Persist, runtimeVars, RuntimeType
  <1> QED
    BY <1>1, <1>2, <1>3, <1>4, <1>5, <1>6, <1>7, <1>8 DEF Environment

LEMMA RuntimeStep ==
  RuntimeType /\ ControlType /\ FailuresCovered /\ [Next]_vars => RuntimeType'
  <1>1. RuntimeType /\ UNCHANGED vars => RuntimeType'
    BY DEF vars, runtimeVars, RuntimeType
  <1> QED
    BY <1>1, ListenerRuntime, SupervisorRuntime, BootstrapRuntime, EnvironmentRuntime,
       ReplayRuntime DEF Next

-----------------------------------------------------------------------------
(* The replays keep their types.                                             *)
LEMMA ReturnedType ==
  ASSUME ReplayType, NEW p \in Replayers
  PROVE  Returned(p) \in ReplayRecords /\ [replay EXCEPT ![p] = Returned(p)]
                                            \in [Replayers -> ReplayRecords]
  <1>1. replay[p] \in ReplayRecords
    BY DEF ReplayType
  <1>2. [[replay[p] EXCEPT !.stage = "off"] EXCEPT !.todo = {}] \in ReplayRecords
    BY <1>1, ReplayFields DEF Stages
  <1>3. Returned(p) \in ReplayRecords
    BY <1>2 DEF Returned
  <1> QED
    BY <1>3, UpdateReplay

LEMMA AfterReplayType ==
  ASSUME ReplayType, NEW p \in Replayers, AfterReplay(p)
  PROVE  ReplayType'
  BY ReturnedType DEF AfterReplay, ReplayType

LEMMA BeginRestartType ==
  ASSUME ReplayType, ControlType, BeginRestart
  PROVE  ReplayType'
  <1>1. ReconnectStart \in Nat
    <2>1. store.checkpoint \in Blocks
      BY DEF ControlType, Stores
    <2> QED
      BY <2>1 DEF ReconnectStart, Blocks
  <1>2. [NoReplay EXCEPT !.start = ReconnectStart] \in ReplayRecords
    BY <1>1, NoReplayType
  <1> QED
    BY <1>2, UpdateReplay DEF BeginRestart, ReplayType, Replayers

LEMMA ReplayReplay ==
  ASSUME RuntimeType, ReplayType, ControlType, NEW p \in Replayers, Replay(p)
  PROVE  ReplayType'
  <1> DEFINE rec == replay[p]
  <1>0. /\ rec \in ReplayRecords
        /\ rec.start \in Nat /\ rec.next \in Nat /\ rec.to \in Blocks
    BY ReplayFields DEF ReplayType
  <1>1. CASE ReplayBegins(p)
    <2>1. head \in Blocks
      BY DEF ControlType, Blocks
    <2>2. [[[rec EXCEPT !.stage = "fetch"] EXCEPT !.next = rec.start] EXCEPT !.to = head]
            \in ReplayRecords
      BY <1>0, <2>1, ReplayFields DEF Stages
    <2> QED
      BY <1>0, <1>1, <2>2 DEF ReplayBegins, ReplayType
  <1>2. CASE ReplayFetches(p)
    <2> DEFINE last == LastOfBatch(p)
               todo == {EventOf(b) : b \in rec.next..last} \cup {Completed(last)}
    <2>1. last \in Blocks
      <3>1. rec.next + BatchSize - 1 \in Nat
        BY <1>0, ChainAssumption
      <3> QED
        BY <1>0, <3>1, BlockArithmetic DEF LastOfBatch
    <2>2. last + 1 \in Nat /\ rec.next..last \subseteq Blocks
      BY <1>0, <2>1, ChainAssumption DEF Blocks
    <2>3. todo \in SUBSET Items
      BY <2>1, <2>2, ItemsOfBlocks
    <2> HIDE DEF last, todo
    <2>4. [[[rec EXCEPT !.stage = "emit"] EXCEPT !.next = last + 1] EXCEPT !.todo = todo]
            \in ReplayRecords
      BY <1>0, <2>2, <2>3, ReplayFields DEF Stages
    <2>5. replay' = [replay EXCEPT ![p].stage = "emit", ![p].next = last + 1, ![p].todo = todo]
      BY <1>2 DEF ReplayFetches, last, todo
    <2> QED
      BY <1>0, <2>4, <2>5 DEF ReplayType
  <1>3. CASE ReplayFetchedAll(p)
    <2>1. [rec EXCEPT !.stage = "flush"] \in ReplayRecords
      BY <1>0, ReplayFields DEF Stages
    <2> QED
      BY <1>0, <1>3, <2>1 DEF ReplayFetchedAll, ReplayType
  <1>4. CASE ReplayEmits(p)
    <2>1. PICK x \in First(rec.todo) :
            replay' = [replay EXCEPT ![p].handling = x, ![p].todo = @ \ {x}]
      BY <1>4 DEF ReplayEmits
    <2>2. x \in Items /\ rec.todo \ {x} \in SUBSET Items
      BY <1>0, ReplayFields DEF First
    <2>3. [[rec EXCEPT !.handling = x] EXCEPT !.todo = rec.todo \ {x}] \in ReplayRecords
      BY <1>0, <2>2, ReplayFields
    <2> QED
      BY <1>0, <2>1, <2>3 DEF ReplayType
  <1>5. CASE ReplayHandled(p)
    <2> DEFINE stage == IF rec.stage = "emit" /\ rec.todo = {} THEN "fetch" ELSE rec.stage
    <2>1. stage \in Stages
      BY <1>0 DEF ReplayRecords, Stages
    <2> HIDE DEF stage
    <2>2. [[rec EXCEPT !.handling = NoItem] EXCEPT !.stage = stage] \in ReplayRecords
      BY <1>0, <2>1, ReplayFields
    <2>3. replay' = [replay EXCEPT ![p].handling = NoItem, ![p].stage = stage]
      BY <1>0, <1>5 DEF ReplayHandled, stage, ReplayType, ReplayRecords
    <2> QED
      BY <1>0, <2>2, <2>3 DEF ReplayType
  <1>6. CASE FlushRound(p)
    <2>1. runtime[RuntimeOf(p)].buffer \in SUBSET Items
      BY RuntimeOfType, RuntimeFields DEF RuntimeType
    <2>2. [rec EXCEPT !.todo = runtime[RuntimeOf(p)].buffer] \in ReplayRecords
      BY <1>0, <2>1, ReplayFields
    <2> QED
      BY <1>0, <1>6, <2>2 DEF FlushRound, ReplayType
  <1>7. CASE ReplayCompletes(p) \/ ReplayInterrupted(p)
    BY <1>7, AfterReplayType DEF ReplayCompletes, ReplayInterrupted
  <1> QED
    BY <1>1, <1>2, <1>3, <1>4, <1>5, <1>6, <1>7 DEF Replay

LEMMA StageType ==
  ASSUME ReplayType, NEW p \in Replayers, NEW stage \in Stages
  PROVE  [replay EXCEPT ![p].stage = stage] \in [Replayers -> ReplayRecords]
  <1>1. replay[p] \in ReplayRecords
    BY DEF ReplayType
  <1>2. [replay[p] EXCEPT !.stage = stage] \in ReplayRecords
    BY <1>1, ReplayFields
  <1> QED
    BY <1>2, UpdateReplay

LEMMA TaskReplay ==
  ASSUME RuntimeType, ReplayType, ControlType, Listener \/ Supervisor \/ Bootstrap
  PROVE  ReplayType'
  <1>0. "boot" \in Replayers /\ "sup" \in Replayers /\ "head" \in Stages
    BY DEF Replayers, Stages
  <1>1. CASE Listener
    <2>1. CASE ListenerSubscribed
      BY <1>0, <2>1, StageType DEF ListenerSubscribed, ReplayType
    <2>2. CASE ListenerHandled
      BY <2>2 DEF ListenerHandled, ReplayType
    <2>3. ASSUME NEW x \in Items, ListenerIgnores(x) \/ ListenerBuffers(x) \/ ListenerEmits(x)
          PROVE  ReplayType'
      BY <2>3 DEF ListenerIgnores, ListenerBuffers, ListenerEmits, ReplayType
    <2> QED
      BY <1>1, <2>1, <2>2, <2>3 DEF Listener
  <1>2. CASE Supervisor
    <2>1. CASE SupBeginsReplay
      <3>1. [NoReplay EXCEPT !.stage = "head", !.start = pending] \in ReplayRecords
        BY NoReplayType DEF ControlType
      <3> QED
        BY <1>0, <2>1, <3>1, UpdateReplay DEF SupBeginsReplay, ReplayType
    <2>2. CASE SupBeginsRestart
      BY <2>2, BeginRestartType DEF SupBeginsRestart
    <2>3. CASE SupStarts \/ SupFinishesRestart \/ SupStops
      BY <2>3 DEF SupStarts, SupFinishesRestart, SupStops, ReplayType
    <2> QED
      BY <1>2, <2>1, <2>2, <2>3 DEF Supervisor
  <1>3. CASE Bootstrap
    <2>1. CASE CatchUpGivesUp
      BY <1>0, <2>1, AfterReplayType DEF CatchUpGivesUp
    <2>2. CASE CatchUpRetries
      BY <1>0, <2>2, StageType DEF CatchUpRetries, ReplayType
    <2>3. CASE Restart
      <3>1. saved \in Stores /\ faults.rpc \in Nat /\ faults'.rpc = faults.rpc
        BY <2>3 DEF ControlType, Restart
      <3> QED
        BY <2>3, <3>1, StartProcessInv DEF Restart
    <2>4. CASE CheckpointEstablished \/ Exit
      BY <2>4 DEF CheckpointEstablished, Exit, ReplayType
    <2> QED
      BY <1>3, <2>1, <2>2, <2>3, <2>4 DEF Bootstrap
  <1> QED
    BY <1>1, <1>2, <1>3

LEMMA EnvironmentReplay ==
  ASSUME RuntimeType, ReplayType, ControlType, Environment
  PROVE  ReplayType'
  <1>0. "boot" \in Replayers /\ "sup" \in Replayers
    BY DEF Replayers
  <1>1. CASE CatchUpFails
    <2>1. CASE stopping \/ cur # 1
      BY <1>0, <1>1, <2>1, AfterReplayType DEF CatchUpFails
    <2>2. CASE ~(stopping \/ cur # 1)
      <3> DEFINE rec == replay["boot"]
                 start == Max(rec.start, store.checkpoint + 1)
      <3>1. rec \in ReplayRecords /\ rec.start \in Nat
        BY <1>0, ReplayFields DEF ReplayType
      <3>2. store.checkpoint + 1 \in Nat
        <4>1. store.checkpoint \in Blocks
          BY DEF ControlType, Stores
        <4> QED
          BY <4>1 DEF Blocks
      <3>3. start \in Nat
        BY <3>1, <3>2, BlockArithmetic
      <3>4. replay' = [replay EXCEPT !["boot"].stage = "sleep", !["boot"].start = start]
        BY <1>0, <1>1, <2>2 DEF CatchUpFails, ReplayType, ReplayRecords
      <3> HIDE DEF start
      <3>5. [[rec EXCEPT !.stage = "sleep"] EXCEPT !.start = start] \in ReplayRecords
        BY <3>1, <3>3, ReplayFields DEF Stages
      <3> QED
        BY <1>0, <3>4, <3>5 DEF ReplayType
    <2> QED
      BY <2>1, <2>2
  <1>2. CASE ReconnectReplayFails
    <2>1. CASE stopping
      BY <1>0, <1>2, <2>1, ReturnedType DEF ReconnectReplayFails, ReplayType
    <2>2. CASE ~stopping
      BY <1>2, <2>2, BeginRestartType DEF ReconnectReplayFails
    <2> QED
      BY <2>1, <2>2
  <1>3. CASE Crash
    <2>1. saved \in Stores /\ faults.rpc \in Nat /\ faults'.rpc = faults.rpc
      BY <1>3 DEF ControlType, Crash, AnotherRestart
    <2> QED
      BY <1>3, <2>1, StartProcessInv DEF Crash
  <1>4. CASE CheckpointFails
    BY <1>0, <1>4, NoReplayType, UpdateReplay DEF CheckpointFails, ReplayType
  <1>5. CASE MineBlock \/ ListenerFailed \/ Persist \/ RequestShutdown
    BY <1>5 DEF MineBlock, ListenerFailed, Persist, RequestShutdown, ReplayType
  <1> QED
    BY <1>1, <1>2, <1>3, <1>4, <1>5 DEF Environment

LEMMA ReplayStep ==
  RuntimeType /\ ReplayType /\ ControlType /\ [Next]_vars => ReplayType'
  <1>1. ReplayType /\ UNCHANGED vars => ReplayType'
    BY DEF vars, ReplayType
  <1> QED
    BY <1>1, TaskReplay, EnvironmentReplay, ReplayReplay DEF Next

-----------------------------------------------------------------------------
(* The control state, bot_data and the counters keep their types.            *)
LEMMA StoreStep ==
  ASSUME ControlType, NEW x \in Items \cup {NoItem}, x # NoItem, store' = Handle(store, x)
  PROVE  store' \in Stores
  BY HandleType DEF ControlType

LEMMA TaskControl ==
  ASSUME RuntimeType, ReplayType, ControlType, Listener \/ Supervisor \/ Bootstrap
  PROVE  ControlType'
  <1> USE DEF ControlType
  <1>0. head \in Nat /\ head \in Blocks /\ head - 1 \in Blocks
    BY ChainAssumption DEF Blocks
  <1>1. CASE Listener
    <2>1. CASE ListenerSubscribed
      BY <2>1, <1>0, BlockArithmetic DEF ListenerSubscribed, storeVars, BootStates
    <2>2. CASE ListenerHandled
      <3>1. runtime[cur].handling \in Items \cup {NoItem}
        BY RuntimeFields DEF RuntimeType
      <3> QED
        BY <2>2, <3>1, StoreStep DEF ListenerHandled, controlVars, historyVars
    <2>3. ASSUME NEW x \in Items, ListenerIgnores(x) \/ ListenerBuffers(x) \/ ListenerEmits(x)
          PROVE  ControlType'
      BY <2>3 DEF ListenerIgnores, ListenerBuffers, ListenerEmits, controlVars, storeVars,
                  historyVars
    <2> QED
      BY <1>1, <2>1, <2>2, <2>3 DEF Listener
  <1>2. CASE Supervisor
    <2>1. CASE SupFinishesRestart
      <3>1. replay["sup"].start \in Nat
        BY ReplayFields DEF ReplayType, Replayers
      <3> QED
        BY <2>1, <3>1 DEF SupFinishesRestart, storeVars, historyVars, SupStates
    <2>2. CASE SupStarts \/ SupBeginsReplay \/ SupBeginsRestart \/ SupStops
      BY <2>2 DEF SupStarts, SupBeginsReplay, SupBeginsRestart, SupStops, BeginRestart,
                  storeVars, historyVars, SupStates
    <2> QED
      BY <1>2, <2>1, <2>2 DEF Supervisor
  <1>3. CASE Bootstrap
    <2>1. CASE CheckpointEstablished
      <3>1. store' \in Stores
        BY <2>1, <1>0 DEF CheckpointEstablished, Stores
      <3>2. base' \in Nat
        BY <2>1, <1>0, BlockArithmetic DEF CheckpointEstablished
      <3> QED
        BY <2>1, <3>1, <3>2 DEF CheckpointEstablished, BootStates
    <2>2. CASE CatchUpGivesUp \/ CatchUpRetries \/ Exit
      BY <2>2, BlockArithmetic DEF CatchUpGivesUp, CatchUpRetries, Exit, AfterReplay, controlVars,
         storeVars, historyVars, BootStates, SupStates
    <2>3. CASE Restart
      <3>1. saved \in Stores /\ faults.rpc \in Nat /\ faults'.rpc = faults.rpc
        BY <2>3 DEF Restart
      <3>2. /\ sup' \in SupStates /\ boot' \in BootStates
            /\ pending' \in Nat /\ catchupUntil' \in Blocks /\ store' \in Stores
        BY <2>3, <3>1, StartProcessInv DEF Restart
      <3> QED
        BY <2>3, <3>2 DEF Restart, historyVars
    <2> QED
      BY <1>3, <2>1, <2>2, <2>3 DEF Bootstrap
  <1> QED
    BY <1>1, <1>2, <1>3

LEMMA ReplayControl ==
  ASSUME RuntimeType, ReplayType, ControlType, NEW p \in Replayers, Replay(p)
  PROVE  ControlType'
  <1> USE DEF ControlType
  <1>1. CASE ReplayHandled(p)
    <2>1. replay[p].handling \in Items \cup {NoItem}
      BY ReplayFields DEF ReplayType
    <2> QED
      BY <1>1, <2>1, StoreStep DEF ReplayHandled, controlVars, historyVars
  <1>2. CASE ReplayBegins(p)
    <2>1. head \in Blocks
      BY DEF Blocks
    <2> QED
      BY <1>2, <2>1 DEF ReplayBegins, storeVars, historyVars
  <1>3. CASE ReplayCompletes(p) \/ ReplayInterrupted(p)
    BY <1>3, BlockArithmetic DEF ReplayCompletes, ReplayInterrupted, AfterReplay, storeVars,
       historyVars, BootStates, SupStates
  <1>4. CASE ReplayFetches(p) \/ ReplayFetchedAll(p) \/ ReplayEmits(p) \/ FlushRound(p)
    BY <1>4 DEF ReplayFetches, ReplayFetchedAll, ReplayEmits, FlushRound, controlVars,
       storeVars, historyVars
  <1> QED
    BY <1>1, <1>2, <1>3, <1>4 DEF Replay

LEMMA EnvironmentControl ==
  ASSUME RuntimeType, ReplayType, ControlType, Environment
  PROVE  ControlType'
  <1> USE DEF ControlType
  <1>1. RpcFailure => faults' \in [rpc : 0..MaxRpcFailures, restarts : 0..MaxRestarts]
    BY ChainAssumption DEF RpcFailure
  <1>2. AnotherRestart => faults' \in [rpc : 0..MaxRpcFailures, restarts : 0..MaxRestarts]
    BY ChainAssumption DEF AnotherRestart
  <1>3. CASE MineBlock
    BY <1>3, ChainAssumption DEF MineBlock, controlVars, storeVars, historyVars
  <1>4. CASE ListenerFailed
    BY <1>1, <1>4 DEF ListenerFailed, controlVars, storeVars, historyVars
  <1>5. CASE CatchUpFails
    <2>1. sup' \in SupStates /\ boot' \in BootStates /\ pending' \in Nat /\ catchupUntil' \in Blocks
      BY <1>5, BlockArithmetic DEF CatchUpFails, AfterReplay, controlVars, SupStates, BootStates
    <2> QED
      BY <1>1, <1>5, <2>1 DEF CatchUpFails, storeVars, historyVars
  <1>6. CASE ReconnectReplayFails
    <2>1. sup' \in SupStates /\ boot' \in BootStates /\ pending' \in Nat /\ catchupUntil' \in Blocks
      BY <1>6, BlockArithmetic DEF ReconnectReplayFails, BeginRestart, SupStates, BootStates
    <2> QED
      BY <1>1, <1>6, <2>1 DEF ReconnectReplayFails, storeVars, historyVars
  <1>7. CASE CheckpointFails
    BY <1>1, <1>7, BlockArithmetic DEF CheckpointFails, historyVars, SupStates, BootStates
  <1>8. CASE Persist
    BY <1>8 DEF Persist, controlVars, historyVars
  <1>9. CASE RequestShutdown
    BY <1>2, <1>9 DEF RequestShutdown, storeVars, historyVars
  <1>10. CASE Crash
    <2>1. saved \in Stores /\ faults.rpc \in Nat /\ faults'.rpc = faults.rpc
      BY <1>10 DEF Crash, AnotherRestart
    <2>2. /\ sup' \in SupStates /\ boot' \in BootStates
          /\ pending' \in Nat /\ catchupUntil' \in Blocks /\ store' \in Stores
      BY <1>10, <2>1, StartProcessInv DEF Crash
    <2> QED
      BY <1>2, <1>10, <2>2 DEF Crash, historyVars
  <1> QED
    BY <1>3, <1>4, <1>5, <1>6, <1>7, <1>8, <1>9, <1>10 DEF Environment

LEMMA ControlStep ==
  RuntimeType /\ ReplayType /\ ControlType /\ [Next]_vars => ControlType'
  <1>1. ControlType /\ UNCHANGED vars => ControlType'
    BY DEF vars, controlVars, storeVars, historyVars, ControlType
  <1> QED
    BY <1>1, TaskControl, ReplayControl, EnvironmentControl DEF Next

-----------------------------------------------------------------------------
(* A runtime is replaced only after a failure that no replacement answered   *)
(* before.                                                                   *)
LEMMA PhaseKept ==
  ASSUME FailuresCovered, cur' = cur, faults'.rpc = faults.rpc,
         sup' = "aborting" => sup = "aborting",
         runtime'[cur].phase = "failed" => runtime[cur].phase = "failed"
  PROVE  FailuresCovered'
  BY DEF FailuresCovered

LEMMA FailureCounted ==
  ASSUME RuntimeType, ControlType, FailuresCovered, cur' = cur, RpcFailure
  PROVE  FailuresCovered'
  <1>1. faults.rpc \in Nat /\ faults'.rpc = faults.rpc + 1 /\ cur \in Nat
    BY ChainAssumption DEF RpcFailure, ControlType, RuntimeType, Runtimes
  <1>2. cur' =< faults'.rpc + 1 /\ cur' =< faults'.rpc
    BY <1>1 DEF FailuresCovered
  <1> QED
    BY <1>2 DEF FailuresCovered

LEMMA FailuresStep ==
  RuntimeType /\ ReplayType /\ ControlType /\ FailuresCovered /\ [Next]_vars => FailuresCovered'
  <1> SUFFICES ASSUME RuntimeType, ReplayType, ControlType, FailuresCovered, [Next]_vars
               PROVE  FailuresCovered'
    OBVIOUS
  <1>0. cur \in Runtimes /\ runtime[cur] \in RuntimeRecords
    BY DEF RuntimeType
  <1>1. CASE Listener
    <2>1. cur' = cur /\ faults' = faults /\ sup' = sup
      BY <1>1 DEF Listener, ListenerSubscribed, ListenerHandled, ListenerIgnores, ListenerBuffers,
                  ListenerEmits, controlVars
    <2>2. runtime'[cur].phase = "failed" => runtime[cur].phase = "failed"
      <3>1. CASE ListenerSubscribed
        BY <1>0, <3>1 DEF ListenerSubscribed, RuntimeType
      <3>2. CASE ListenerHandled
        BY <1>0, <3>2 DEF ListenerHandled, RuntimeType
      <3>3. ASSUME NEW x \in Items, ListenerIgnores(x)
            PROVE  runtime'[cur].phase = runtime[cur].phase
        BY <1>0, <3>3 DEF ListenerIgnores, RuntimeType
      <3>4. ASSUME NEW x \in Items, ListenerBuffers(x)
            PROVE  runtime'[cur].phase = runtime[cur].phase
        BY <1>0, <3>4 DEF ListenerBuffers, RuntimeType
      <3>5. ASSUME NEW x \in Items, ListenerEmits(x)
            PROVE  runtime'[cur].phase = runtime[cur].phase
        BY <1>0, <3>5 DEF ListenerEmits, RuntimeType
      <3> QED
        BY <1>1, <3>1, <3>2, <3>3, <3>4, <3>5 DEF Listener
    <2> QED
      BY <2>1, <2>2, PhaseKept
  <1>2. CASE SupFinishesRestart
    <2>1. cur =< faults.rpc /\ cur + 1 \in Runtimes /\ cur' = cur + 1
      BY <1>0, <1>2, ChainAssumption DEF SupFinishesRestart, FailuresCovered, ControlType, Runtimes
    <2>2. runtime'[cur'].phase = "idle" /\ sup' = "start" /\ faults' = faults
      BY <1>0, <1>2, <2>1 DEF SupFinishesRestart, NewRuntime, RuntimeType
    <2>3. cur \in Nat /\ faults.rpc \in Nat
      BY <1>0, ChainAssumption DEF Runtimes, ControlType
    <2> QED
      BY <2>1, <2>2, <2>3 DEF FailuresCovered
  <1>3. CASE SupBeginsRestart
    <2>1. cur' = cur /\ faults' = faults /\ cur =< faults.rpc
      BY <1>3 DEF SupBeginsRestart, FailuresCovered
    <2> QED
      BY <2>1 DEF FailuresCovered
  <1>4. CASE SupStarts \/ SupBeginsReplay \/ SupStops
    BY <1>4, PhaseKept DEF SupStarts, SupBeginsReplay, SupStops, runtimeVars
  <1>5. ASSUME NEW p \in Replayers, Replay(p)
        PROVE  FailuresCovered'
    <2>1. cur' = cur /\ faults' = faults /\ (sup' = "aborting" => sup = "aborting")
      BY <1>5 DEF Replay, ReplayBegins, ReplayFetches, ReplayFetchedAll, ReplayEmits, ReplayHandled,
                  FlushRound, ReplayCompletes, ReplayInterrupted, AfterReplay, runtimeVars, controlVars
    <2>2. runtime'[cur].phase = runtime[cur].phase
      <3>1. RuntimeOf(p) \in Runtimes
        BY RuntimeOfType
      <3>2. StopBuffering(RuntimeOf(p)) => runtime'[cur].phase = runtime[cur].phase
        BY <1>0, <3>1 DEF StopBuffering, RuntimeType
      <3>3. ReplayBegins(p) => runtime'[cur].phase = runtime[cur].phase
        BY <1>0, <3>1 DEF ReplayBegins, RuntimeType
      <3>4. FlushRound(p) => runtime'[cur].phase = runtime[cur].phase
        BY <1>0, <3>1 DEF FlushRound, RuntimeType
      <3> QED
        BY <1>5, <3>2, <3>3, <3>4 DEF Replay, ReplayFetches, ReplayFetchedAll, ReplayEmits,
           ReplayHandled, ReplayCompletes, ReplayInterrupted, runtimeVars
    <2> QED
      BY <2>1, <2>2, PhaseKept
  <1>6. CASE Restart \/ Crash
    <2>1. saved \in Stores /\ faults.rpc \in Nat /\ faults'.rpc = faults.rpc
      BY <1>6 DEF Restart, Crash, AnotherRestart, ControlType
    <2> QED
      BY <1>6, <2>1, StartProcessInv DEF Restart, Crash
  <1>7. CASE ListenerFailed \/ CatchUpFails \/ ReconnectReplayFails
    BY <1>7, FailureCounted DEF ListenerFailed, CatchUpFails, ReconnectReplayFails
  <1>8. CASE CheckpointFails
    BY <1>8, FailureCounted DEF CheckpointFails
  <1>9. CASE CatchUpGivesUp \/ CatchUpRetries \/ CheckpointEstablished \/ Exit \/ Persist
    BY <1>9, PhaseKept DEF CatchUpGivesUp, CatchUpRetries, CheckpointEstablished, Exit, Persist,
       AfterReplay, runtimeVars, controlVars
  <1>10. CASE MineBlock \/ RequestShutdown
    <2>1. faults'.rpc = faults.rpc
      BY <1>10 DEF MineBlock, RequestShutdown, AnotherRestart, ControlType
    <2>2. runtime'[cur].phase = runtime[cur].phase
      <3>1. MineBlock => runtime'[cur].phase = runtime[cur].phase
        BY <1>0 DEF MineBlock, RuntimeRecords
      <3>2. RequestShutdown => runtime'[cur].phase = runtime[cur].phase
        BY <1>0 DEF RequestShutdown, RuntimeType
      <3> QED
        BY <1>10, <3>1, <3>2
    <2> QED
      BY <1>10, <2>1, <2>2, PhaseKept DEF MineBlock, RequestShutdown, controlVars
  <1>11. CASE UNCHANGED vars
    BY <1>11 DEF vars, runtimeVars, controlVars, FailuresCovered
  <1> QED
    BY <1>1, <1>2, <1>3, <1>4, <1>5, <1>6, <1>7, <1>8, <1>9, <1>10, <1>11
    DEF Next, Supervisor, Bootstrap, Environment

LEMMA InvStep == IInv /\ [Next]_vars => IInv'
  <1> SUFFICES ASSUME IInv, [Next]_vars
               PROVE  IInv'
    OBVIOUS
  <1>1. RuntimeType /\ ReplayType /\ ControlType /\ FlagType /\ FailuresCovered
    BY TypeParts DEF IInv
  <1>2. RuntimeType' /\ ReplayType' /\ ControlType' /\ FlagType' /\ FailuresCovered'
    BY <1>1, RuntimeStep, ReplayStep, ControlStep, FlagStep, FailuresStep
  <1> QED
    BY <1>2 DEF IInv, TypeOK, RuntimeType, ReplayType, ControlType, FlagType

(* The state of the supervisor, of the subscriptions and of bot_data keeps   *)
(* its type, and the runtimes installed never outnumber the failures.        *)
THEOREM TypeCorrect == Spec => []TypeOK
  <1>1. IInv => TypeOK
    BY DEF IInv
  <1> QED
    BY InvInit, InvStep, <1>1, PTL DEF Spec

-----------------------------------------------------------------------------
(* The buffer of the current runtime belongs to a replay.  The reconnect     *)
(* replay is under way only while the supervisor is in it, which is why the  *)
(* supervisor's other steps, that reset it, take no buffer from it.          *)
Flushing == {"fetch", "emit", "flush"}

Owned ==
  runtime[cur].buffering =>
    \/ cur = 1 /\ replay["boot"].stage \in Flushing
    \/ replay["sup"].stage \in Flushing

SupReplays == replay["sup"].stage \in Flushing \cup {"head"} => sup = "replaying"

LEMMA OwnedMeansOwned == Owned <=> BufferIsOwned
  BY DEF Owned, BufferIsOwned, RuntimeOf, Replayers, Flushing

LEMMA SupReplaysStep ==
  ReplayType /\ SupReplays /\ [Next]_vars => SupReplays'
  <1> SUFFICES ASSUME ReplayType, SupReplays, [Next]_vars
               PROVE  SupReplays'
    OBVIOUS
  <1> USE DEF SupReplays, Flushing
  <1>0. "boot" \in Replayers /\ "sup" \in Replayers
    BY DEF Replayers
  <1>1. CASE Listener
    BY <1>0, <1>1 DEF Listener, ListenerSubscribed, ListenerHandled, ListenerIgnores, ListenerBuffers,
       ListenerEmits, controlVars, ReplayType
  <1>2. CASE Supervisor
    BY <1>0, <1>2 DEF Supervisor, SupStarts, SupBeginsReplay, SupBeginsRestart, SupFinishesRestart,
       SupStops, BeginRestart, NoReplay, ReplayType
  <1>3. CASE Restart \/ Crash
    BY <1>0, <1>3 DEF Restart, Crash, StartProcess, NoReplay
  <1>4. CASE CatchUpGivesUp \/ CatchUpRetries \/ CheckpointEstablished \/ Exit \/ CatchUpFails
    <2>1. replay'["sup"] = replay["sup"]
      BY <1>0, <1>4 DEF CatchUpGivesUp, CatchUpRetries, CheckpointEstablished, Exit, CatchUpFails,
         AfterReplay, ReplayType
    <2>2. sup' = sup \/ Exit
      BY <1>4 DEF CatchUpGivesUp, CatchUpRetries, CheckpointEstablished, CatchUpFails,
         AfterReplay, controlVars
    <2> QED
      BY <2>1, <2>2 DEF Exit
  <1>5. CASE ReconnectReplayFails \/ CheckpointFails
    <2>1. replay["sup"] \in ReplayRecords
      BY <1>0 DEF ReplayType
    <2>2. Returned("sup").stage = "off" /\ NoReplay.stage = "off"
      BY <2>1 DEF Returned, NoReplay, ReplayRecords
    <2>3. [NoReplay EXCEPT !.start = ReconnectStart].stage = "off"
      BY DEF NoReplay
    <2>4. replay'["sup"].stage = "off"
      BY <1>0, <1>5, <2>2, <2>3 DEF ReconnectReplayFails, CheckpointFails, BeginRestart, ReplayType
    <2> QED
      BY <2>4
  <1>6. CASE MineBlock \/ ListenerFailed \/ Persist \/ RequestShutdown \/ UNCHANGED vars
    BY <1>6 DEF MineBlock, ListenerFailed, Persist, RequestShutdown, vars, controlVars
  <1>7. ASSUME NEW p \in Replayers, Replay(p)
        PROVE  SupReplays'
    <2>1. CASE ReplayCompletes(p) \/ ReplayInterrupted(p)
      BY <1>0, <2>1 DEF ReplayCompletes, ReplayInterrupted, AfterReplay, Returned, ReplayType,
         ReplayRecords, Replayers
    <2>2. CASE \/ ReplayBegins(p) \/ ReplayFetches(p) \/ ReplayFetchedAll(p)
               \/ ReplayEmits(p) \/ ReplayHandled(p) \/ FlushRound(p)
      <3>1. sup' = sup
        BY <2>2 DEF ReplayBegins, ReplayFetches, ReplayFetchedAll, ReplayEmits, ReplayHandled,
           FlushRound, controlVars
      <3>2. replay["sup"] \in ReplayRecords /\ replay[p] \in ReplayRecords
        BY <1>0 DEF ReplayType
      <3>3. CASE p # "sup"
        <4>1. replay'["sup"] = replay["sup"]
          BY <1>0, <2>2, <3>3 DEF ReplayBegins, ReplayFetches, ReplayFetchedAll, ReplayEmits,
             ReplayHandled, FlushRound, ReplayType
        <4> QED
          BY <3>1, <4>1
      <3>4. CASE p = "sup" /\ ~ReplayHandled(p)
        <4>1. replay["sup"].stage \in Flushing \cup {"head"}
          BY <2>2, <3>4 DEF ReplayBegins, ReplayFetches, ReplayFetchedAll, ReplayEmits, FlushRound
        <4> QED
          BY <3>1, <4>1
      <3>5. CASE p = "sup" /\ ReplayHandled(p)
        <4>1. replay'["sup"].stage = IF replay["sup"].stage = "emit" /\ replay["sup"].todo = {}
                                     THEN "fetch" ELSE replay["sup"].stage
          BY <1>0, <3>2, <3>5 DEF ReplayHandled, ReplayType, ReplayRecords
        <4> QED
          BY <3>1, <4>1
      <3> QED
        BY <2>2, <3>3, <3>4, <3>5
    <2> QED
      BY <1>7, <2>1, <2>2 DEF Replay
  <1> QED
    BY <1>1, <1>2, <1>3, <1>4, <1>5, <1>6, <1>7 DEF Next, Bootstrap, Environment

BootReplays == replay["boot"].stage # "off" => boot = "replaying"

LEMMA BootReplaysStep ==
  ReplayType /\ BootReplays /\ [Next]_vars => BootReplays'
  <1> SUFFICES ASSUME ReplayType, BootReplays, [Next]_vars
               PROVE  BootReplays'
    OBVIOUS
  <1> USE DEF BootReplays
  <1>0. "boot" \in Replayers /\ "sup" \in Replayers /\ \A p \in Replayers : replay[p] \in ReplayRecords
    BY DEF Replayers, ReplayType
  <1>1. CASE Listener
    BY <1>0, <1>1 DEF Listener, ListenerSubscribed, ListenerHandled, ListenerIgnores, ListenerBuffers,
       ListenerEmits, controlVars, ReplayType
  <1>2. CASE Supervisor \/ ReconnectReplayFails
    <2>1. boot' = boot
      BY <1>2 DEF Supervisor, SupStarts, SupBeginsReplay, SupBeginsRestart, SupFinishesRestart,
         SupStops, BeginRestart, ReconnectReplayFails
    <2>2. replay'["boot"] = replay["boot"]
      BY <1>0, <1>2 DEF Supervisor, SupStarts, SupBeginsReplay, SupBeginsRestart, SupFinishesRestart,
         SupStops, BeginRestart, ReconnectReplayFails, ReplayType
    <2> QED
      BY <2>1, <2>2
  <1>3. CASE Restart \/ Crash
    <2>1. \A n \in Nat : [NoReplay EXCEPT !.start = n].stage = "off"
      BY DEF NoReplay
    <2>2. replay'["boot"] = [NoReplay EXCEPT !.start = BackfillStart(saved.checkpoint)]
      BY <1>0, <1>3 DEF Restart, Crash, StartProcess
    <2> QED
      BY <2>2 DEF NoReplay
  <1>4. CASE AfterReplay("boot")
    BY <1>0, <1>4 DEF AfterReplay, Returned, ReplayType, ReplayRecords
  <1>5. CASE CheckpointEstablished \/ Exit \/ CheckpointFails
    BY <1>0, <1>5 DEF CheckpointEstablished, Exit, CheckpointFails, ReplayType
  <1>6. CASE CatchUpRetries \/ CatchUpFails
    <2>1. replay["boot"].stage # "off"
      BY <1>6 DEF CatchUpRetries, CatchUpFails
    <2>2. boot' = boot \/ AfterReplay("boot")
      BY <1>6 DEF CatchUpRetries, CatchUpFails, controlVars
    <2> QED
      BY <1>4, <2>1, <2>2
  <1>7. CASE MineBlock \/ ListenerFailed \/ Persist \/ RequestShutdown \/ UNCHANGED vars
    BY <1>7 DEF MineBlock, ListenerFailed, Persist, RequestShutdown, vars, controlVars
  <1>8. ASSUME NEW p \in Replayers, Replay(p)
        PROVE  BootReplays'
    <2>1. CASE p = "boot" /\ (ReplayCompletes(p) \/ ReplayInterrupted(p))
      BY <1>4, <2>1 DEF ReplayCompletes, ReplayInterrupted
    <2>2. CASE p # "boot"
      <3>1. boot' = boot
        BY <1>8, <2>2 DEF Replay, ReplayBegins, ReplayFetches, ReplayFetchedAll, ReplayEmits,
           ReplayHandled, FlushRound, ReplayCompletes, ReplayInterrupted, AfterReplay, controlVars
      <3>2. replay'["boot"] = replay["boot"]
        BY <1>0, <1>8, <2>2 DEF Replay, ReplayBegins, ReplayFetches, ReplayFetchedAll, ReplayEmits,
           ReplayHandled, FlushRound, ReplayCompletes, ReplayInterrupted, AfterReplay, ReplayType
      <3> QED
        BY <3>1, <3>2
    <2>3. CASE p = "boot" /\ ReplayHandled(p)
      <3>1. replay'["boot"].stage = IF replay["boot"].stage = "emit" /\ replay["boot"].todo = {}
                                    THEN "fetch" ELSE replay["boot"].stage
        BY <1>0, <2>3 DEF ReplayHandled, ReplayType, ReplayRecords
      <3> QED
        BY <2>3, <3>1 DEF ReplayHandled, controlVars
    <2>4. CASE p = "boot" /\ (\/ ReplayBegins(p) \/ ReplayFetches(p) \/ ReplayFetchedAll(p)
                              \/ ReplayEmits(p) \/ FlushRound(p))
      BY <2>4 DEF ReplayBegins, ReplayFetches, ReplayFetchedAll, ReplayEmits, FlushRound, controlVars
    <2> QED
      BY <1>8, <2>1, <2>2, <2>3, <2>4 DEF Replay
  <1> QED
    BY <1>1, <1>2, <1>3, <1>4, <1>5, <1>6, <1>7, <1>8
    DEF Next, Bootstrap, Environment, CatchUpGivesUp

(* A step that leaves the buffer of the current runtime as it was, and takes *)
(* no replay out of its stages.                                              *)
LEMMA OwnerKept ==
  ASSUME Owned, cur' = cur,
         runtime'[cur].buffering => runtime[cur].buffering,
         \A p \in Replayers : replay[p].stage \in Flushing => replay'[p].stage \in Flushing
  PROVE  Owned'
  BY DEF Owned, Replayers

LEMMA StoppedBuffering ==
  ASSUME RuntimeType, NEW r \in Runtimes, StopBuffering(r)
  PROVE  /\ ~runtime'[r].buffering
         /\ \A q \in Runtimes \ {r} : runtime'[q] = runtime[q]
  <1>1. runtime[r] \in RuntimeRecords
    BY DEF RuntimeType
  <1>2. runtime'[r] = [[runtime[r] EXCEPT !.buffering = FALSE] EXCEPT !.buffer = {}]
    BY DEF StopBuffering, RuntimeType
  <1>3. ~runtime'[r].buffering
    BY <1>1, <1>2 DEF RuntimeRecords
  <1>4. \A q \in Runtimes \ {r} : runtime'[q] = runtime[q]
    BY DEF StopBuffering, RuntimeType
  <1> QED
    BY <1>3, <1>4

LEMMA OwnedReplay ==
  ASSUME RuntimeType, ReplayType, Owned, NEW p \in Replayers, Replay(p)
  PROVE  Owned'
  <1> DEFINE r == RuntimeOf(p)
  <1>0. /\ r \in Runtimes /\ cur \in Runtimes /\ runtime[r] \in RuntimeRecords
        /\ "boot" \in Replayers /\ "sup" \in Replayers
        /\ \A q \in Replayers : replay[q] \in ReplayRecords
    BY RuntimeOfType DEF RuntimeType, ReplayType, Replayers
  <1>1. cur' = cur
    BY DEF Replay, ReplayBegins, ReplayFetches, ReplayFetchedAll, ReplayEmits, ReplayHandled,
           FlushRound, ReplayCompletes, ReplayInterrupted, runtimeVars
  <1>2. CASE ReplayBegins(p)
    <2>1. cur = r /\ replay'[p].stage \in Flushing
      BY <1>0, <1>2 DEF ReplayBegins, ReplayType, Flushing
    <2> QED
      BY <1>1, <2>1 DEF Owned, RuntimeOf, Replayers
  <1>3. CASE ReplayCompletes(p) \/ ReplayInterrupted(p)
    <2>1. StopBuffering(r) /\ replay' = [replay EXCEPT ![p] = Returned(p)]
      BY <1>3 DEF ReplayCompletes, ReplayInterrupted, AfterReplay
    <2>2. \A q \in Replayers \ {p} : replay'[q] = replay[q]
      BY <2>1 DEF ReplayType
    <2>3. CASE cur = r
      BY <1>0, <1>1, <2>1, <2>3, StoppedBuffering DEF Owned
    <2>4. CASE cur # r
      BY <1>0, <1>1, <2>1, <2>2, <2>4, StoppedBuffering DEF Owned, RuntimeOf, Replayers
    <2> QED
      BY <2>3, <2>4
  <1>4. CASE FlushRound(p)
    <2>1. runtime'[cur].buffering = runtime[cur].buffering
      <3>1. runtime'[r] = [runtime[r] EXCEPT !.buffer = {}]
        BY <1>0, <1>4 DEF FlushRound, RuntimeType
      <3>2. runtime'[r].buffering = runtime[r].buffering
        BY <1>0, <3>1 DEF RuntimeRecords
      <3>3. cur # r => runtime'[cur] = runtime[cur]
        BY <1>0, <1>4 DEF FlushRound, RuntimeType
      <3> QED
        BY <3>2, <3>3
    <2>2. \A q \in Replayers : replay'[q].stage = replay[q].stage
      BY <1>0, <1>4 DEF FlushRound, ReplayType, ReplayRecords
    <2> QED
      BY <1>1, <2>1, <2>2, OwnerKept
  <1>5. CASE ReplayFetches(p) \/ ReplayFetchedAll(p) \/ ReplayEmits(p) \/ ReplayHandled(p)
    <2>1. runtime' = runtime
      BY <1>5 DEF ReplayFetches, ReplayFetchedAll, ReplayEmits, ReplayHandled, runtimeVars
    <2>2. ASSUME ~ReplayHandled(p)
          PROVE  \A q \in Replayers : replay[q].stage \in Flushing => replay'[q].stage \in Flushing
      <3>1. ReplayFetches(p) => replay'[p].stage \in Flushing
        BY <1>0 DEF ReplayFetches, ReplayType, Flushing
      <3>2. ReplayFetchedAll(p) => replay'[p].stage \in Flushing
        BY <1>0 DEF ReplayFetchedAll, ReplayType, Flushing
      <3>3. ReplayEmits(p) => replay'[p].stage \in Flushing
        BY <1>0 DEF ReplayEmits, ReplayType, Flushing
      <3>4. \A q \in Replayers \ {p} : replay'[q] = replay[q]
        BY <1>5, <2>2 DEF ReplayFetches, ReplayFetchedAll, ReplayEmits, ReplayType
      <3> QED
        BY <1>5, <2>2, <3>1, <3>2, <3>3, <3>4
    <2>3. ASSUME ReplayHandled(p)
          PROVE  \A q \in Replayers : replay[q].stage \in Flushing => replay'[q].stage \in Flushing
      <3>1. replay'[p].stage = IF replay[p].stage = "emit" /\ replay[p].todo = {}
                               THEN "fetch" ELSE replay[p].stage
        BY <1>0, <2>3 DEF ReplayHandled, ReplayType, ReplayRecords
      <3>2. \A q \in Replayers \ {p} : replay'[q] = replay[q]
        BY <2>3 DEF ReplayHandled, ReplayType
      <3> QED
        BY <3>1, <3>2 DEF Flushing
    <2> QED
      BY <1>1, <2>1, <2>2, <2>3, OwnerKept
  <1> QED
    BY <1>2, <1>3, <1>4, <1>5 DEF Replay

LEMMA OwnedTasks ==
  ASSUME RuntimeType, ReplayType, ControlType, FailuresCovered, Owned, SupReplays, BootReplays,
         Listener \/ Supervisor \/ Bootstrap
  PROVE  Owned'
  <1>0. /\ cur \in Runtimes /\ runtime[cur] \in RuntimeRecords
        /\ "boot" \in Replayers /\ "sup" \in Replayers
    BY DEF RuntimeType, Replayers
  <1>1. CASE Listener
    <2>1. cur' = cur
      BY <1>1 DEF Listener, ListenerSubscribed, ListenerHandled, ListenerIgnores, ListenerBuffers,
                  ListenerEmits
    <2>2. runtime'[cur].buffering = runtime[cur].buffering
      <3>1. ListenerSubscribed => runtime'[cur].buffering = runtime[cur].buffering
        BY <1>0 DEF ListenerSubscribed, RuntimeType
      <3>2. ListenerHandled => runtime'[cur].buffering = runtime[cur].buffering
        BY <1>0 DEF ListenerHandled, RuntimeType
      <3>3. \A x \in Items : ListenerIgnores(x) => runtime'[cur].buffering = runtime[cur].buffering
        BY <1>0 DEF ListenerIgnores, RuntimeType
      <3>4. \A x \in Items : ListenerBuffers(x) => runtime'[cur].buffering = runtime[cur].buffering
        <4>1. \A x \in Items : ListenerBuffers(x) =>
                runtime'[cur] = [[runtime[cur] EXCEPT !.feed = @ \ {x}]
                                   EXCEPT !.buffer = runtime[cur].buffer \cup {x}]
          BY <1>0 DEF ListenerBuffers, RuntimeType, RuntimeRecords
        <4>2. \A x \in Items : [[runtime[cur] EXCEPT !.feed = @ \ {x}]
                EXCEPT !.buffer = runtime[cur].buffer \cup {x}].buffering = runtime[cur].buffering
          BY <1>0 DEF RuntimeRecords
        <4> QED
          BY <4>1, <4>2
      <3>5. \A x \in Items : ListenerEmits(x) => runtime'[cur].buffering = runtime[cur].buffering
        BY <1>0 DEF ListenerEmits, RuntimeType
      <3> QED
        BY <1>1, <3>1, <3>2, <3>3, <3>4, <3>5 DEF Listener
    <2>3. \A p \in Replayers : replay[p].stage \in Flushing => replay'[p].stage \in Flushing
      <3>1. CASE replay' = replay
        BY <3>1
      <3>2. CASE boot = "waiting" /\ replay' = [replay EXCEPT !["boot"].stage = "head"]
        <4>1. replay["boot"].stage = "off"
          BY <3>2 DEF BootReplays
        <4> QED
          BY <1>0, <3>2, <4>1 DEF ReplayType, Replayers, Flushing
      <3> QED
        BY <1>1, <3>1, <3>2 DEF Listener, ListenerSubscribed, ListenerHandled, ListenerIgnores,
           ListenerBuffers, ListenerEmits
    <2> QED
      BY <2>1, <2>2, <2>3, OwnerKept
  <1>2. CASE SupFinishesRestart
    <2>1. cur =< faults.rpc /\ cur + 1 \in Runtimes /\ cur' = cur + 1
      BY <1>0, <1>2, ChainAssumption DEF SupFinishesRestart, FailuresCovered, ControlType, Runtimes
    <2>2. runtime'[cur'].buffering = FALSE
      BY <1>0, <1>2, <2>1 DEF SupFinishesRestart, NewRuntime, RuntimeType
    <2> QED
      BY <2>2 DEF Owned
  <1>3. CASE SupBeginsRestart \/ SupBeginsReplay
    <2>1. cur' = cur /\ replay["sup"].stage \notin Flushing
      BY <1>3 DEF SupBeginsRestart, SupBeginsReplay, SupReplays, runtimeVars
    <2>2. replay'["boot"] = replay["boot"]
      BY <1>0, <1>3 DEF SupBeginsRestart, SupBeginsReplay, BeginRestart, ReplayType
    <2>3. runtime'[cur].buffering = runtime[cur].buffering
      <3>1. SupBeginsRestart => runtime'[cur].buffering = runtime[cur].buffering
        BY <1>0 DEF SupBeginsRestart, RuntimeType, RuntimeRecords
      <3>2. SupBeginsReplay => runtime' = runtime
        BY DEF SupBeginsReplay, runtimeVars
      <3> QED
        BY <1>3, <3>1, <3>2
    <2> QED
      BY <2>1, <2>2, <2>3 DEF Owned
  <1>4. CASE SupStarts \/ SupStops \/ CheckpointEstablished \/ Exit
    BY <1>4 DEF SupStarts, SupStops, CheckpointEstablished, Exit, runtimeVars, Owned
  <1>5. CASE CatchUpGivesUp \/ CatchUpRetries
    <2>1. /\ cur' = cur /\ runtime' = runtime /\ replay["boot"].stage \notin Flushing
          /\ replay'["sup"] = replay["sup"]
      BY <1>0, <1>5 DEF CatchUpGivesUp, CatchUpRetries, AfterReplay, runtimeVars, Flushing, ReplayType
    <2> QED
      BY <2>1 DEF Owned
  <1>6. CASE Restart
    BY <1>6, FreshRuntimes DEF Restart, StartProcess, NewRuntime, Owned
  <1> QED
    BY <1>1, <1>2, <1>3, <1>4, <1>5, <1>6 DEF Supervisor, Bootstrap

LEMMA OwnedEnvironment ==
  ASSUME RuntimeType, ReplayType, ControlType, Owned, SupReplays, BootReplays, Environment
  PROVE  Owned'
  <1>0. /\ cur \in Runtimes /\ runtime[cur] \in RuntimeRecords /\ 1 \in Runtimes
        /\ "boot" \in Replayers /\ "sup" \in Replayers
    BY FreshRuntimes DEF RuntimeType, Replayers
  <1>1. CASE MineBlock
    <2>1. runtime'[cur].buffering = runtime[cur].buffering
      BY <1>0, <1>1 DEF MineBlock, RuntimeRecords
    <2> QED
      BY <1>1, <2>1 DEF MineBlock, Owned
  <1>2. CASE ListenerFailed
    <2>1. runtime'[cur].buffering = runtime[cur].buffering
      BY <1>0, <1>2 DEF ListenerFailed, RuntimeType
    <2> QED
      BY <1>2, <2>1 DEF ListenerFailed, Owned
  <1>3. CASE RequestShutdown
    <2>1. runtime'[cur].buffering = runtime[cur].buffering
      BY <1>0, <1>3 DEF RequestShutdown, RuntimeType
    <2> QED
      BY <1>3, <2>1 DEF RequestShutdown, Owned
  <1>4. CASE CatchUpFails
    <2>1. cur' = cur /\ StopBuffering(1)
      BY <1>4 DEF CatchUpFails
    <2>2. replay'["sup"] = replay["sup"]
      BY <1>0, <1>4 DEF CatchUpFails, AfterReplay, ReplayType
    <2>3. CASE cur = 1
      BY <1>0, <2>1, <2>3, StoppedBuffering DEF Owned
    <2>4. CASE cur # 1
      BY <1>0, <2>1, <2>2, <2>4, StoppedBuffering DEF Owned
    <2> QED
      BY <2>3, <2>4
  <1>5. CASE ReconnectReplayFails
    <2>1. cur' = cur
      BY <1>5 DEF ReconnectReplayFails
    <2>2. ~runtime'[cur].buffering
      <3>1. CASE stopping
        BY <1>0, <1>5, <3>1, StoppedBuffering DEF ReconnectReplayFails
      <3>2. CASE ~stopping
        BY <1>0, <1>5, <3>2 DEF ReconnectReplayFails, RuntimeType, RuntimeRecords
      <3> QED
        BY <3>1, <3>2
    <2> QED
      BY <2>1, <2>2 DEF Owned
  <1>6. CASE CheckpointFails
    <2>1. cur' = cur /\ ~runtime'[cur].buffering
      BY <1>0, <1>6 DEF CheckpointFails, RuntimeType, RuntimeRecords
    <2> QED
      BY <2>1 DEF Owned
  <1>7. CASE Persist
    BY <1>7 DEF Persist, runtimeVars, Owned
  <1>8. CASE Crash
    BY <1>8, FreshRuntimes DEF Crash, StartProcess, NewRuntime, Owned
  <1> QED
    BY <1>1, <1>2, <1>3, <1>4, <1>5, <1>6, <1>7, <1>8 DEF Environment

OwnerInv == IInv /\ Owned /\ SupReplays /\ BootReplays

LEMMA OwnerStep == OwnerInv /\ [Next]_vars => OwnerInv'
  <1> SUFFICES ASSUME OwnerInv, [Next]_vars
               PROVE  OwnerInv'
    OBVIOUS
  <1>1. /\ RuntimeType /\ ReplayType /\ ControlType /\ FlagType /\ FailuresCovered
        /\ Owned /\ SupReplays /\ BootReplays
    BY TypeParts DEF OwnerInv, IInv
  <1>2. IInv'
    BY <1>1, InvStep DEF OwnerInv
  <1>3. SupReplays' /\ BootReplays'
    BY <1>1, SupReplaysStep, BootReplaysStep
  <1>4. Owned'
    <2>1. UNCHANGED vars => Owned'
      BY <1>1 DEF vars, runtimeVars, Owned
    <2> QED
      BY <1>1, <2>1, OwnedReplay, OwnedTasks, OwnedEnvironment DEF Next
  <1> QED
    BY <1>2, <1>3, <1>4 DEF OwnerInv

(* Live items wait in a buffer only while a replay runs that will flush them *)
(* or throw them away: no reconnect, failure, shutdown or end of a replay    *)
(* leaves the current runtime buffering for nobody.                          *)
THEOREM BufferAlwaysOwned == Spec => []BufferIsOwned
  <1>1. Init => OwnerInv
    <2> SUFFICES ASSUME Init
                 PROVE  OwnerInv
      OBVIOUS
    <2>1. Owned
      BY FreshRuntimes DEF Init, NewRuntime, Owned
    <2>2. replay["boot"].stage = "off" /\ replay["sup"].stage = "off"
      BY DEF Init, Replayers, NoReplay
    <2> QED
      BY InvInit, <2>1, <2>2 DEF OwnerInv, SupReplays, BootReplays, Flushing
  <1>2. OwnerInv /\ [Next]_vars => OwnerInv'
    BY OwnerStep
  <1>3. OwnerInv => BufferIsOwned
    BY OwnedMeansOwned DEF OwnerInv
  <1> QED
    BY <1>1, <1>2, <1>3, PTL DEF Spec

-----------------------------------------------------------------------------
(* Where the tasks are: which runtimes are shut or subscribed, and when a    *)
(* replay is owed, at each place of the supervisor and the bootstrap.        *)
Lives ==
  /\ cur # 1 => runtime[1].shut
  /\ sup = "aborting" => runtime[cur].shut
  /\ sup = "start" => runtime[cur].phase = "idle"
  /\ sup = "replaying" \/ (sup = "watching" /\ cur # 1) => runtime[cur].phase # "idle"
  /\ boot \in {"checkpointing", "replaying", "done"} => runtime[1].phase # "idle"
  /\ stopping /\ (cur = 1 \/ ListenerRuns) => runtime[cur].shut

Places ==
  /\ sup \in {"waiting", "replaying"} \/ (sup = "start" /\ cur # 1) => pending # 0
  /\ pending # 0 => cur # 1
  /\ boot = "exited" => sup = "stopped"
  /\ sup = "aborting" => replay["sup"].start # 0
  /\ \A p \in Replayers : replay[p].stage # "off" => replay[p].start # 0

(* What a replay holds at each of its stages, and how far it and the live    *)
(* subscription may reach.                                                   *)
ReplayShape ==
  \A p \in Replayers :
    /\ replay[p].stage \notin {"emit", "flush"} => replay[p].todo = {} /\ replay[p].handling = NoItem
    /\ replay[p].stage = "flush" => replay[p].next > replay[p].to

Active(p) == replay[p].stage \in Flushing /\ ~runtime[RuntimeOf(p)].shut

Bounds ==
  /\ catchupUntil =< head
  /\ \A r \in Runtimes : /\ runtime[r].threshold =< head
                         /\ \A x \in runtime[r].feed : x[1] =< head
  /\ \A p \in Replayers : Active(p) => runtime[RuntimeOf(p)].threshold =< replay[p].to

(* Runtimes are never opened again, and a connection once made or lost is    *)
(* not a new one.                                                            *)
Forward ==
  \A q \in Runtimes : /\ runtime[q].shut => runtime'[q].shut
                      /\ runtime[q].phase # "idle" => runtime'[q].phase # "idle"
                      /\ runtime'[q].phase # runtime[q].phase => q = cur /\ ListenerRuns

NewProcess == Restart \/ Crash

LEMMA ReturnedFields ==
  ASSUME ReplayType, NEW p \in Replayers
  PROVE  /\ Returned(p).stage = "off" /\ Returned(p).todo = {}
         /\ Returned(p).start = replay[p].start /\ Returned(p).handling = replay[p].handling
  <1>1. replay[p] \in ReplayRecords
    BY DEF ReplayType
  <1> QED
    BY <1>1 DEF Returned, ReplayRecords

LEMMA ForwardStep ==
  ASSUME RuntimeType, [Next]_vars, ~NewProcess, ~SupFinishesRestart
  PROVE  cur' = cur /\ Forward
  <1>0. /\ cur \in Runtimes /\ 1 \in Runtimes /\ runtime \in [Runtimes -> RuntimeRecords]
        /\ \A q \in Runtimes : runtime[q] \in RuntimeRecords
    BY FreshRuntimes DEF RuntimeType
  <1>a. \A p \in Replayers : RuntimeOf(p) \in Runtimes
    BY RuntimeOfType
  <1>1. CASE ListenerSubscribed \/ ListenerHandled \/ ListenerFailed
    BY <1>0, <1>1 DEF ListenerSubscribed, ListenerHandled, ListenerFailed, Forward, RuntimeRecords
  <1>2. ASSUME NEW x \in Items, ListenerIgnores(x) \/ ListenerBuffers(x) \/ ListenerEmits(x)
        PROVE  cur' = cur /\ Forward
    BY <1>0, <1>2 DEF ListenerIgnores, ListenerBuffers, ListenerEmits, Forward, RuntimeRecords
  <1>3. CASE MineBlock
    <2>1. \A q \in Runtimes : runtime'[q].phase = runtime[q].phase /\ runtime'[q].shut = runtime[q].shut
      BY <1>0, <1>3 DEF MineBlock, RuntimeRecords
    <2> QED
      BY <1>3, <2>1 DEF MineBlock, Forward
  <1>4. ASSUME NEW p \in Replayers, Replay(p)
        PROVE  cur' = cur /\ Forward
    <2>1. CASE ReplayBegins(p) \/ FlushRound(p)
      BY <1>0, <1>a, <2>1 DEF ReplayBegins, FlushRound, Forward, RuntimeRecords
    <2>2. CASE ReplayCompletes(p) \/ ReplayInterrupted(p)
      BY <1>0, <1>a, <2>2 DEF ReplayCompletes, ReplayInterrupted, StopBuffering, Forward, RuntimeRecords
    <2>3. CASE ReplayFetches(p) \/ ReplayFetchedAll(p) \/ ReplayEmits(p) \/ ReplayHandled(p)
      BY <2>3 DEF ReplayFetches, ReplayFetchedAll, ReplayEmits, ReplayHandled, runtimeVars, Forward
    <2> QED
      BY <1>4, <2>1, <2>2, <2>3 DEF Replay
  <1>5. CASE CatchUpFails \/ ReconnectReplayFails
    BY <1>0, <1>5 DEF CatchUpFails, ReconnectReplayFails, StopBuffering, Forward, RuntimeRecords
  <1>6. CASE SupBeginsRestart \/ RequestShutdown \/ CheckpointFails
    BY <1>0, <1>6 DEF SupBeginsRestart, RequestShutdown, CheckpointFails, Forward, RuntimeRecords
  <1>7. CASE \/ SupStarts \/ SupBeginsReplay \/ SupStops \/ CatchUpGivesUp \/ CatchUpRetries
             \/ CheckpointEstablished \/ Exit \/ Persist \/ UNCHANGED vars
    BY <1>7 DEF SupStarts, SupBeginsReplay, SupStops, CatchUpGivesUp, CatchUpRetries,
                CheckpointEstablished, Exit, Persist, vars, runtimeVars, Forward
  <1> QED
    BY <1>1, <1>2, <1>3, <1>4, <1>5, <1>6, <1>7
    DEF Next, Listener, Supervisor, Bootstrap, Environment, NewProcess

LEMMA LivesStep ==
  ASSUME RuntimeType, ReplayType, ControlType, FlagType, RuntimeType', SupReplays, BootReplays,
         Lives, Places, [Next]_vars
  PROVE  Lives'
  <1>0. /\ cur \in Runtimes /\ 1 \in Runtimes /\ runtime \in [Runtimes -> RuntimeRecords]
        /\ \A q \in Runtimes : runtime[q] \in RuntimeRecords
        /\ cur' \in Runtimes
    BY FreshRuntimes DEF RuntimeType
  <1>1. CASE NewProcess
    <2>1. /\ cur' = 1 /\ sup' = "start" /\ boot' = "waiting" /\ stopping' = FALSE
          /\ runtime' = [r \in Runtimes |-> NewRuntime(0)]
      BY <1>1 DEF NewProcess, Restart, Crash, StartProcess
    <2> QED
      BY <1>0, <2>1, FreshRuntimes DEF Lives, ListenerRuns
  <1>2. CASE SupFinishesRestart
    <2>1. /\ cur' = cur + 1 /\ sup' = "start" /\ sup = "aborting" /\ boot' = boot
          /\ runtime' = [runtime EXCEPT ![cur].handling = NoItem, ![cur + 1] = NewRuntime(catchupUntil)]
      BY <1>2 DEF SupFinishesRestart
    <2>2. runtime[cur].shut /\ runtime[1].shut
      BY <2>1 DEF Lives
    <2>3. cur # cur + 1 /\ cur + 1 # 1
      BY <1>0 DEF Runtimes
    <2>4. runtime'[cur + 1] = NewRuntime(catchupUntil)
      BY <1>0, <2>1
    <2>5. runtime'[1].shut = runtime[1].shut /\ runtime'[1].phase = runtime[1].phase
      BY <1>0, <2>1, <2>3 DEF RuntimeRecords
    <2>6. runtime'[cur'].phase = "idle"
      BY <2>1, <2>4 DEF NewRuntime
    <2> QED
      BY <2>1, <2>2, <2>3, <2>5, <2>6 DEF Lives, ListenerRuns
  <1>3. ASSUME ~NewProcess, ~SupFinishesRestart
        PROVE  Lives'
    <2>1. cur' = cur /\ Forward
      BY <1>3, ForwardStep
    <2>2. /\ runtime[cur].shut => runtime'[cur].shut
          /\ runtime[1].shut => runtime'[1].shut
          /\ runtime[cur].phase # "idle" => runtime'[cur].phase # "idle"
          /\ runtime[1].phase # "idle" => runtime'[1].phase # "idle"
          /\ ~ListenerRuns => runtime'[cur].phase = runtime[cur].phase
      BY <1>0, <2>1 DEF Forward
    <2>3. CASE UNCHANGED <<sup, boot, stopping>>
      BY <2>1, <2>2, <2>3 DEF Lives, ListenerRuns
    <2>4. CASE ListenerSubscribed
      <3>1. UNCHANGED <<sup, stopping>> /\ (boot' = boot \/ cur = 1) /\ runtime'[cur].phase = "live"
        BY <1>0, <2>4 DEF ListenerSubscribed, RuntimeRecords
      <3> QED
        BY <2>1, <2>2, <3>1 DEF Lives, ListenerRuns
    <2>5. CASE SupStarts
      <3>1. /\ sup = "start" /\ UNCHANGED <<boot, stopping>>
            /\ \/ sup' = "stopped"
               \/ sup' = "waiting" /\ ~stopping
               \/ sup' = "watching" /\ ~stopping /\ pending = 0
        BY <2>5 DEF SupStarts
      <3>2. sup' = "watching" => cur = 1
        BY <3>1 DEF Places
      <3> QED
        BY <2>1, <2>2, <3>1, <3>2 DEF Lives, ListenerRuns
    <2>6. CASE SupBeginsReplay
      BY <2>1, <2>2, <2>6 DEF SupBeginsReplay, Lives, ListenerRuns
    <2>7. CASE SupBeginsRestart
      <3>1. sup' = "aborting" /\ UNCHANGED <<boot, stopping>> /\ runtime'[cur].shut
        BY <1>0, <2>7 DEF SupBeginsRestart, BeginRestart, RuntimeRecords
      <3> QED
        BY <2>1, <2>2, <3>1 DEF Lives, ListenerRuns
    <2>8. CASE SupStops
      BY <2>1, <2>2, <2>8 DEF SupStops, Lives, ListenerRuns
    <2>9. CASE RequestShutdown
      <3>1. UNCHANGED <<sup, boot>> /\ runtime'[cur].shut
        BY <1>0, <2>9 DEF RequestShutdown, RuntimeRecords
      <3> QED
        BY <2>1, <2>2, <3>1 DEF Lives, ListenerRuns
    <2>10. CASE CheckpointFails
      <3>1. sup' = "stopped" /\ boot' = "exited" /\ runtime'[cur].shut
        BY <1>0, <2>10 DEF CheckpointFails, RuntimeRecords
      <3> QED
        BY <2>1, <2>2, <3>1 DEF Lives, ListenerRuns
    <2>11. CASE Exit \/ CheckpointEstablished
      BY <2>1, <2>2, <2>11 DEF Exit, CheckpointEstablished, Lives, ListenerRuns
    <2>12. CASE AfterReplay("boot") /\ replay["boot"].stage # "off"
      <3>1. boot = "replaying" /\ UNCHANGED <<sup, stopping>>
        BY <2>12 DEF BootReplays, AfterReplay
      <3> QED
        BY <2>1, <2>2, <3>1 DEF Lives, ListenerRuns
    <2>13. CASE AfterReplay("sup") /\ replay["sup"].stage \in Flushing
      <3>1. sup = "replaying" /\ sup' = "watching" /\ UNCHANGED <<boot, stopping>>
        BY <2>13 DEF SupReplays, AfterReplay
      <3> QED
        BY <2>1, <2>2, <3>1 DEF Lives, ListenerRuns
    <2>14. CASE ReconnectReplayFails
      <3>1. UNCHANGED <<boot, stopping>>
            /\ (sup' = "stopped" \/ (sup' = "aborting" /\ runtime'[cur].shut))
        BY <1>0, <2>14 DEF ReconnectReplayFails, BeginRestart, RuntimeRecords
      <3> QED
        BY <2>1, <2>2, <3>1 DEF Lives, ListenerRuns
    <2>15. CASE Listener
      <3>1. UNCHANGED <<sup, boot, stopping>> \/ ListenerSubscribed
        BY <2>15 DEF Listener, ListenerHandled, ListenerIgnores, ListenerBuffers, ListenerEmits,
           controlVars
      <3> QED
        BY <2>3, <2>4, <3>1
    <2>16. ASSUME NEW p \in Replayers, Replay(p)
           PROVE  Lives'
      <3>1. \/ UNCHANGED <<sup, boot, stopping>>
            \/ AfterReplay(p) /\ replay[p].stage \in Flushing
        BY <2>16 DEF Replay, ReplayBegins, ReplayFetches, ReplayFetchedAll, ReplayEmits,
           ReplayHandled, FlushRound, ReplayCompletes, ReplayInterrupted, controlVars, Flushing
      <3> QED
        BY <2>3, <2>12, <2>13, <3>1 DEF Replayers, Flushing
    <2>17. CASE CatchUpGivesUp \/ CatchUpFails
      <3>1. \/ UNCHANGED <<sup, boot, stopping>>
            \/ AfterReplay("boot") /\ replay["boot"].stage # "off"
        BY <2>17 DEF CatchUpGivesUp, CatchUpFails, controlVars
      <3> QED
        BY <2>3, <2>12, <3>1
    <2>18. CASE MineBlock \/ ListenerFailed \/ Persist \/ CatchUpRetries \/ UNCHANGED vars
      <3>1. UNCHANGED <<sup, boot, stopping>>
        BY <2>18 DEF MineBlock, ListenerFailed, Persist, CatchUpRetries, controlVars, vars
      <3> QED
        BY <2>3, <3>1
    <2> QED
      BY <1>3, <2>5, <2>6, <2>7, <2>8, <2>9, <2>10, <2>11, <2>14, <2>15, <2>16, <2>17, <2>18
      DEF Next, Supervisor, Bootstrap, Environment, NewProcess
  <1> QED
    BY <1>1, <1>2, <1>3

LEMMA PlacesStep ==
  ASSUME RuntimeType, ReplayType, ControlType, SupReplays, BootReplays, ReplayShape,
         Lives, Places, [Next]_vars
  PROVE  Places'
  <1>0. /\ "boot" \in Replayers /\ "sup" \in Replayers
        /\ \A p \in Replayers : replay[p] \in ReplayRecords
        /\ store.checkpoint \in Nat /\ pending \in Nat /\ cur \in Nat
        /\ \A q \in Replayers : q = "boot" \/ q = "sup"
    <2>1. store.checkpoint \in Blocks /\ Blocks \subseteq Nat
      BY BlockArithmetic DEF ControlType, Stores
    <2>2. pending \in Nat
      BY DEF ControlType
    <2>3. cur \in Nat
      BY ChainAssumption DEF RuntimeType, Runtimes
    <2> QED
      BY <2>1, <2>2, <2>3 DEF Replayers, ReplayType
  <1>1. CASE NewProcess
    <2>1. /\ cur' = 1 /\ sup' = "start" /\ boot' = "waiting" /\ pending' = 0
          /\ replay'["sup"] = NoReplay
          /\ replay'["boot"] = [NoReplay EXCEPT !.start = BackfillStart(saved.checkpoint)]
      BY <1>0, <1>1 DEF NewProcess, Restart, Crash, StartProcess
    <2>2. replay'["sup"].stage = "off" /\ replay'["boot"].stage = "off"
      BY <2>1 DEF NoReplay
    <2> QED
      BY <1>0, <2>1, <2>2 DEF Places
  <1>2. CASE Listener
    <2>1. /\ UNCHANGED <<cur, sup, pending>>
          /\ replay'["sup"] = replay["sup"]
          /\ replay'["boot"].start = replay["boot"].start
          /\ (boot' = boot \/ boot' # "exited")
          /\ (replay'["boot"].stage = replay["boot"].stage \/ replay["boot"].start # 0)
      <3>1. CASE ListenerSubscribed
        <4>1. UNCHANGED <<cur, sup, pending>>
          BY <3>1 DEF ListenerSubscribed
        <4>2. CASE UNCHANGED <<boot, replay>>
          BY <4>1, <4>2
        <4>3. CASE boot' = "checkpointing" /\ UNCHANGED replay
          BY <4>1, <4>3
        <4>4. ASSUME boot' = "replaying", replay["boot"].start # 0,
                     replay' = [replay EXCEPT !["boot"].stage = "head"]
              PROVE  /\ replay'["sup"] = replay["sup"]
                     /\ replay'["boot"].start = replay["boot"].start
          BY <1>0, <4>4 DEF ReplayType, ReplayRecords
        <4> QED
          BY <3>1, <4>1, <4>2, <4>3, <4>4 DEF ListenerSubscribed, CatchUpStart
      <3>2. CASE ~ListenerSubscribed
        BY <1>2, <3>2 DEF Listener, ListenerHandled, ListenerIgnores, ListenerBuffers,
           ListenerEmits, controlVars
      <3> QED
        BY <3>1, <3>2
    <2> QED
      BY <1>0, <2>1 DEF Places
  <1>3. ASSUME NEW p \in Replayers, Replay(p)
        PROVE  Places'
    <2>1. /\ cur' = cur /\ replay[p].stage # "off"
          /\ \A q \in Replayers : replay'[q].start = replay[q].start
          /\ \A q \in Replayers : q # p => replay'[q].stage = replay[q].stage
      <3>1. CASE ReplayBegins(p) \/ ReplayFetches(p) \/ ReplayFetchedAll(p) \/ FlushRound(p)
        BY <1>0, <3>1 DEF ReplayBegins, ReplayFetches, ReplayFetchedAll, FlushRound, runtimeVars,
           ReplayType, ReplayRecords
      <3>2. CASE ReplayEmits(p)
        BY <1>0, <3>2 DEF ReplayEmits, runtimeVars, ReplayType, ReplayRecords
      <3>3. CASE ReplayHandled(p)
        <4>1. replay[p].stage # "off"
          BY <1>0, <3>3 DEF ReplayHandled, ReplayShape
        <4> QED
          BY <1>0, <3>3, <4>1 DEF ReplayHandled, runtimeVars, ReplayType, ReplayRecords
      <3>4. CASE ReplayCompletes(p) \/ ReplayInterrupted(p)
        BY <1>0, <3>4, ReturnedFields DEF ReplayCompletes, ReplayInterrupted, AfterReplay, ReplayType
      <3> QED
        BY <1>3, <3>1, <3>2, <3>3, <3>4 DEF Replay
    <2>2. \/ UNCHANGED <<sup, boot, pending>>
          \/ p = "boot" /\ boot' = "done" /\ UNCHANGED <<sup, pending>>
          \/ p = "sup" /\ sup' = "watching" /\ pending' = 0 /\ UNCHANGED boot
             /\ replay["sup"].stage \in Flushing
      BY <1>3 DEF Replay, ReplayBegins, ReplayFetches, ReplayFetchedAll, ReplayEmits,
         ReplayHandled, FlushRound, ReplayCompletes, ReplayInterrupted, AfterReplay, controlVars,
         Replayers, Flushing
    <2> QED
      BY <1>0, <2>1, <2>2 DEF Places, SupReplays
  <1>4. CASE SupStarts \/ SupStops
    BY <1>4 DEF SupStarts, SupStops, runtimeVars, Places
  <1>5. CASE SupBeginsReplay
    <2>1. /\ replay'["sup"] = [NoReplay EXCEPT !.stage = "head", !.start = pending]
          /\ replay'["boot"] = replay["boot"]
          /\ sup' = "replaying" /\ sup = "waiting" /\ UNCHANGED <<cur, pending, boot>>
      BY <1>0, <1>5 DEF SupBeginsReplay, ReplayType, runtimeVars
    <2>2. replay'["sup"].start = pending
      BY <2>1 DEF NoReplay
    <2> QED
      BY <1>0, <2>1, <2>2 DEF Places
  <1>6. ASSUME BeginRestart, cur' = cur, sup # "stopped"
        PROVE  Places'
    <2>1. /\ replay'["sup"] = [NoReplay EXCEPT !.start = store.checkpoint + 1]
          /\ replay'["boot"] = replay["boot"]
          /\ sup' = "aborting" /\ UNCHANGED <<pending, boot>>
      BY <1>0, <1>6 DEF BeginRestart, ReconnectStart, ReplayType
    <2>2. replay'["sup"].start = store.checkpoint + 1
      BY <2>1 DEF NoReplay
    <2>3. /\ store.checkpoint + 1 # 0
          /\ \A p \in Replayers : replay'[p].stage # "off" => replay'[p].start # 0
      <3>1. store.checkpoint + 1 # 0
        BY <1>0
      <3> QED
        BY <1>0, <2>1, <2>2, <3>1 DEF Places
    <2> QED
      BY <1>0, <1>6, <2>1, <2>2, <2>3 DEF Places
  <1>7. CASE SupBeginsRestart \/ ReconnectReplayFails
    <2>1. sup # "stopped" /\ cur' = cur
      BY <1>7 DEF SupBeginsRestart, ReconnectReplayFails, SupReplays, Flushing
    <2>2. CASE sup' = "stopped"
      <3>1. /\ UNCHANGED <<boot, pending>>
            /\ replay'["boot"] = replay["boot"] /\ replay'["sup"].stage = "off"
        BY <1>0, <1>7, <2>2, ReturnedFields DEF SupBeginsRestart, ReconnectReplayFails, BeginRestart,
           ReplayType
      <3> QED
        BY <1>0, <2>1, <2>2, <3>1 DEF Places
    <2>3. CASE sup' # "stopped"
      BY <1>6, <1>7, <2>1, <2>3 DEF SupBeginsRestart, ReconnectReplayFails
    <2> QED
      BY <2>2, <2>3
  <1>8. CASE SupFinishesRestart
    <2>1. sup = "aborting" /\ sup' = "start" /\ cur' = cur + 1 /\ pending' = replay["sup"].start
          /\ UNCHANGED <<boot, replay>>
      BY <1>8 DEF SupFinishesRestart
    <2>2. cur' # 1
      BY <2>1 DEF RuntimeType, Runtimes
    <2> QED
      BY <2>1, <2>2 DEF Places
  <1>9. CASE CatchUpGivesUp \/ CatchUpRetries \/ CatchUpFails
    <2>1. /\ UNCHANGED <<cur, sup, pending>> /\ boot' \in {boot, "done"}
          /\ replay'["sup"] = replay["sup"]
          /\ replay["boot"].stage # "off"
      BY <1>0, <1>9 DEF CatchUpGivesUp, CatchUpRetries, CatchUpFails, AfterReplay, controlVars,
         runtimeVars, ReplayType
    <2>2. replay'["boot"].start # 0
      <3>1. replay["boot"].start \in Nat \ {0}
        BY <1>0, <2>1 DEF Places, ReplayRecords
      <3>2. Max(replay["boot"].start, store.checkpoint + 1) \in Nat \ {0}
        BY <1>0, <3>1 DEF Max
      <3>3. replay'["boot"].start \in {replay["boot"].start, Max(replay["boot"].start, store.checkpoint + 1)}
        <4>1. CASE AfterReplay("boot") \/ CatchUpRetries
          BY <1>0, <4>1, ReturnedFields DEF CatchUpRetries, AfterReplay, ReplayType, ReplayRecords
        <4>2. CASE CatchUpFails /\ ~AfterReplay("boot")
          BY <1>0, <4>2 DEF CatchUpFails, ReplayType, ReplayRecords
        <4> QED
          BY <1>9, <4>1, <4>2 DEF CatchUpGivesUp
      <3> QED
        BY <3>1, <3>2, <3>3
    <2> QED
      BY <1>0, <2>1, <2>2 DEF Places
  <1>10. CASE CheckpointFails
    <2>1. /\ UNCHANGED <<cur, pending>> /\ sup' = "stopped"
          /\ replay'["sup"] = NoReplay /\ replay'["boot"] = replay["boot"]
      BY <1>0, <1>10 DEF CheckpointFails, ReplayType
    <2> QED
      BY <1>0, <2>1 DEF Places, NoReplay
  <1>11. CASE CheckpointEstablished \/ Exit
    BY <1>11 DEF CheckpointEstablished, Exit, runtimeVars, Places
  <1>12. CASE MineBlock \/ ListenerFailed \/ Persist \/ RequestShutdown \/ UNCHANGED vars
    BY <1>12 DEF MineBlock, ListenerFailed, Persist, RequestShutdown, vars, controlVars, runtimeVars, Places
  <1> QED
    BY <1>1, <1>2, <1>3, <1>4, <1>5, <1>7, <1>8, <1>9, <1>10, <1>11, <1>12
    DEF Next, Supervisor, Bootstrap, Environment, NewProcess

LEMMA ReplayShapeStep ==
  ASSUME ReplayType, BootReplays, ReplayShape, [Next]_vars
  PROVE  ReplayShape'
  <1>0. /\ "boot" \in Replayers /\ "sup" \in Replayers
        /\ \A p \in Replayers : replay[p] \in ReplayRecords
    BY DEF Replayers, ReplayType
  <1> DEFINE Shape(r) ==
        /\ r.stage \notin {"emit", "flush"} => r.todo = {} /\ r.handling = NoItem
        /\ r.stage = "flush" => r.next > r.to
  <1>a. \A p \in Replayers : Shape(replay[p])
    BY DEF ReplayShape
  <1>b. SUFFICES \A p \in Replayers : Shape(replay'[p])
    BY DEF ReplayShape
  <1>c. Shape(NoReplay) /\ \A n : Shape([NoReplay EXCEPT !.start = n])
                        /\ \A m : Shape([NoReplay EXCEPT !.stage = "head", !.start = m])
    BY DEF NoReplay
  <1>d. \A p \in Replayers : replay[p].handling = NoItem => Shape(Returned(p))
    BY ReturnedFields
  <1>1. CASE NewProcess
    <2>1. \A p \in Replayers : \/ replay'[p] = NoReplay
                               \/ replay'[p] = [NoReplay EXCEPT !.start = BackfillStart(saved.checkpoint)]
      BY <1>1 DEF NewProcess, Restart, Crash, StartProcess
    <2> QED
      BY <1>c, <2>1
  <1>2. CASE ListenerSubscribed
    BY <1>0, <1>a, <1>2 DEF ListenerSubscribed, BootReplays, ReplayType, ReplayRecords
  <1>3. ASSUME NEW p \in Replayers, Replay(p)
        PROVE  \A q \in Replayers : Shape(replay'[q])
    <2>0. /\ \A q \in Replayers : q # p => replay'[q] = replay[q]
      BY <1>0, <1>3 DEF Replay, ReplayBegins, ReplayFetches, ReplayFetchedAll, ReplayEmits,
         ReplayHandled, FlushRound, ReplayCompletes, ReplayInterrupted, AfterReplay, ReplayType
    <2>1. CASE ReplayBegins(p) \/ ReplayFetches(p) \/ ReplayFetchedAll(p)
      <3>1. Shape(replay'[p])
        BY <1>0, <1>a, <2>1 DEF ReplayBegins, ReplayFetches, ReplayFetchedAll, ReplayType, ReplayRecords
      <3> QED
        BY <1>a, <2>0, <3>1
    <2>2. CASE ReplayEmits(p)
      <3>1. Shape(replay'[p])
        BY <1>0, <1>a, <2>2 DEF ReplayEmits, ReplayType, ReplayRecords
      <3> QED
        BY <1>a, <2>0, <3>1
    <2>3. CASE ReplayHandled(p)
      <3>1. Shape(replay'[p])
        BY <1>0, <1>a, <2>3 DEF ReplayHandled, ReplayType, ReplayRecords
      <3> QED
        BY <1>a, <2>0, <3>1
    <2>4. CASE FlushRound(p)
      <3>1. Shape(replay'[p])
        BY <1>0, <1>a, <2>4 DEF FlushRound, ReplayType, ReplayRecords
      <3> QED
        BY <1>a, <2>0, <3>1
    <2>5. CASE ReplayCompletes(p) \/ ReplayInterrupted(p)
      <3>1. replay'[p] = Returned(p) /\ replay[p].handling = NoItem
        BY <1>0, <2>5 DEF ReplayCompletes, ReplayInterrupted, AfterReplay, ReplayType
      <3> QED
        BY <1>a, <1>d, <2>0, <3>1
    <2> QED
      BY <1>3, <2>1, <2>2, <2>3, <2>4, <2>5 DEF Replay
  <1>4. CASE SupBeginsReplay
    BY <1>0, <1>a, <1>c, <1>4 DEF SupBeginsReplay, ReplayType
  <1>5. CASE BeginRestart
    BY <1>0, <1>a, <1>c, <1>5 DEF BeginRestart, ReplayType
  <1>6. CASE AfterReplay("boot") /\ replay["boot"].handling = NoItem
    BY <1>0, <1>a, <1>d, <1>6 DEF AfterReplay, ReplayType
  <1>7. CASE CatchUpGivesUp \/ CatchUpRetries \/ CatchUpFails
    <2>1. replay["boot"].todo = {} /\ replay["boot"].handling = NoItem
      BY <1>0, <1>a, <1>7 DEF CatchUpGivesUp, CatchUpRetries, CatchUpFails
    <2>2. CASE CatchUpRetries
      BY <1>0, <1>a, <2>1, <2>2 DEF CatchUpRetries, ReplayType, ReplayRecords
    <2>3. CASE CatchUpFails /\ ~AfterReplay("boot")
      BY <1>0, <1>a, <2>1, <2>3 DEF CatchUpFails, ReplayType, ReplayRecords
    <2> QED
      BY <1>6, <1>7, <2>1, <2>2, <2>3 DEF CatchUpGivesUp
  <1>8. CASE ReconnectReplayFails
    <2>1. replay["sup"].handling = NoItem
      BY <1>0, <1>a, <1>8 DEF ReconnectReplayFails
    <2>2. BeginRestart \/ replay' = [replay EXCEPT !["sup"] = Returned("sup")]
      BY <1>8 DEF ReconnectReplayFails
    <2> QED
      BY <1>0, <1>a, <1>d, <1>5, <2>1, <2>2 DEF ReplayType
  <1>9. CASE CheckpointFails
    BY <1>0, <1>a, <1>c, <1>9 DEF CheckpointFails, ReplayType
  <1>10. CASE \/ SupStarts \/ SupFinishesRestart \/ SupStops \/ CheckpointEstablished \/ Exit
              \/ MineBlock \/ ListenerFailed \/ Persist \/ RequestShutdown \/ UNCHANGED vars
              \/ (Listener /\ ~ListenerSubscribed)
    <2>1. replay' = replay
      BY <1>10 DEF SupStarts, SupFinishesRestart, SupStops, CheckpointEstablished, Exit, MineBlock,
         ListenerFailed, Persist, RequestShutdown, vars, Listener, ListenerHandled,
         ListenerIgnores, ListenerBuffers, ListenerEmits
    <2> QED
      BY <1>a, <2>1
  <1> QED
    BY <1>1, <1>2, <1>3, <1>4, <1>5, <1>7, <1>8, <1>9, <1>10
    DEF Next, Supervisor, Bootstrap, Environment, NewProcess, SupBeginsRestart

(* Only replays on the current runtime go on, and one at a time.             *)
LEMMA OneActive ==
  ASSUME SupReplays, BootReplays, Lives, Places, NEW p \in Replayers
  PROVE  /\ Active(p) => RuntimeOf(p) = cur
         /\ \A q \in Replayers :
              q # p /\ replay[q].stage \in Flushing \cup {"head"} /\ RuntimeOf(q) = cur => ~Active(p)
  <1>1. \A q \in Replayers : q = "boot" \/ q = "sup"
    BY DEF Replayers
  <1> QED
    BY <1>1 DEF Active, RuntimeOf, Lives, Places, SupReplays

LEMMA ActiveBefore ==
  ASSUME RuntimeType, ReplayType, SupReplays, [Next]_vars, NEW p \in Replayers, Active(p)'
  PROVE  /\ ~NewProcess
         /\ cur' = cur \/ p = "boot"
         /\ ReplayBegins(p) \/ (Active(p) /\ replay'[p].to = replay[p].to
                                /\ (~SupFinishesRestart \/ p = "boot"))
  <1>0. /\ "boot" \in Replayers /\ "sup" \in Replayers
        /\ \A q \in Replayers : replay[q] \in ReplayRecords
        /\ \A q \in Replayers : q = "boot" \/ q = "sup"
        /\ cur \in Runtimes /\ 1 \in Runtimes
    BY FreshRuntimes DEF Replayers, ReplayType, RuntimeType
  <1>a. replay'[p].stage \in Flushing
    BY DEF Active
  <1>1. ~NewProcess
    <2>1. NewProcess => replay'[p] = NoReplay
                        \/ replay'[p] = [NoReplay EXCEPT !.start = BackfillStart(saved.checkpoint)]
      BY DEF NewProcess, Restart, Crash, StartProcess
    <2> QED
      BY <1>a, <2>1 DEF NoReplay, Flushing
  <1>2. CASE SupFinishesRestart
    <2>1. sup = "aborting" /\ replay' = replay
      BY <1>2 DEF SupFinishesRestart
    <2>2. p = "boot"
      BY <1>0, <1>a, <2>1 DEF SupReplays
    <2>3. 1 # cur + 1
      BY <1>0 DEF Runtimes
    <2>4. runtime[1].shut => runtime'[1].shut
      BY <1>0, <1>2, <2>3 DEF SupFinishesRestart, RuntimeType, RuntimeRecords
    <2> QED
      BY <1>1, <1>a, <2>1, <2>2, <2>4 DEF Active, RuntimeOf
  <1>3. CASE ~SupFinishesRestart
    <2>1. cur' = cur /\ Forward
      BY <1>1, <1>3, ForwardStep
    <2>2. ~runtime[RuntimeOf(p)].shut
      BY <1>0, <2>1, RuntimeOfType DEF Active, RuntimeOf, Forward
    <2>3. ReplayBegins(p) \/ (replay[p].stage \in Flushing /\ replay'[p].to = replay[p].to)
      <3>1. CASE replay' = replay
        BY <1>a, <3>1
      <3>2. CASE ListenerSubscribed \/ SupBeginsReplay \/ CatchUpRetries
        <4>1. \/ replay' = replay
              \/ replay' = [replay EXCEPT !["boot"].stage = "head"]
              \/ replay' = [replay EXCEPT !["sup"] = [NoReplay EXCEPT !.stage = "head", !.start = pending]]
          BY <3>2 DEF ListenerSubscribed, SupBeginsReplay, CatchUpRetries
        <4>2. [NoReplay EXCEPT !.stage = "head", !.start = pending].stage = "head"
          BY DEF NoReplay
        <4> QED
          BY <1>0, <1>a, <4>1, <4>2 DEF Flushing, ReplayType, ReplayRecords
      <3>3. CASE BeginRestart \/ CheckpointFails
        BY <1>0, <1>a, <3>3 DEF BeginRestart, CheckpointFails, NoReplay, Flushing, ReplayType
      <3>4. ASSUME NEW q \in Replayers, replay' = [replay EXCEPT ![q] = Returned(q)]
            PROVE  replay[p].stage \in Flushing /\ replay'[p].to = replay[p].to
        BY <1>0, <1>a, <3>4, ReturnedFields DEF Flushing, ReplayType
      <3>5. CASE CatchUpFails
        <4>1. \/ replay' = [replay EXCEPT !["boot"] = Returned("boot")]
              \/ replay' = [replay EXCEPT !["boot"].stage = "sleep",
                                          !["boot"].start = Max(@, store.checkpoint + 1)]
          BY <3>5 DEF CatchUpFails, AfterReplay
        <4> QED
          BY <1>0, <1>a, <3>4, <4>1 DEF Flushing, ReplayType, ReplayRecords
      <3>6. ASSUME NEW q \in Replayers, Replay(q)
            PROVE  ReplayBegins(p) \/ (replay[p].stage \in Flushing /\ replay'[p].to = replay[p].to)
        <4>1. CASE ReplayCompletes(q) \/ ReplayInterrupted(q)
          BY <3>4, <4>1 DEF ReplayCompletes, ReplayInterrupted, AfterReplay
        <4>2. CASE ReplayBegins(q)
          BY <1>0, <1>a, <4>2 DEF ReplayBegins, ReplayType
        <4>3. CASE ReplayFetches(q) \/ ReplayFetchedAll(q) \/ FlushRound(q)
          BY <1>0, <1>a, <4>3 DEF ReplayFetches, ReplayFetchedAll, FlushRound, Flushing, ReplayType,
             ReplayRecords
        <4>4. CASE ReplayEmits(q)
          BY <1>0, <1>a, <4>4 DEF ReplayEmits, Flushing, ReplayType, ReplayRecords
        <4>5. CASE ReplayHandled(q)
          BY <1>0, <1>a, <4>5 DEF ReplayHandled, Flushing, ReplayType, ReplayRecords
        <4> QED
          BY <3>6, <4>1, <4>2, <4>3, <4>4, <4>5 DEF Replay
      <3> QED
        BY <1>0, <1>1, <1>3, <3>1, <3>2, <3>3, <3>4, <3>5, <3>6
        DEF Next, Listener, ListenerHandled, ListenerIgnores, ListenerBuffers, ListenerEmits,
            Supervisor, SupStarts, SupBeginsRestart, SupStops, Bootstrap, CatchUpGivesUp,
            CheckpointEstablished, Exit, NewProcess, Environment, MineBlock, ListenerFailed,
            ReconnectReplayFails, Persist, RequestShutdown, AfterReplay, vars
    <2> QED
      BY <1>1, <1>3, <2>1, <2>2, <2>3 DEF Active
  <1> QED
    BY <1>2, <1>3

LEMMA BoundsStep ==
  ASSUME RuntimeType, ReplayType, ControlType, RuntimeType', SupReplays, BootReplays, Lives, Places,
         Bounds, [Next]_vars
  PROVE  Bounds'
  <1>0. /\ cur \in Runtimes /\ 1 \in Runtimes /\ runtime \in [Runtimes -> RuntimeRecords]
        /\ \A q \in Runtimes : runtime[q] \in RuntimeRecords /\ runtime[q].threshold \in Nat
        /\ \A q \in Runtimes : runtime[q].feed \in SUBSET Items
        /\ \A q \in Runtimes : \A x \in runtime[q].feed : x[1] \in Nat
        /\ head \in Nat /\ catchupUntil \in Nat /\ cur' \in Runtimes
        /\ \A p \in Replayers : RuntimeOf(p) \in Runtimes
    <2>1. Blocks \subseteq Nat
      BY BlockArithmetic
    <2>2. head \in Nat /\ catchupUntil \in Nat
      BY <2>1 DEF ControlType
    <2>3. \A x \in Items : x[1] \in Nat
      BY <2>1 DEF Items
    <2>4. \A q \in Runtimes : runtime[q] \in RuntimeRecords
      BY DEF RuntimeType
    <2>5. \A q \in Runtimes : runtime[q].threshold \in Nat /\ runtime[q].feed \in SUBSET Items
      BY <2>1, <2>4 DEF RuntimeRecords
    <2> QED
      BY <2>2, <2>3, <2>4, <2>5, FreshRuntimes, RuntimeOfType DEF RuntimeType
  <1> DEFINE Fine(r, h) == r.threshold =< h /\ \A x \in r.feed : x[1] =< h
  <1>a. \A q \in Runtimes : Fine(runtime[q], head)
    BY DEF Bounds
  <1>b. ASSUME head' = head \/ MineBlock
        PROVE  head =< head' /\ head' \in Nat
    BY <1>0, <1>b DEF MineBlock
  <1>c. head' = head \/ MineBlock
    BY DEF Next, MineBlock, Listener, ListenerSubscribed, ListenerHandled, ListenerIgnores,
       ListenerBuffers, ListenerEmits, Supervisor, SupStarts, SupBeginsReplay, SupBeginsRestart,
       SupFinishesRestart, SupStops, Bootstrap, CatchUpGivesUp, CatchUpRetries,
       CheckpointEstablished, Exit, Restart, Environment, ListenerFailed, CatchUpFails,
       ReconnectReplayFails, CheckpointFails, Persist, RequestShutdown, Crash, Replay, ReplayBegins,
       ReplayFetches, ReplayFetchedAll, ReplayEmits, ReplayHandled, FlushRound, ReplayCompletes,
       ReplayInterrupted, vars
  <1>d. head =< head' /\ head' \in Nat
    BY <1>b, <1>c
  <1>1. catchupUntil' =< head'
    <2>1. catchupUntil' \in {catchupUntil, 0, head}
      BY DEF Next, MineBlock, Listener, ListenerSubscribed, ListenerHandled, ListenerIgnores,
         ListenerBuffers, ListenerEmits, Supervisor, SupStarts, SupBeginsReplay, SupBeginsRestart,
         SupFinishesRestart, SupStops, Bootstrap, CatchUpGivesUp, CatchUpRetries,
         CheckpointEstablished, Exit, Restart, Environment, ListenerFailed, CatchUpFails,
         ReconnectReplayFails, CheckpointFails, Persist, RequestShutdown, Crash, Replay, ReplayBegins,
         ReplayFetches, ReplayFetchedAll, ReplayEmits, ReplayHandled, FlushRound, ReplayCompletes,
         ReplayInterrupted, vars, AfterReplay, StartProcess, controlVars
    <2> QED
      BY <1>0, <1>d, <2>1 DEF Bounds
  <1> DEFINE Kept(q) == \/ runtime'[q].threshold = runtime[q].threshold
                        \/ NewProcess \/ (SupFinishesRestart /\ q = cur + 1)
                        \/ \E p \in Replayers : ReplayBegins(p) /\ q = RuntimeOf(p)
  <1>e. ASSUME NEW q \in Runtimes, runtime'[q].threshold = runtime[q].threshold,
               runtime'[q].feed \subseteq runtime[q].feed
        PROVE  Fine(runtime'[q], head') /\ Kept(q)
    BY <1>0, <1>a, <1>d, <1>e
  <1>2. \A q \in Runtimes : Fine(runtime'[q], head') /\ Kept(q)
    <2>1. CASE MineBlock
      <3>1. ASSUME NEW q \in Runtimes
            PROVE  /\ runtime'[q].threshold = runtime[q].threshold
                   /\ runtime'[q].feed \subseteq runtime[q].feed \cup {EventOf(head + 1), Completed(head)}
        BY <1>0, <2>1 DEF MineBlock, RuntimeRecords
      <3>2. head' = head + 1
        BY <2>1 DEF MineBlock
      <3> QED
        BY <1>0, <1>a, <3>1, <3>2 DEF EventOf, Completed
    <2>2. CASE SupFinishesRestart
      <3>1. runtime'[cur + 1] = NewRuntime(catchupUntil)
        BY <1>0, <2>2 DEF SupFinishesRestart
      <3>2. NewRuntime(catchupUntil).threshold = catchupUntil /\ NewRuntime(catchupUntil).feed = {}
        BY DEF NewRuntime
      <3>3. \A q \in Runtimes : q # cur + 1 =>
              runtime'[q].threshold = runtime[q].threshold /\ runtime'[q].feed = runtime[q].feed
        BY <1>0, <2>2 DEF SupFinishesRestart, RuntimeRecords
      <3>4. catchupUntil =< head'
        BY <1>0, <1>d DEF Bounds
      <3>5. Fine(runtime'[cur + 1], head')
        BY <3>1, <3>2, <3>4
      <3>6. Kept(cur + 1)
        BY <2>2
      <3>7. \A q \in Runtimes : q # cur + 1 => Fine(runtime'[q], head') /\ Kept(q)
        BY <1>e, <3>3
      <3> HIDE DEF Fine, Kept
      <3> QED
        BY <3>5, <3>6, <3>7
    <2>3. CASE NewProcess
      <3>1. \A q \in Runtimes : runtime'[q] = NewRuntime(0)
        BY <2>3 DEF NewProcess, Restart, Crash, StartProcess
      <3>2. NewRuntime(0).threshold = 0 /\ NewRuntime(0).feed = {}
        BY DEF NewRuntime
      <3>3. \A q \in Runtimes : Fine(runtime'[q], head')
        BY <1>d, <3>1, <3>2
      <3>4. \A q \in Runtimes : Kept(q)
        BY <2>3
      <3> QED
        BY <3>3, <3>4
    <2>4. ASSUME NEW p \in Replayers, ReplayBegins(p)
          PROVE  \A q \in Runtimes : Fine(runtime'[q], head') /\ Kept(q)
      <3>1. Max(runtime[RuntimeOf(p)].threshold, head) = head
        BY <1>0, <1>a DEF Max
      <3>2. /\ runtime'[RuntimeOf(p)].threshold = Max(runtime[RuntimeOf(p)].threshold, head)
            /\ runtime'[RuntimeOf(p)].feed = runtime[RuntimeOf(p)].feed
            /\ \A q \in Runtimes : q # RuntimeOf(p) => runtime'[q] = runtime[q]
        BY <1>0, <2>4 DEF ReplayBegins, RuntimeRecords
      <3>3. Fine(runtime'[RuntimeOf(p)], head')
        BY <1>0, <1>a, <1>d, <3>1, <3>2
      <3>4. Kept(RuntimeOf(p))
        BY <2>4
      <3>5. ASSUME NEW q \in Runtimes, q # RuntimeOf(p)
            PROVE  Fine(runtime'[q], head') /\ Kept(q)
        BY <1>e, <3>2, <3>5
      <3> HIDE DEF Fine, Kept
      <3> QED
        BY <3>3, <3>4, <3>5
    <2>5. ASSUME \/ Listener \/ SupBeginsRestart \/ ListenerFailed \/ RequestShutdown \/ CheckpointFails
                 \/ CatchUpFails \/ ReconnectReplayFails \/ UNCHANGED runtime
                 \/ \E p \in Replayers : ReplayCompletes(p) \/ ReplayInterrupted(p) \/ FlushRound(p)
          PROVE  \A q \in Runtimes : Fine(runtime'[q], head') /\ Kept(q)
      <3>1. CASE Listener
        <4>1. CASE ListenerSubscribed \/ ListenerHandled
          BY <1>0, <1>e, <4>1 DEF ListenerSubscribed, ListenerHandled, RuntimeRecords
        <4>2. ASSUME NEW x \in Items, ListenerIgnores(x) \/ ListenerBuffers(x) \/ ListenerEmits(x)
              PROVE  \A q \in Runtimes : Fine(runtime'[q], head') /\ Kept(q)
          <5>1. \A q \in Runtimes : /\ runtime'[q].threshold = runtime[q].threshold
                                    /\ runtime'[q].feed \subseteq runtime[q].feed
            BY <1>0, <4>2 DEF ListenerIgnores, ListenerBuffers, ListenerEmits, RuntimeRecords
          <5> QED
            BY <1>e, <5>1
        <4> QED
          BY <3>1, <4>1, <4>2 DEF Listener
      <3>2. CASE SupBeginsRestart \/ ListenerFailed \/ RequestShutdown \/ CheckpointFails
        BY <1>0, <1>e, <3>2 DEF SupBeginsRestart, ListenerFailed, RequestShutdown, CheckpointFails,
           RuntimeRecords
      <3>3. CASE CatchUpFails \/ ReconnectReplayFails
        BY <1>0, <1>e, <3>3 DEF CatchUpFails, ReconnectReplayFails, StopBuffering, RuntimeRecords
      <3>4. ASSUME NEW p \in Replayers, ReplayCompletes(p) \/ ReplayInterrupted(p) \/ FlushRound(p)
            PROVE  \A q \in Runtimes : Fine(runtime'[q], head') /\ Kept(q)
        <4>1. \A q \in Runtimes : /\ runtime'[q].threshold = runtime[q].threshold
                                  /\ runtime'[q].feed \subseteq runtime[q].feed
          BY <1>0, <3>4 DEF ReplayCompletes, ReplayInterrupted, FlushRound, StopBuffering,
             RuntimeRecords
        <4> QED
          BY <1>e, <4>1
      <3> QED
        BY <1>e, <2>5, <3>1, <3>2, <3>3, <3>4
    <2> QED
      BY <2>1, <2>2, <2>3, <2>4, <2>5
      DEF Next, Supervisor, SupStarts, SupBeginsReplay, SupStops, Bootstrap, CatchUpGivesUp,
          CatchUpRetries, CheckpointEstablished, Exit, NewProcess, Environment, Persist, Replay,
          ReplayFetches, ReplayFetchedAll, ReplayEmits, ReplayHandled, runtimeVars, vars
  <1>3. ASSUME NEW p \in Replayers, Active(p)'
        PROVE  (runtime[RuntimeOf(p)].threshold =< replay[p].to)'
    <2>1. CASE ReplayBegins(p)
      <3>1. /\ cur' = cur /\ replay'[p].to = head
            /\ runtime'[RuntimeOf(p)].threshold = Max(runtime[RuntimeOf(p)].threshold, head)
        BY <1>0, <2>1 DEF ReplayBegins, RuntimeRecords, ReplayType, ReplayRecords
      <3>2. Max(runtime[RuntimeOf(p)].threshold, head) = head
        BY <1>0, <1>a DEF Max
      <3> QED
        BY <1>0, <3>1, <3>2 DEF RuntimeOf
    <2>2. CASE ~ReplayBegins(p)
      <3>1. /\ Active(p) /\ replay'[p].to = replay[p].to /\ ~NewProcess
            /\ cur' = cur \/ p = "boot"
            /\ ~SupFinishesRestart \/ p = "boot"
        BY <1>3, <2>2, ActiveBefore
      <3>2. RuntimeOf(p)' = RuntimeOf(p)
        BY <3>1 DEF RuntimeOf
      <3>3. runtime'[RuntimeOf(p)].threshold = runtime[RuntimeOf(p)].threshold
        <4>1. RuntimeOf(p) = cur
          BY <3>1, OneActive
        <4>2. ~ \E q \in Replayers : ReplayBegins(q) /\ RuntimeOf(p) = RuntimeOf(q)
          BY <2>2, <3>1, <4>1, OneActive DEF ReplayBegins
        <4>3. cur # cur + 1
          BY <1>0 DEF Runtimes
        <4> QED
          BY <1>0, <1>2, <3>1, <4>1, <4>2, <4>3
      <3> QED
        BY <3>1, <3>2, <3>3 DEF Bounds
    <2> QED
      BY <2>1, <2>2
  <1> QED
    BY <1>1, <1>2, <1>3 DEF Bounds

-----------------------------------------------------------------------------
(* No gap.  Owing(k, S): of the blocks up to k whose events are promised,    *)
(* those not handled yet are in S.  Unless a replay was overtaken,           *)
(*   - nothing is owing up to a checkpoint, to a block marker that is being  *)
(*     handled, or to the start of a replay;                                 *)
(*   - a replay on the current runtime holds or will fetch what is owing up  *)
(*     to each marker it holds or buffered, and, with what the live          *)
(*     subscription delivered, up to the head;                               *)
(*   - with no replay owed, the live subscription holds what is owing.       *)
Owing(k, S) == \A b \in Blocks : base < b /\ b =< k => b \in store.handled \cup S

EventsIn(I) == {b \in Blocks : EventOf(b) \in I}
Pend(p) == EventsIn(replay[p].todo \cup {replay[p].handling})
Rest(p) == {b \in Blocks : replay[p].next =< b /\ b =< replay[p].to}
Buf     == EventsIn(runtime[cur].buffer)
Fed     == EventsIn(runtime[cur].feed \cup {runtime[cur].handling})

StoreDone == Owing(store.checkpoint, {})
SavedDone == \A b \in Blocks : base < b /\ b =< saved.checkpoint => b \in saved.handled

HandlingDone ==
  /\ runtime[cur].handling[2] = 1 => Owing(runtime[cur].handling[1], {})
  /\ \A p \in Replayers : replay[p].handling[2] = 1 => Owing(replay[p].handling[1], {})

StartsDone ==
  /\ \A p \in Replayers : replay[p].start # 0 => Owing(replay[p].start - 1, {})
  /\ pending # 0 => Owing(pending - 1, {})

HeldBy(p) ==
  /\ Owing(replay[p].next - 1, Pend(p))
  /\ \A x \in replay[p].todo : x[2] = 1 => Owing(x[1], Pend(p))
  /\ \A x \in runtime[cur].buffer : x[2] = 1 => Owing(x[1], Pend(p) \cup Buf \cup Rest(p))
  /\ runtime[cur].phase = "live" => Owing(head, Pend(p) \cup Buf \cup Rest(p) \cup Fed)

ReplayDone == \A p \in Replayers : Active(p) => HeldBy(p)

LiveDone ==
  ListenerRuns /\ ~ReplayOwed /\ ~runtime[cur].shut /\ runtime[cur].phase = "live"
    => Owing(head, Fed) /\ Owing(runtime[cur].threshold, {})

(* A configured BLOCK_FROM is where history is promised from.                *)
BlockFromBase == BlockFrom \in Nat \ {0} => BlockFrom =< base + 1

StructInv ==
  /\ BlockFromBase
  /\ RuntimeType /\ ReplayType /\ ControlType /\ FlagType
  /\ SupReplays /\ BootReplays /\ Lives /\ Places /\ ReplayShape /\ Bounds

(* Events and markers.                                                       *)
LEMMA ItemFacts ==
  /\ \A x \in Items : x[1] \in Blocks /\ x[2] \in {0, 1}
  /\ \A x \in Items : x[2] = 0 => x = EventOf(x[1])
  /\ \A x \in Items : x[2] = 1 => \A b \in Blocks : EventOf(b) # x
  /\ \A x \in Items : \A b \in Blocks : x = EventOf(b) => x[1] = b /\ x[2] = 0
  /\ \A b \in Blocks : EventOf(b) # NoItem
  /\ NoItem[2] = 0 /\ NoItem \notin Items
  /\ \A b \in Blocks : b \in Nat
  <1>1. MaxBlock \in Nat /\ \A b \in Blocks : b \in Nat /\ b # MaxBlock + 1
    BY ChainAssumption DEF Blocks
  <1>2. \A x \in Items : /\ x = <<x[1], x[2]>> /\ x[1] \in Blocks /\ x[2] \in {0, 1}
    BY DEF Items
  <1>3. NoItem[1] = MaxBlock + 1 /\ NoItem[2] = 0
    BY DEF NoItem
  <1>4. NoItem \notin Items
    BY <1>1, <1>2, <1>3
  <1>5. \A b \in Blocks : EventOf(b)[1] = b /\ EventOf(b)[2] = 0
    BY DEF EventOf
  <1>6. \A b \in Blocks : EventOf(b) # NoItem
    BY <1>1, <1>3, <1>5
  <1>7. \A x \in Items : x[2] = 0 => x = EventOf(x[1])
    BY <1>2 DEF EventOf
  <1> QED
    BY <1>1, <1>2, <1>3, <1>4, <1>5, <1>6, <1>7

(* What is owing only shrinks, as events are handled, while the process runs.*)
Grows == base =< base' /\ store.handled \subseteq store'.handled

LEMMA GrowsStep ==
  ASSUME ControlType, RuntimeType, ReplayType, [Next]_vars, ~NewProcess
  PROVE  Grows /\ base \in Nat /\ base' \in Nat
  <1>0. base \in Nat /\ head \in Nat /\ store \in Stores
    BY DEF ControlType
  <1>a. Max(base, head) \in Nat /\ base =< Max(base, head)
    BY <1>0 DEF Max
  <1>1. base' = base \/ base' = Max(base, head)
    BY DEF Next, MineBlock, Listener, ListenerSubscribed, ListenerHandled, ListenerIgnores,
       ListenerBuffers, ListenerEmits, Supervisor, SupStarts, SupBeginsReplay, SupBeginsRestart,
       SupFinishesRestart, SupStops, Bootstrap, CatchUpGivesUp, CatchUpRetries,
       CheckpointEstablished, Exit, Restart, Environment, ListenerFailed, CatchUpFails,
       ReconnectReplayFails, CheckpointFails, Persist, RequestShutdown, Crash, Replay, ReplayBegins,
       ReplayFetches, ReplayFetchedAll, ReplayEmits, ReplayHandled, FlushRound, ReplayCompletes,
       ReplayInterrupted, vars, historyVars
  <1>b. \A x : Handle(store, x).handled \in {store.handled, store.handled \cup {x[1]}}
    <2>1. ASSUME NEW x, x[2] = 0
          PROVE  Handle(store, x).handled = store.handled \cup {x[1]}
      BY <1>0, <2>1 DEF Handle, Stores
    <2>2. ASSUME NEW x, x[2] # 0
          PROVE  Handle(store, x).handled = store.handled
      BY <1>0, <2>2 DEF Handle, Stores
    <2> QED
      BY <2>1, <2>2
  <1>2. store.handled \subseteq store'.handled
    <2>1. \/ store' = store
          \/ \E x : store' = Handle(store, x)
          \/ store' = [store EXCEPT !.checkpoint = head - 1]
      BY DEF Next, MineBlock, Listener, ListenerSubscribed, ListenerHandled, ListenerIgnores,
         ListenerBuffers, ListenerEmits, Supervisor, SupStarts, SupBeginsReplay, SupBeginsRestart,
         SupFinishesRestart, SupStops, Bootstrap, CatchUpGivesUp, CatchUpRetries,
         CheckpointEstablished, Exit, NewProcess, Environment, ListenerFailed, CatchUpFails,
         ReconnectReplayFails, CheckpointFails, Persist, RequestShutdown, Replay, ReplayBegins,
         ReplayFetches, ReplayFetchedAll, ReplayEmits, ReplayHandled, FlushRound, ReplayCompletes,
         ReplayInterrupted, vars, storeVars
    <2>2. [store EXCEPT !.checkpoint = head - 1].handled = store.handled
      BY <1>0 DEF Stores
    <2> QED
      BY <1>b, <2>1, <2>2
  <1> QED
    BY <1>0, <1>a, <1>1, <1>2 DEF Grows

(* A replay that goes on after a step, on the runtime that was current.      *)
LEMMA ActiveStep ==
  ASSUME StructInv, [Next]_vars, NEW p \in Replayers, Active(p)'
  PROVE  /\ ~NewProcess /\ ~SupFinishesRestart /\ cur' = cur
         /\ ReplayBegins(p) \/ (Active(p) /\ RuntimeOf(p) = cur)
  <1> USE DEF StructInv
  <1>1. ~NewProcess /\ (ReplayBegins(p) \/ Active(p))
    BY ActiveBefore
  <1>2. Active(p) => RuntimeOf(p) = cur
    BY OneActive
  <1>3. ~SupFinishesRestart
    BY <1>1, <1>2 DEF SupFinishesRestart, ReplayBegins, Active, Lives
  <1> QED
    BY <1>1, <1>2, <1>3, ForwardStep

(* The other task's replay touches neither this one nor its runtime.         *)
LEMMA OtherReplay ==
  ASSUME StructInv, NEW p \in Replayers, NEW q \in Replayers, q # p, Active(p),
         Replay(q) \/ (q = "boot" /\ (CatchUpGivesUp \/ CatchUpRetries \/ CatchUpFails))
  PROVE  runtime'[cur] = runtime[cur] /\ replay'[p] = replay[p] /\ cur' = cur
  <1> USE DEF StructInv
  <1>0. /\ cur \in Runtimes /\ 1 \in Runtimes /\ runtime \in [Runtimes -> RuntimeRecords]
        /\ "boot" \in Replayers /\ "sup" \in Replayers
        /\ p \in {"boot", "sup"} /\ q \in {"boot", "sup"}
    BY FreshRuntimes DEF RuntimeType, Replayers
  <1>1. RuntimeOf(p) = cur
    BY OneActive
  <1>2. p = "sup" /\ q = "boot" /\ cur # 1
    <2>1. p = "sup" => cur # 1
      BY DEF Active, SupReplays, Places
    <2>2. ASSUME p = "boot"
          PROVE  FALSE
      <3>1. q = "sup" /\ Replay("sup") /\ cur = 1
        BY <1>0, <1>1, <2>2 DEF RuntimeOf
      <3>2. replay["sup"].stage \in Flushing \cup {"head"}
        BY <1>0, <3>1 DEF Replay, ReplayBegins, ReplayFetches, ReplayFetchedAll, ReplayEmits,
           ReplayHandled, FlushRound, ReplayCompletes, ReplayInterrupted, Flushing, ReplayShape
      <3> QED
        BY <3>1, <3>2 DEF SupReplays, Places
    <2> QED
      BY <1>0, <2>1, <2>2
  <1>3. RuntimeOf(q) = 1
    BY <1>2 DEF RuntimeOf
  <1>4. ~ReplayBegins("boot")
    BY <1>2, <1>3 DEF ReplayBegins
  <1>5. replay'["sup"] = replay["sup"]
    <2>1. CASE Replay("boot")
      BY <1>0, <2>1 DEF Replay, ReplayBegins, ReplayFetches, ReplayFetchedAll, ReplayEmits,
         ReplayHandled, FlushRound, ReplayCompletes, ReplayInterrupted, AfterReplay, ReplayType
    <2>2. CASE CatchUpGivesUp \/ CatchUpRetries \/ CatchUpFails
      BY <1>0, <2>2 DEF CatchUpGivesUp, CatchUpRetries, CatchUpFails, AfterReplay, ReplayType
    <2> QED
      BY <1>2, <2>1, <2>2
  <1>6. runtime'[cur] = runtime[cur] /\ cur' = cur
    <2>1. CASE Replay("boot")
      BY <1>0, <1>2, <1>3, <1>4, <2>1 DEF Replay, ReplayFetches, ReplayFetchedAll, ReplayEmits,
         ReplayHandled, FlushRound, ReplayCompletes, ReplayInterrupted, StopBuffering, runtimeVars
    <2>2. CASE CatchUpGivesUp \/ CatchUpRetries \/ CatchUpFails
      BY <1>0, <1>2, <2>2 DEF CatchUpGivesUp, CatchUpRetries, CatchUpFails, StopBuffering, runtimeVars
    <2> QED
      BY <1>2, <2>1, <2>2
  <1> QED
    BY <1>2, <1>5, <1>6

(* A step that leaves a replay and the current runtime alone.                *)
LEMMA HeldKept ==
  ASSUME ControlType, Grows, base \in Nat, base' \in Nat, NEW p \in Replayers, HeldBy(p),
         cur' = cur, head' = head, replay'[p] = replay[p], runtime'[cur] = runtime[cur]
  PROVE  HeldBy(p)'
  <1>0. \A b \in Blocks : b \in Nat
    BY ItemFacts
  <1>1. Pend(p)' = Pend(p) /\ Rest(p)' = Rest(p) /\ Buf' = Buf /\ Fed' = Fed
    BY DEF Pend, Rest, Buf, Fed
  <1>2. \A k, S : Owing(k, S) => \A b \in Blocks : base' < b /\ b =< k => b \in store'.handled \cup S
    BY <1>0 DEF Owing, Grows
  <1> QED
    BY <1>1, <1>2 DEF HeldBy, Owing

LEMMA StructInit == Init => IInv /\ StructInv
  <1> SUFFICES ASSUME Init
               PROVE  IInv /\ StructInv
    OBVIOUS
  <1>0. /\ cur = 1 /\ sup = "start" /\ boot = "waiting" /\ stopping = FALSE /\ pending = 0
        /\ "boot" \in Replayers /\ "sup" \in Replayers /\ 1 \in Runtimes
        /\ catchupUntil = 0 /\ head = InitialHead
    BY FreshRuntimes DEF Init, Replayers
  <1>1. \A r \in Runtimes : /\ runtime[r].phase = "idle" /\ runtime[r].threshold = 0
                            /\ runtime[r].feed = {}
    BY DEF Init, NewRuntime
  <1>2. \A p \in Replayers : /\ replay[p].stage = "off" /\ replay[p].todo = {}
                             /\ replay[p].handling = NoItem
    BY DEF Init, NoReplay
  <1>3. IInv /\ RuntimeType /\ ReplayType /\ ControlType /\ FlagType
    BY InvInit, TypeParts DEF IInv
  <1>4. SupReplays /\ BootReplays
    BY <1>0, <1>2 DEF SupReplays, BootReplays, Flushing
  <1>5. Lives /\ Places /\ ReplayShape
    BY <1>0, <1>1, <1>2 DEF Lives, Places, ReplayShape
  <1>6. Bounds
    BY <1>0, <1>1, <1>2, ChainAssumption DEF Bounds, Active, Flushing
  <1>7. BlockFromBase
    BY BlockFromAssumption DEF Init, BackfillStart, BlockFromBase
  <1> QED
    BY <1>3, <1>4, <1>5, <1>6, <1>7 DEF StructInv

LEMMA StructStep ==
  ASSUME IInv, StructInv, [Next]_vars
  PROVE  IInv' /\ StructInv'
  <1> USE DEF StructInv
  <1>1. IInv'
    BY InvStep
  <1>2. RuntimeType' /\ ReplayType' /\ ControlType' /\ FlagType'
    BY <1>1 DEF IInv, TypeOK, RuntimeType, ReplayType, ControlType, FlagType
  <1>3. FailuresCovered
    BY DEF IInv
  <1>4. SupReplays' /\ BootReplays'
    BY <1>3, SupReplaysStep, BootReplaysStep
  <1>5. Lives' /\ Places' /\ ReplayShape' /\ Bounds'
    BY <1>2, LivesStep, PlacesStep, ReplayShapeStep, BoundsStep
  <1>6. BlockFromBase'
    <2>1. CASE NewProcess
      BY <2>1 DEF NewProcess, Restart, Crash, historyVars, BlockFromBase
    <2>2. CASE ~NewProcess
      BY <2>2, GrowsStep, BlockFromAssumption DEF Grows, BlockFromBase
    <2> QED
      BY <2>1, <2>2
  <1> QED
    BY <1>1, <1>2, <1>4, <1>5, <1>6

Gapless == StoreDone /\ SavedDone /\ HandlingDone /\ StartsDone /\ ReplayDone /\ LiveDone

LEMMA OwingShrinks ==
  ASSUME ControlType, Grows, base \in Nat, base' \in Nat
  PROVE  \A k, S : Owing(k, S) => \A b \in Blocks : base' < b /\ b =< k => b \in store'.handled \cup S
  <1>0. \A b \in Blocks : b \in Nat
    BY ItemFacts
  <1> QED
    BY <1>0 DEF Owing, Grows

(* What a handled item leaves in bot_data keeps its checkpoint justified.    *)
LEMMA HandleKeepsStore ==
  ASSUME ControlType, StoreDone, NEW x \in Items, x[2] = 1 => Owing(x[1], {}),
         store' = Handle(store, x), base' = base
  PROVE  StoreDone'
  <1>0. /\ \A b \in Blocks : b \in Nat
        /\ store \in Stores /\ store.checkpoint \in Nat /\ x[1] \in Nat /\ base \in Nat
    <2>1. \A b \in Blocks : b \in Nat
      BY ItemFacts
    <2>2. store \in Stores /\ store.checkpoint \in Blocks /\ base \in Nat
      BY DEF ControlType, Stores
    <2>3. x[1] \in Blocks
      BY ItemFacts
    <2> QED
      BY <2>1, <2>2, <2>3
  <1>1. CASE x[2] = 0
    <2>1. store'.checkpoint = store.checkpoint /\ store.handled \subseteq store'.handled
      BY <1>0, <1>1 DEF Handle, Stores
    <2> QED
      BY <1>0, <2>1 DEF StoreDone, Owing
  <1>2. CASE x[2] = 1
    <2>1. store'.checkpoint = Max(store.checkpoint, x[1]) /\ store'.handled = store.handled
      BY <1>0, <1>2 DEF Handle, Stores
    <2>2. \A b \in Nat : b =< Max(store.checkpoint, x[1]) => b =< store.checkpoint \/ b =< x[1]
      BY <1>0 DEF Max
    <2> QED
      BY <1>0, <1>2, <2>1, <2>2 DEF StoreDone, Owing
  <1> QED
    BY <1>1, <1>2, ItemFacts

LEMMA StoreStepDone ==
  ASSUME StructInv, StoreDone, SavedDone, HandlingDone, [Next]_vars
  PROVE  StoreDone' /\ SavedDone'
  <1> USE DEF StructInv
  <1>0. /\ \A b \in Blocks : b \in Nat
        /\ base \in Nat /\ store \in Stores
        /\ runtime[cur] \in RuntimeRecords
        /\ \A p \in Replayers : replay[p] \in ReplayRecords
    BY ItemFacts DEF ControlType, RuntimeType, ReplayType
  <1>1. CASE NewProcess
    <2>1. store' = saved /\ saved' = saved /\ base' = base
      BY <1>1 DEF NewProcess, Restart, Crash, StartProcess, historyVars
    <2> QED
      BY <2>1 DEF SavedDone, StoreDone, Owing
  <1>2. CASE CheckpointEstablished
    <2>1. /\ store'.checkpoint = head - 1 /\ saved' = store' /\ base' = Max(base, head)
      BY <1>0, <1>2 DEF CheckpointEstablished, Stores
    <2>2. head \in Nat
      BY DEF ControlType
    <2>3. base' \in Nat /\ head =< base'
      BY <1>0, <2>1, <2>2 DEF Max
    <2>4. \A b \in Blocks : ~(base' < b /\ b =< store'.checkpoint)
      BY <1>0, <2>1, <2>2, <2>3
    <2> QED
      BY <2>1, <2>4 DEF SavedDone, StoreDone, Owing
  <1>3. ASSUME NEW x \in Items, store' = Handle(store, x), x[2] = 1 => Owing(x[1], {}),
               base' = base, saved' = saved
        PROVE  StoreDone' /\ SavedDone'
    BY <1>3, HandleKeepsStore DEF SavedDone
  <1>4. CASE ListenerHandled
    <2>1. runtime[cur].handling \in Items
      BY <1>0, <1>4 DEF ListenerHandled, RuntimeRecords
    <2> QED
      BY <1>3, <1>4, <2>1 DEF ListenerHandled, HandlingDone, historyVars
  <1>5. ASSUME NEW p \in Replayers, ReplayHandled(p)
        PROVE  StoreDone' /\ SavedDone'
    <2>1. replay[p].handling \in Items
      BY <1>0, <1>5 DEF ReplayHandled, ReplayRecords
    <2> QED
      BY <1>3, <1>5, <2>1 DEF ReplayHandled, HandlingDone, historyVars
  <1>6. ASSUME store' = store, saved' \in {saved, store}, ~NewProcess
        PROVE  StoreDone' /\ SavedDone'
    <2>1. Grows /\ base' \in Nat
      BY <1>6, GrowsStep
    <2> QED
      BY <1>0, <1>6, <2>1 DEF StoreDone, SavedDone, Owing, Grows
  <1>7. \/ NewProcess \/ CheckpointEstablished \/ ListenerHandled
        \/ \E p \in Replayers : ReplayHandled(p)
        \/ (store' = store /\ saved' \in {saved, store})
    BY DEF Next, MineBlock, Listener, ListenerSubscribed, ListenerIgnores,
       ListenerBuffers, ListenerEmits, Supervisor, SupStarts, SupBeginsReplay, SupBeginsRestart,
       SupFinishesRestart, SupStops, Bootstrap, CatchUpGivesUp, CatchUpRetries,
       Exit, NewProcess, Environment, ListenerFailed, CatchUpFails,
       ReconnectReplayFails, CheckpointFails, Persist, RequestShutdown, Replay, ReplayBegins,
       ReplayFetches, ReplayFetchedAll, ReplayEmits, FlushRound, ReplayCompletes,
       ReplayInterrupted, vars, storeVars
  <1> QED
    BY <1>1, <1>2, <1>4, <1>5, <1>6, <1>7

(* A live marker that is let through while no replay is owed finds all       *)
(* earlier events handled; so does a marker that a replay passes on.         *)
LEMMA LiveMarker ==
  ASSUME StructInv, StoreDone, LiveDone, NEW x \in Items, ListenerEmits(x), x[2] = 1, ~overtaken'
  PROVE  Owing(x[1], {})
  <1> USE DEF StructInv
  <1>0. /\ \A b \in Blocks : b \in Nat
        /\ head \in Nat /\ store.checkpoint \in Nat /\ x[1] \in Nat
        /\ cur \in Runtimes /\ runtime[cur] \in RuntimeRecords
    <2>1. \A b \in Blocks : b \in Nat
      BY ItemFacts
    <2>2. head \in Nat /\ store.checkpoint \in Blocks
      BY DEF ControlType, Stores
    <2>3. x[1] \in Blocks
      BY ItemFacts
    <2> QED
      BY <2>1, <2>2, <2>3 DEF RuntimeType
  <1>1. ~(ReplayOwed /\ x[1] > store.checkpoint)
    BY DEF ListenerEmits
  <1>2. CASE x[1] =< store.checkpoint
    BY <1>0, <1>2 DEF StoreDone, Owing
  <1>3. CASE x[1] > store.checkpoint
    <2>1. /\ ListenerRuns /\ ~runtime[cur].shut /\ runtime[cur].phase = "live"
          /\ runtime[cur].handling = NoItem /\ x \in Deliverable(runtime[cur].feed)
      BY DEF ListenerEmits, Takes, Ignored
    <2>2. Owing(head, Fed)
      BY <1>1, <1>3, <2>1 DEF LiveDone
    <2>3. x[1] =< head
      BY <1>0, <2>1 DEF Bounds, Deliverable
    <2>4. ASSUME NEW b \in Blocks, b =< x[1]
          PROVE  b \notin Fed
      <3>1. EventOf(b) # NoItem
        BY ItemFacts
      <3>2. EventOf(b) \notin runtime[cur].feed
        BY <1>0, <2>1, <2>4 DEF Deliverable, Arrival, EventOf
      <3> QED
        BY <2>1, <3>1, <3>2 DEF Fed, EventsIn
    <2> QED
      BY <1>0, <2>2, <2>3, <2>4 DEF Owing
  <1> QED
    BY <1>0, <1>2, <1>3

LEMMA ReplayMarker ==
  ASSUME StructInv, ReplayDone, NEW p \in Replayers, ReplayEmits(p),
         replay'[p].handling[2] = 1
  PROVE  Owing(replay'[p].handling[1], {})
  <1> USE DEF StructInv
  <1>0. /\ \A b \in Blocks : b \in Nat
        /\ replay[p] \in ReplayRecords /\ replay[p].todo \subseteq Items
    BY ItemFacts DEF ReplayType, ReplayRecords
  <1>1. PICK x \in First(replay[p].todo) : replay'[p].handling = x
    BY <1>0 DEF ReplayEmits, ReplayType, ReplayRecords
  <1>2. HeldBy(p) /\ replay[p].handling = NoItem
    BY DEF ReplayEmits, ReplayDone, Active, Flushing
  <1>3. /\ x \in replay[p].todo /\ x \in Items /\ x[2] = 1 /\ x[1] \in Nat
        /\ \A y \in replay[p].todo : Before(x, y)
    BY <1>0, <1>1, ItemFacts DEF First
  <1>4. Owing(x[1], Pend(p))
    BY <1>2, <1>3 DEF HeldBy
  <1>5. ASSUME NEW b \in Blocks, b =< x[1]
        PROVE  b \notin Pend(p)
    <2>1. EventOf(b) # NoItem
      BY ItemFacts
    <2>2. EventOf(b) \notin replay[p].todo
      BY <1>0, <1>3, <1>5 DEF Before, EventOf
    <2> QED
      BY <1>2, <2>1, <2>2 DEF Pend, EventsIn
  <1> QED
    BY <1>1, <1>4, <1>5 DEF Owing

(* What the current listener, and each replay, are handling after a step.    *)
LEMMA ListenerHandles ==
  ASSUME StructInv, RuntimeType', [Next]_vars
  PROVE  \/ runtime'[cur'].handling = NoItem
         \/ ~NewProcess /\ runtime'[cur'].handling = runtime[cur].handling
         \/ \E x \in Items : ListenerEmits(x) /\ runtime'[cur'].handling = x
  <1> USE DEF StructInv
  <1>0. /\ cur \in Runtimes /\ 1 \in Runtimes /\ runtime \in [Runtimes -> RuntimeRecords]
        /\ runtime[cur] \in RuntimeRecords
        /\ \A q \in Runtimes : runtime[q] \in RuntimeRecords
        /\ \A p \in Replayers : RuntimeOf(p) \in Runtimes
    BY FreshRuntimes, RuntimeOfType DEF RuntimeType
  <1> DEFINE Same == cur' = cur /\ runtime'[cur].handling = runtime[cur].handling
  <1>1. CASE NewProcess
    <2>1. runtime' = [r \in Runtimes |-> NewRuntime(0)] /\ cur' = 1
      BY <1>1 DEF NewProcess, Restart, Crash, StartProcess
    <2> QED
      BY <1>0, <2>1 DEF NewRuntime
  <1>2. CASE SupFinishesRestart
    <2>1. /\ cur' = cur + 1
          /\ runtime' = [runtime EXCEPT ![cur].handling = NoItem, ![cur + 1] = NewRuntime(catchupUntil)]
      BY <1>2 DEF SupFinishesRestart
    <2>2. cur + 1 # cur /\ cur + 1 \in Runtimes
      BY <1>0, <2>1 DEF RuntimeType, Runtimes
    <2> QED
      BY <1>0, <2>1, <2>2 DEF NewRuntime
  <1>3. CASE ListenerHandled \/ CheckpointFails
    <2>1. cur' = cur /\ runtime'[cur].handling = NoItem
      BY <1>0, <1>3 DEF ListenerHandled, CheckpointFails, RuntimeRecords
    <2> QED
      BY <2>1
  <1>4. ASSUME NEW x \in Items, ListenerEmits(x)
        PROVE  cur' = cur /\ runtime'[cur].handling = x
    BY <1>0, <1>4 DEF ListenerEmits, RuntimeRecords
  <1>5. ASSUME Same, ~NewProcess
        PROVE  runtime'[cur'].handling = runtime[cur].handling
    BY <1>5
  <1>6. ASSUME ListenerSubscribed \/ ListenerFailed \/ \E x \in Items : ListenerIgnores(x) \/ ListenerBuffers(x)
        PROVE  Same
    <2>1. CASE ListenerSubscribed \/ ListenerFailed
      BY <1>0, <2>1 DEF ListenerSubscribed, ListenerFailed, RuntimeRecords
    <2>2. ASSUME NEW x \in Items, ListenerIgnores(x) \/ ListenerBuffers(x)
          PROVE  Same
      BY <1>0, <2>2 DEF ListenerIgnores, ListenerBuffers, RuntimeRecords
    <2> QED
      BY <1>6, <2>1, <2>2
  <1>7. ASSUME MineBlock
        PROVE  Same
    BY <1>0, <1>7 DEF MineBlock, RuntimeRecords
  <1>8. ASSUME \E p \in Replayers : ReplayBegins(p) \/ FlushRound(p) \/ ReplayCompletes(p) \/ ReplayInterrupted(p)
        PROVE  Same
    BY <1>0, <1>8 DEF ReplayBegins, FlushRound, ReplayCompletes, ReplayInterrupted, StopBuffering,
       RuntimeRecords
  <1>9. ASSUME CatchUpFails \/ ReconnectReplayFails \/ SupBeginsRestart \/ RequestShutdown
        PROVE  Same
    BY <1>0, <1>9 DEF CatchUpFails, ReconnectReplayFails, SupBeginsRestart, RequestShutdown,
       StopBuffering, RuntimeRecords
  <1>10. Same \/ NewProcess \/ SupFinishesRestart \/ ListenerHandled \/ CheckpointFails
         \/ \E x \in Items : ListenerEmits(x)
    <2>1. UNCHANGED <<runtime, cur>> => Same
      OBVIOUS
    <2> HIDE DEF Same
    <2> QED
      BY <1>6, <1>7, <1>8, <1>9, <2>1 DEF Next, Listener, Supervisor, SupStarts, SupBeginsReplay, SupStops, Bootstrap,
       CatchUpGivesUp, CatchUpRetries, CheckpointEstablished, Exit, NewProcess, Environment, Persist,
       Replay, ReplayFetches, ReplayFetchedAll, ReplayEmits, ReplayHandled, vars, runtimeVars
  <1> QED
    BY <1>1, <1>2, <1>3, <1>4, <1>5, <1>10

LEMMA ReplayHandles ==
  ASSUME StructInv, [Next]_vars, NEW p \in Replayers
  PROVE  \/ replay'[p].handling = NoItem
         \/ ~NewProcess /\ replay'[p].handling = replay[p].handling
         \/ ReplayEmits(p)
  <1> USE DEF StructInv
  <1>0. /\ "boot" \in Replayers /\ "sup" \in Replayers
        /\ \A q \in Replayers : replay[q] \in ReplayRecords
        /\ replay \in [Replayers -> ReplayRecords]
    BY DEF Replayers, ReplayType
  <1>a. NoReplay.handling = NoItem /\ \A n : [NoReplay EXCEPT !.start = n].handling = NoItem
        /\ \A m : [NoReplay EXCEPT !.stage = "head", !.start = m].handling = NoItem
    BY DEF NoReplay
  <1>1. CASE NewProcess
    <2>1. \/ replay'[p] = NoReplay
          \/ replay'[p] = [NoReplay EXCEPT !.start = BackfillStart(saved.checkpoint)]
      BY <1>1 DEF NewProcess, Restart, Crash, StartProcess
    <2> QED
      BY <1>a, <2>1
  <1>3. ASSUME NEW q \in Replayers, replay' = [replay EXCEPT ![q] = Returned(q)]
        PROVE  replay'[p].handling = replay[p].handling
    BY <1>0, <1>3, ReturnedFields
  <1>5. ASSUME CatchUpFails
        PROVE  replay'[p].handling = replay[p].handling
    <2>1. \/ replay' = [replay EXCEPT !["boot"] = Returned("boot")]
          \/ replay' = [replay EXCEPT !["boot"].stage = "sleep",
                                      !["boot"].start = Max(@, store.checkpoint + 1)]
      BY <1>5 DEF CatchUpFails, AfterReplay
    <2>2. CASE replay' = [replay EXCEPT !["boot"].stage = "sleep",
                                        !["boot"].start = Max(@, store.checkpoint + 1)]
      BY <1>0, <2>2 DEF ReplayRecords
    <2> QED
      BY <1>0, <1>3, <2>1, <2>2
  <1>6. ASSUME NEW q \in Replayers, ReplayBegins(q) \/ ReplayFetches(q) \/ ReplayFetchedAll(q) \/ FlushRound(q)
        PROVE  replay'[p].handling = replay[p].handling
    BY <1>0, <1>6 DEF ReplayBegins, ReplayFetches, ReplayFetchedAll, FlushRound, ReplayRecords
  <1>7. ASSUME NEW q \in Replayers, ReplayEmits(q), q # p
        PROVE  replay'[p].handling = replay[p].handling
    BY <1>0, <1>7 DEF ReplayEmits
  <1>8. ASSUME NEW q \in Replayers, ReplayHandled(q)
        PROVE  replay'[p].handling \in {NoItem, replay[p].handling}
    BY <1>0, <1>8 DEF ReplayHandled, ReplayRecords
  <1>9. ASSUME NEW q \in Replayers, Replay(q)
        PROVE  \/ replay'[p].handling \in {NoItem, replay[p].handling}
               \/ ReplayEmits(p)
    <2>1. CASE ReplayCompletes(q) \/ ReplayInterrupted(q)
      BY <1>3, <2>1 DEF ReplayCompletes, ReplayInterrupted, AfterReplay
    <2> QED
      BY <1>6, <1>7, <1>8, <1>9, <2>1 DEF Replay
  <1>10. ASSUME ~NewProcess
         PROVE  \/ replay'[p].handling \in {NoItem, replay[p].handling}
                \/ ReplayEmits(p)
    <2>1. CASE replay' = replay
      BY <2>1
    <2>2. CASE \E q \in Replayers : replay' = [replay EXCEPT ![q] = Returned(q)]
      BY <1>3, <2>2
    <2>3. CASE ListenerSubscribed \/ CatchUpRetries
      <3>1. replay'[p].handling = replay[p].handling
        BY <1>0, <2>3 DEF ListenerSubscribed, CatchUpRetries, ReplayRecords
      <3> QED
        BY <3>1
    <2>4. CASE CatchUpFails
      BY <1>5, <2>4
    <2>5. CASE SupBeginsReplay \/ CheckpointFails \/ BeginRestart
      BY <1>0, <1>a, <2>5 DEF SupBeginsReplay, CheckpointFails, BeginRestart
    <2>6. CASE Listener
      BY <2>1, <2>3, <2>6 DEF Listener, ListenerHandled, ListenerIgnores, ListenerBuffers,
         ListenerEmits
    <2>7. CASE Supervisor
      BY <2>1, <2>2, <2>5, <2>7 DEF Supervisor, SupStarts, SupBeginsRestart, SupFinishesRestart,
         SupStops, BeginRestart
    <2>8. CASE Bootstrap
      BY <1>0, <1>10, <2>1, <2>2, <2>3, <2>4, <2>5, <2>8 DEF Bootstrap, CatchUpGivesUp,
         CheckpointEstablished, Exit, NewProcess, AfterReplay
    <2>9. CASE Environment
      BY <1>0, <1>10, <2>1, <2>2, <2>4, <2>5, <2>9 DEF Environment, MineBlock, ListenerFailed,
         ReconnectReplayFails, Persist, RequestShutdown, NewProcess, AfterReplay
    <2>10. CASE UNCHANGED vars
      BY <2>1, <2>10 DEF vars
    <2> QED
      BY <1>9, <2>6, <2>7, <2>8, <2>9, <2>10 DEF Next
  <1> QED
    BY <1>1, <1>10

LEMMA HandlingStepDone ==
  ASSUME StructInv, RuntimeType', Gapless, [Next]_vars, ~overtaken'
  PROVE  HandlingDone'
  <1> USE DEF StructInv, Gapless
  <1>1. /\ \A b \in Blocks : b \in Nat
        /\ NoItem[2] = 0
        /\ base \in Nat
    BY ItemFacts DEF ControlType
  <1>2. ASSUME ~NewProcess
        PROVE  \A k : Owing(k, {}) => \A b \in Blocks : base' < b /\ b =< k => b \in store'.handled
    <2>1. Grows /\ base' \in Nat
      BY <1>2, GrowsStep
    <2> QED
      BY <1>1, <2>1, OwingShrinks
  <1>3. ASSUME runtime'[cur'].handling[2] = 1
        PROVE  \A b \in Blocks : base' < b /\ b =< runtime'[cur'].handling[1] => b \in store'.handled
    <2>1. CASE ~NewProcess /\ runtime'[cur'].handling = runtime[cur].handling
      BY <1>2, <1>3, <2>1 DEF HandlingDone
    <2>2. ASSUME NEW x \in Items, ListenerEmits(x), runtime'[cur'].handling = x
          PROVE  \A b \in Blocks : base' < b /\ b =< x[1] => b \in store'.handled
      <3>1. Owing(x[1], {})
        BY <1>3, <2>2, LiveMarker
      <3>2. store' = store /\ base' = base
        BY <2>2 DEF ListenerEmits, storeVars
      <3> QED
        BY <3>1, <3>2 DEF Owing
    <2> QED
      BY <1>1, <1>3, <2>1, <2>2, ListenerHandles
  <1>4. ASSUME NEW p \in Replayers, replay'[p].handling[2] = 1
        PROVE  \A b \in Blocks : base' < b /\ b =< replay'[p].handling[1] => b \in store'.handled
    <2>1. CASE ~NewProcess /\ replay'[p].handling = replay[p].handling
      BY <1>2, <1>4, <2>1 DEF HandlingDone
    <2>2. CASE ReplayEmits(p)
      <3>1. Owing(replay'[p].handling[1], {})
        BY <1>4, <2>2, ReplayMarker
      <3>2. store' = store /\ base' = base
        BY <2>2 DEF ReplayEmits, storeVars, historyVars
      <3> QED
        BY <3>1, <3>2 DEF Owing
    <2> QED
      BY <1>1, <1>4, <2>1, <2>2, ReplayHandles
  <1> QED
    BY <1>3, <1>4 DEF HandlingDone, Owing

(* Where a replay starts after a step.                                       *)
LEMMA StartAfter ==
  ASSUME StructInv, [Next]_vars, ~NewProcess, NEW p \in Replayers
  PROVE  \/ replay'[p].start \in {0, replay[p].start}
         \/ replay'[p].start = pending
         \/ store' = store /\ replay'[p].start \in {store.checkpoint + 1,
                                                   Max(replay[p].start, store.checkpoint + 1)}
  <1> USE DEF StructInv
  <1>0. /\ "boot" \in Replayers /\ "sup" \in Replayers
        /\ \A q \in Replayers : replay[q] \in ReplayRecords
        /\ replay \in [Replayers -> ReplayRecords]
    BY DEF Replayers, ReplayType
  <1>a. NoReplay.start = 0 /\ \A n : [NoReplay EXCEPT !.start = n].start = n
        /\ \A m : [NoReplay EXCEPT !.stage = "head", !.start = m].start = m
    BY DEF NoReplay
  <1>1. ASSUME replay' = replay \/ \E q \in Replayers : replay' = [replay EXCEPT ![q] = Returned(q)]
        PROVE  replay'[p].start = replay[p].start
    BY <1>0, <1>1, ReturnedFields
  <1>2. ASSUME SupBeginsReplay
        PROVE  replay'[p].start \in {replay[p].start, pending}
    BY <1>0, <1>a, <1>2 DEF SupBeginsReplay
  <1>3. ASSUME CheckpointFails
        PROVE  replay'[p].start \in {replay[p].start, 0}
    BY <1>0, <1>a, <1>3 DEF CheckpointFails
  <1>4. ASSUME BeginRestart
        PROVE  replay'[p].start \in {replay[p].start, store.checkpoint + 1}
    BY <1>0, <1>a, <1>4 DEF BeginRestart, ReconnectStart
  <1>5. ASSUME SupBeginsRestart \/ ReconnectReplayFails
        PROVE  \/ replay'[p].start = replay[p].start
               \/ store' = store /\ replay'[p].start = store.checkpoint + 1
    <2>1. store' = store /\ (BeginRestart \/ replay' = [replay EXCEPT !["sup"] = Returned("sup")])
      BY <1>5 DEF SupBeginsRestart, ReconnectReplayFails, storeVars
    <2> QED
      BY <1>0, <1>1, <1>4, <2>1
  <1>6. ASSUME CatchUpFails
        PROVE  \/ replay'[p].start = replay[p].start
               \/ store' = store /\ replay'[p].start = Max(replay[p].start, store.checkpoint + 1)
    <2>1. \/ replay' = [replay EXCEPT !["boot"] = Returned("boot")]
          \/ replay' = [replay EXCEPT !["boot"].stage = "sleep",
                                      !["boot"].start = Max(@, store.checkpoint + 1)]
      BY <1>6 DEF CatchUpFails, AfterReplay
    <2>2. CASE replay' = [replay EXCEPT !["boot"].stage = "sleep",
                                        !["boot"].start = Max(@, store.checkpoint + 1)]
      <3>1. replay'[p].start \in {replay[p].start, Max(replay[p].start, store.checkpoint + 1)}
        BY <1>0, <2>2 DEF ReplayRecords
      <3>2. store' = store
        BY <1>6 DEF CatchUpFails, storeVars
      <3> QED
        BY <3>1, <3>2
    <2> QED
      BY <1>0, <1>1, <2>1, <2>2
  <1>7. ASSUME ListenerSubscribed \/ CatchUpRetries
        PROVE  replay'[p].start = replay[p].start
    BY <1>0, <1>7 DEF ListenerSubscribed, CatchUpRetries, ReplayRecords
  <1>8. ASSUME NEW q \in Replayers, Replay(q)
        PROVE  replay'[p].start = replay[p].start
    <2>1. CASE ReplayCompletes(q) \/ ReplayInterrupted(q)
      BY <1>1, <2>1 DEF ReplayCompletes, ReplayInterrupted, AfterReplay
    <2>2. CASE ReplayBegins(q) \/ ReplayFetches(q) \/ ReplayFetchedAll(q) \/ FlushRound(q)
      BY <1>0, <2>2 DEF ReplayBegins, ReplayFetches, ReplayFetchedAll, FlushRound, ReplayRecords
    <2>3. CASE ReplayEmits(q)
      BY <1>0, <2>3 DEF ReplayEmits, ReplayRecords
    <2>4. CASE ReplayHandled(q)
      BY <1>0, <2>4 DEF ReplayHandled, ReplayRecords
    <2> QED
      BY <1>8, <2>1, <2>2, <2>3, <2>4 DEF Replay
  <1> QED
    BY <1>0, <1>1, <1>2, <1>3, <1>5, <1>6, <1>7, <1>8
    DEF Next, MineBlock, Listener, ListenerHandled, ListenerIgnores, ListenerBuffers, ListenerEmits,
       Supervisor, SupStarts, SupFinishesRestart, SupStops, Bootstrap, CatchUpGivesUp,
       CheckpointEstablished, Exit, NewProcess, Environment, ListenerFailed, Persist,
       RequestShutdown, AfterReplay, vars

LEMMA StartsStepDone ==
  ASSUME StructInv, StructInv', Gapless, [Next]_vars
  PROVE  StartsDone'
  <1>0. /\ \A b \in Blocks : b \in Nat
        /\ store.checkpoint \in Nat /\ saved.checkpoint \in Nat
        /\ base \in Nat /\ base' \in Nat /\ pending \in Nat /\ pending' \in Nat
        /\ \A p \in Replayers : replay[p].start \in Nat /\ replay'[p].start \in Nat
        /\ "sup" \in Replayers
    <2>1. \A b \in Blocks : b \in Nat
      BY ItemFacts
    <2>2. store.checkpoint \in Blocks /\ saved.checkpoint \in Blocks
      BY DEF StructInv, ControlType, Stores
    <2>3. base \in Nat /\ base' \in Nat /\ pending \in Nat /\ pending' \in Nat
      BY DEF StructInv, ControlType
    <2>4. \A p \in Replayers : replay[p] \in ReplayRecords /\ replay'[p] \in ReplayRecords
      BY DEF StructInv, ReplayType
    <2> QED
      BY <2>1, <2>2, <2>3, <2>4 DEF ReplayRecords, Replayers
  <1> DEFINE Fine(k) == \A b \in Blocks : base' < b /\ b =< k - 1 => b \in store'.handled
  <1>1. CASE NewProcess
    <2>1. /\ pending' = 0 /\ base' = base /\ store' = saved
          /\ \A p \in Replayers : \/ replay'[p] = NoReplay
                                  \/ replay'[p] = [NoReplay EXCEPT !.start = BackfillStart(saved.checkpoint)]
      BY <1>1 DEF NewProcess, Restart, Crash, StartProcess, historyVars
    <2>2. NoReplay.start = 0 /\ \A n : [NoReplay EXCEPT !.start = n].start = n
      BY DEF NoReplay
    <2>3. ASSUME BackfillStart(saved.checkpoint) # 0
          PROVE  Fine(BackfillStart(saved.checkpoint))
      <3>1. CASE BlockFrom # NotConfigured
        <4>1. BlockFrom \in Nat \ {0} /\ BackfillStart(saved.checkpoint) = BlockFrom
          BY <2>3, <3>1, BlockFromAssumption DEF BackfillStart
        <4>2. BlockFrom =< base + 1
          BY <4>1 DEF StructInv, BlockFromBase
        <4> QED
          BY <1>0, <2>1, <4>1, <4>2
      <3>2. CASE BlockFrom = NotConfigured
        <4>1. BackfillStart(saved.checkpoint) = saved.checkpoint + 1
          BY <1>0, <2>3, <3>2 DEF BackfillStart
        <4> QED
          BY <1>0, <2>1, <4>1 DEF Gapless, SavedDone
      <3> QED
        BY <3>1, <3>2
    <2> QED
      BY <2>1, <2>2, <2>3 DEF StartsDone, Owing
  <1>2. CASE ~NewProcess
    <2>1. Grows
      BY <1>2, GrowsStep DEF StructInv
    <2>2. \A k : Owing(k, {}) => \A b \in Blocks : base' < b /\ b =< k => b \in store'.handled
      BY <1>0, <2>1, OwingShrinks DEF StructInv
    <2>3. \A k \in Nat \ {0} : Owing(k - 1, {}) => Fine(k)
      BY <1>0, <2>2
    <2>4. pending # 0 => Fine(pending)
      BY <1>0, <2>3 DEF Gapless, StartsDone
    <2>5. \A p \in Replayers : replay[p].start # 0 => Fine(replay[p].start)
      BY <1>0, <2>3 DEF Gapless, StartsDone
    <2>6. Fine(store.checkpoint + 1)
      BY <1>0, <2>2 DEF Gapless, StoreDone
    <2>7. ASSUME NEW p \in Replayers, replay'[p].start # 0
          PROVE  Fine(replay'[p].start)
      <3>1. CASE replay'[p].start \in {replay[p].start, pending, store.checkpoint + 1}
        BY <2>4, <2>5, <2>6, <2>7, <3>1
      <3>2. CASE replay'[p].start = Max(replay[p].start, store.checkpoint + 1)
        <4>1. replay'[p].start \in {replay[p].start, store.checkpoint + 1}
          BY <3>2 DEF Max
        <4> QED
          BY <3>1, <4>1
      <3> HIDE DEF Fine
      <3> QED
        BY <1>2, <2>7, <3>1, <3>2, StartAfter
    <2>8. pending' \in {0, pending, replay["sup"].start}
      BY <1>2 DEF Next, MineBlock, Listener, ListenerSubscribed, ListenerHandled, ListenerIgnores,
         ListenerBuffers, ListenerEmits, Supervisor, SupStarts, SupBeginsReplay, SupBeginsRestart,
         SupFinishesRestart, SupStops, Bootstrap, CatchUpGivesUp, CatchUpRetries, BeginRestart,
         CheckpointEstablished, Exit, NewProcess, Environment, ListenerFailed, CatchUpFails,
         ReconnectReplayFails, CheckpointFails, Persist, RequestShutdown, Replay, ReplayBegins,
         ReplayFetches, ReplayFetchedAll, ReplayEmits, ReplayHandled, FlushRound, ReplayCompletes,
         ReplayInterrupted, vars, AfterReplay, controlVars
    <2>9. pending' # 0 => Fine(pending')
      BY <1>0, <2>4, <2>5, <2>8
    <2> QED
      BY <2>7, <2>9 DEF StartsDone, Owing
  <1> QED
    BY <1>1, <1>2

(* A step that moves nothing out of what a replay holds, but by handling it. *)
LEMMA HeldMoves ==
  ASSUME ControlType, Grows, base \in Nat, base' \in Nat, NEW p \in Replayers, HeldBy(p),
         cur' = cur, head' = head,
         replay'[p].next = replay[p].next, replay'[p].to = replay[p].to,
         replay'[p].todo \subseteq replay[p].todo,
         runtime'[cur].buffer = runtime[cur].buffer,
         runtime'[cur].phase = "live" => runtime[cur].phase = "live",
         Pend(p) \subseteq Pend(p)' \cup store'.handled,
         runtime'[cur].phase = "live" =>
           \A b \in Fed : base < b => b \in Fed' \cup Pend(p)' \cup Rest(p) \cup store'.handled
  PROVE  HeldBy(p)'
  <1>0. \A b \in Blocks : b \in Nat
    BY ItemFacts
  <1>1. Rest(p)' = Rest(p) /\ Buf' = Buf
    BY DEF Rest, Buf
  <1>2. \A k, S : Owing(k, S) => \A b \in Blocks : base' < b /\ b =< k => b \in store'.handled \cup S
    BY OwingShrinks
  <1>3. base =< base'
    BY DEF Grows
  <1>4. \A b \in Blocks : base' < b /\ b =< replay'[p].next - 1 => b \in store'.handled \cup Pend(p)'
    BY <1>2 DEF HeldBy
  <1>5. ASSUME NEW x \in replay'[p].todo, x[2] = 1
        PROVE  \A b \in Blocks : base' < b /\ b =< x[1] => b \in store'.handled \cup Pend(p)'
    BY <1>2, <1>5 DEF HeldBy
  <1>6. ASSUME NEW x \in runtime'[cur].buffer, x[2] = 1
        PROVE  \A b \in Blocks : base' < b /\ b =< x[1] =>
                 b \in store'.handled \cup (Pend(p)' \cup Buf' \cup Rest(p)')
    <2>1. Owing(x[1], Pend(p) \cup Buf \cup Rest(p))
      BY <1>6 DEF HeldBy
    <2> QED
      BY <1>1, <1>2, <2>1
  <1>7. ASSUME runtime'[cur].phase = "live"
        PROVE  \A b \in Blocks : base' < b /\ b =< head =>
                 b \in store'.handled \cup (Pend(p)' \cup Buf' \cup Rest(p)' \cup Fed')
    <2>1. Owing(head, Pend(p) \cup Buf \cup Rest(p) \cup Fed)
      BY <1>7 DEF HeldBy
    <2>2. \A b \in Blocks : base' < b => base < b
      BY <1>0, <1>3
    <2> QED
      BY <1>1, <1>2, <1>7, <2>1, <2>2
  <1> QED
    BY <1>4, <1>5, <1>6, <1>7 DEF HeldBy, Owing

LEMMA HeldBegins ==
  ASSUME StructInv, StartsDone, NEW p \in Replayers, ReplayBegins(p)
  PROVE  HeldBy(p)'
  <1> USE DEF StructInv
  <1>0. /\ \A b \in Blocks : b \in Nat
        /\ cur \in Runtimes /\ runtime \in [Runtimes -> RuntimeRecords] /\ runtime[cur] \in RuntimeRecords
        /\ replay \in [Replayers -> ReplayRecords] /\ replay[p] \in ReplayRecords
    BY ItemFacts DEF RuntimeType, ReplayType
  <1>1. /\ cur = RuntimeOf(p) /\ cur' = cur /\ head' = head /\ store' = store /\ base' = base
        /\ replay'[p].next = replay[p].start /\ replay'[p].to = head
        /\ replay'[p].todo = replay[p].todo /\ runtime'[cur].buffer = {}
    BY <1>0 DEF ReplayBegins, RuntimeRecords, ReplayRecords, storeVars, historyVars
  <1>2. replay[p].todo = {} /\ replay[p].start # 0 /\ replay[p].start \in Nat /\ head \in Nat
    BY <1>0 DEF ReplayBegins, ReplayShape, Places, ReplayRecords, ControlType
  <1>3. Owing(replay[p].start - 1, {})
    BY <1>2 DEF StartsDone
  <1>4. ASSUME NEW b \in Blocks, b =< head, ~(b =< replay[p].start - 1)
        PROVE  b \in Rest(p)'
    BY <1>0, <1>1, <1>2, <1>4 DEF Rest
  <1> QED
    BY <1>1, <1>2, <1>3, <1>4 DEF HeldBy, Owing

LEMMA HeldFetches ==
  ASSUME StructInv, NEW p \in Replayers, HeldBy(p), ReplayFetches(p)
  PROVE  HeldBy(p)'
  <1> USE DEF StructInv
  <1> DEFINE last == LastOfBatch(p)
  <1>0. /\ \A b \in Blocks : b \in Nat
        /\ replay \in [Replayers -> ReplayRecords] /\ replay[p] \in ReplayRecords
    BY ItemFacts DEF ReplayType
  <1>1. /\ cur' = cur /\ head' = head /\ store' = store /\ base' = base /\ runtime' = runtime
        /\ replay'[p].next = last + 1 /\ replay'[p].to = replay[p].to
        /\ replay'[p].todo = {EventOf(b) : b \in replay[p].next..last} \cup {Completed(last)}
        /\ replay'[p].handling = replay[p].handling
    BY <1>0 DEF ReplayFetches, ReplayRecords, storeVars, historyVars, runtimeVars
  <1>2. /\ replay[p].todo = {} /\ replay[p].handling = NoItem /\ replay[p].next \in Nat
        /\ replay[p].to \in Nat
    BY <1>0 DEF ReplayFetches, ReplayShape, ReplayRecords
  <1>3. last \in Nat
    BY <1>2, ChainAssumption DEF LastOfBatch, Min
  <1>4. Pend(p) = {}
    BY <1>2, ItemFacts DEF Pend, EventsIn
  <1>5. \A b \in Blocks : replay[p].next =< b /\ b =< last => b \in Pend(p)'
    BY <1>0, <1>1, <1>2, <1>3 DEF Pend, EventsIn
  <1>6. ASSUME NEW b \in Blocks, b \in Rest(p)
        PROVE  b \in Pend(p)' \cup Rest(p)'
    <2>1. CASE b =< last
      BY <1>5, <1>6, <2>1 DEF Rest
    <2>2. CASE ~(b =< last)
      <3>1. last + 1 =< b
        BY <1>0, <1>3, <2>2
      <3> QED
        BY <1>1, <1>6, <3>1 DEF Rest
    <2> QED
      BY <2>1, <2>2
  <1>7. Owing(replay[p].next - 1, {})
    BY <1>4 DEF HeldBy
  <1>8. \A b \in Blocks : base' < b /\ b =< last => b \in store'.handled \cup Pend(p)'
    <2>1. ASSUME NEW b \in Blocks, ~(replay[p].next =< b)
          PROVE  b =< replay[p].next - 1
      BY <1>0, <1>2, <2>1
    <2> QED
      BY <1>1, <1>5, <1>7, <2>1 DEF Owing
  <1>9. \A b \in Blocks : base' < b /\ b =< replay'[p].next - 1 => b \in store'.handled \cup Pend(p)'
    BY <1>1, <1>3, <1>8
  <1>10. ASSUME NEW x \in replay'[p].todo, x[2] = 1
         PROVE  x[1] = last
    BY <1>1, <1>10 DEF EventOf, Completed
  <1>11. Buf' = Buf /\ Fed' = Fed
    BY <1>1 DEF Buf, Fed
  <1> HIDE DEF last
  <1>12. ASSUME NEW x \in runtime'[cur].buffer, x[2] = 1
         PROVE  \A b \in Blocks : base' < b /\ b =< x[1] =>
                  b \in store'.handled \cup (Pend(p)' \cup Buf' \cup Rest(p)')
    <2>1. Owing(x[1], Pend(p) \cup Buf \cup Rest(p))
      BY <1>1, <1>12 DEF HeldBy
    <2> QED
      BY <1>1, <1>4, <1>6, <1>11, <2>1 DEF Owing
  <1>13. ASSUME runtime'[cur].phase = "live"
         PROVE  \A b \in Blocks : base' < b /\ b =< head =>
                  b \in store'.handled \cup (Pend(p)' \cup Buf' \cup Rest(p)' \cup Fed')
    <2>1. Owing(head, Pend(p) \cup Buf \cup Rest(p) \cup Fed)
      BY <1>1, <1>13 DEF HeldBy
    <2> QED
      BY <1>1, <1>4, <1>6, <1>11, <2>1 DEF Owing
  <1> QED
    BY <1>1, <1>8, <1>9, <1>10, <1>12, <1>13 DEF HeldBy, Owing

LEMMA HeldFlushes ==
  ASSUME StructInv, NEW p \in Replayers, HeldBy(p), FlushRound(p), RuntimeOf(p) = cur
  PROVE  HeldBy(p)'
  <1> USE DEF StructInv
  <1>0. /\ \A b \in Blocks : b \in Nat
        /\ cur \in Runtimes /\ runtime \in [Runtimes -> RuntimeRecords] /\ runtime[cur] \in RuntimeRecords
        /\ replay \in [Replayers -> ReplayRecords] /\ replay[p] \in ReplayRecords
    BY ItemFacts DEF RuntimeType, ReplayType
  <1>1. /\ cur' = cur /\ head' = head /\ store' = store /\ base' = base
        /\ replay'[p].next = replay[p].next /\ replay'[p].to = replay[p].to
        /\ replay'[p].todo = runtime[cur].buffer /\ replay'[p].handling = NoItem
        /\ replay[p].todo = {} /\ replay[p].handling = NoItem
        /\ runtime'[cur].buffer = {} /\ runtime'[cur].phase = runtime[cur].phase
        /\ runtime'[cur].feed = runtime[cur].feed /\ runtime'[cur].handling = runtime[cur].handling
    BY <1>0 DEF FlushRound, RuntimeRecords, ReplayRecords, storeVars, historyVars
  <1>2. Pend(p) = {} /\ Fed' = Fed
    BY <1>1, ItemFacts DEF Pend, Fed, EventsIn
  <1>3. Rest(p) = {}
    <2>1. replay[p].next > replay[p].to /\ replay[p].next \in Nat /\ replay[p].to \in Nat
      BY <1>0 DEF FlushRound, ReplayShape, ReplayRecords
    <2> QED
      BY <1>0, <2>1 DEF Rest
  <1>4. Buf \subseteq Pend(p)'
    BY <1>1 DEF Buf, Pend, EventsIn
  <1> QED
    BY <1>1, <1>2, <1>3, <1>4 DEF HeldBy, Owing

LEMMA HeldBuffers ==
  ASSUME StructInv, NEW p \in Replayers, HeldBy(p), NEW x \in Items, ListenerBuffers(x)
  PROVE  HeldBy(p)'
  <1> USE DEF StructInv
  <1>0. /\ \A b \in Blocks : b \in Nat
        /\ cur \in Runtimes /\ runtime \in [Runtimes -> RuntimeRecords] /\ runtime[cur] \in RuntimeRecords
        /\ head \in Nat
    BY ItemFacts DEF RuntimeType, ControlType
  <1>1. /\ cur' = cur /\ head' = head /\ store' = store /\ base' = base /\ replay' = replay
        /\ runtime'[cur].buffer = runtime[cur].buffer \cup {x}
        /\ runtime'[cur].feed = runtime[cur].feed \ {x}
        /\ runtime'[cur].phase = runtime[cur].phase
        /\ runtime'[cur].handling = runtime[cur].handling
    BY <1>0 DEF ListenerBuffers, RuntimeRecords, storeVars, historyVars
  <1>2. /\ runtime[cur].phase = "live" /\ runtime[cur].handling = NoItem
        /\ x \in Deliverable(runtime[cur].feed)
    BY DEF ListenerBuffers, Takes
  <1>3. Pend(p)' = Pend(p) /\ Rest(p)' = Rest(p)
    BY <1>1 DEF Pend, Rest
  <1>4. Buf \subseteq Buf' /\ Fed \subseteq Fed' \cup Buf'
    BY <1>1 DEF Buf, Fed, EventsIn
  <1>5. Owing(head, Pend(p) \cup Buf \cup Rest(p) \cup Fed)
    BY <1>2 DEF HeldBy
  <1>6. ASSUME x[2] = 1
        PROVE  Owing(x[1], Pend(p) \cup Buf \cup Rest(p))
    <2>1. x[1] =< head /\ x[1] \in Nat
      BY <1>0, <1>2, ItemFacts DEF Bounds, Deliverable
    <2>2. ASSUME NEW b \in Blocks, b =< x[1]
          PROVE  b \notin Fed
      <3>1. EventOf(b) # NoItem
        BY ItemFacts
      <3>2. EventOf(b) \notin runtime[cur].feed
        BY <1>0, <1>2, <1>6, <2>1, <2>2 DEF Deliverable, Arrival, EventOf
      <3> QED
        BY <1>2, <3>1, <3>2 DEF Fed, EventsIn
    <2> QED
      BY <1>0, <1>5, <2>1, <2>2 DEF Owing
  <1>7. ASSUME NEW y \in runtime'[cur].buffer, y[2] = 1
        PROVE  Owing(y[1], Pend(p) \cup Buf \cup Rest(p))
    BY <1>1, <1>6, <1>7 DEF HeldBy
  <1> QED
    BY <1>1, <1>3, <1>4, <1>5, <1>7 DEF HeldBy, Owing

LEMMA HeldMines ==
  ASSUME StructInv, NEW p \in Replayers, HeldBy(p), MineBlock
  PROVE  HeldBy(p)'
  <1> USE DEF StructInv
  <1>0. /\ \A b \in Blocks : b \in Nat
        /\ cur \in Runtimes /\ runtime \in [Runtimes -> RuntimeRecords] /\ runtime[cur] \in RuntimeRecords
        /\ head \in Nat
    BY ItemFacts DEF RuntimeType, ControlType
  <1>1. /\ cur' = cur /\ head' = head + 1 /\ store' = store /\ base' = base /\ replay' = replay
        /\ runtime'[cur].buffer = runtime[cur].buffer
        /\ runtime'[cur].phase = runtime[cur].phase
        /\ runtime'[cur].handling = runtime[cur].handling
        /\ runtime[cur].feed \subseteq runtime'[cur].feed
        /\ runtime[cur].phase = "live" => EventOf(head + 1) \in runtime'[cur].feed
    BY <1>0 DEF MineBlock, RuntimeRecords, storeVars, historyVars
  <1>2. Pend(p)' = Pend(p) /\ Rest(p)' = Rest(p) /\ Buf' = Buf
    BY <1>1 DEF Pend, Rest, Buf
  <1>3. Fed \subseteq Fed' /\ (runtime[cur].phase = "live" /\ head + 1 \in Blocks => head + 1 \in Fed')
    BY <1>1 DEF Fed, EventsIn
  <1>4. \A b \in Blocks : b =< head + 1 => b =< head \/ b = head + 1
    BY <1>0
  <1> QED
    BY <1>1, <1>2, <1>3, <1>4 DEF HeldBy, Owing

(* The steps of the listener beside a replay.                                *)
LEMMA HeldByListener ==
  ASSUME StructInv, StructInv', NEW p \in Replayers, Active(p), RuntimeOf(p) = cur, HeldBy(p),
         Listener \/ ListenerFailed, Grows
  PROVE  HeldBy(p)'
  <1>0. /\ \A b \in Blocks : b \in Nat
        /\ cur \in Runtimes /\ runtime \in [Runtimes -> RuntimeRecords] /\ runtime[cur] \in RuntimeRecords
        /\ replay[p] \in ReplayRecords
        /\ base \in Nat /\ base' \in Nat /\ ControlType
    BY ItemFacts DEF StructInv, RuntimeType, ReplayType, ControlType
  <1>1. ASSUME ListenerSubscribed
        PROVE  FALSE
    BY <1>1 DEF ListenerSubscribed, StructInv, Active, RuntimeOf, Lives, SupReplays, BootReplays,
       Flushing, Replayers
  <1>2. ASSUME cur' = cur, head' = head, replay' = replay,
               runtime'[cur].buffer = runtime[cur].buffer,
               runtime'[cur].phase = "live" => runtime[cur].phase = "live",
               runtime'[cur].phase = "live" =>
                 \A b \in Fed : base < b => b \in Fed' \cup Pend(p) \cup Rest(p) \cup store'.handled
        PROVE  HeldBy(p)'
    <2>1. Pend(p)' = Pend(p)
      BY <1>2 DEF Pend
    <2> QED
      BY <1>0, <1>2, <2>1, HeldMoves
  <1>3. CASE ListenerHandled
    <2>1. /\ cur' = cur /\ head' = head /\ replay' = replay
          /\ runtime'[cur].buffer = runtime[cur].buffer
          /\ runtime'[cur].phase = runtime[cur].phase
          /\ runtime'[cur].feed = runtime[cur].feed
          /\ store' = Handle(store, runtime[cur].handling)
      BY <1>0, <1>3 DEF ListenerHandled, RuntimeRecords
    <2>2. ASSUME NEW b \in Blocks, runtime[cur].handling = EventOf(b)
          PROVE  b \in store'.handled
      BY <1>0, <2>1, <2>2 DEF Handle, EventOf, ControlType, Stores
    <2>3. Fed \subseteq Fed' \cup store'.handled
      BY <2>1, <2>2 DEF Fed, EventsIn
    <2> QED
      BY <1>2, <2>1, <2>3
  <1>4. ASSUME NEW x \in Items, ListenerIgnores(x)
        PROVE  HeldBy(p)'
    <2>1. /\ cur' = cur /\ head' = head /\ replay' = replay
          /\ runtime'[cur].buffer = runtime[cur].buffer
          /\ runtime'[cur].phase = runtime[cur].phase
          /\ runtime'[cur].feed = runtime[cur].feed \ {x}
          /\ runtime'[cur].handling = runtime[cur].handling
          /\ store' = store
      BY <1>0, <1>4 DEF ListenerIgnores, RuntimeRecords, storeVars
    <2>2. x[1] =< replay[p].to
      <3>1. ~runtime[cur].shut /\ runtime[cur].threshold =< replay[p].to
        BY DEF Active, StructInv, Bounds
      <3>2. x[1] =< runtime[cur].threshold
        BY <1>4, <3>1 DEF ListenerIgnores, Ignored
      <3>3. x[1] \in Nat /\ runtime[cur].threshold \in Nat /\ replay[p].to \in Nat
        BY <1>0, ItemFacts DEF RuntimeRecords, ReplayRecords
      <3> QED
        BY <3>1, <3>2, <3>3
    <2>3. ASSUME NEW b \in Blocks, base < b, b = x[1]
          PROVE  b \in Pend(p) \cup Rest(p) \cup store.handled
      <3>1. CASE replay[p].next =< b
        BY <2>2, <2>3, <3>1 DEF Rest
      <3>2. CASE ~(replay[p].next =< b)
        <4>1. replay[p].next \in Nat /\ b =< replay[p].next - 1
          BY <1>0, <3>2 DEF ReplayRecords
        <4>2. Owing(replay[p].next - 1, Pend(p))
          BY DEF HeldBy
        <4> QED
          BY <2>3, <4>1, <4>2 DEF Owing
      <3> QED
        BY <3>1, <3>2
    <2>4. ASSUME NEW b \in Fed, base < b
          PROVE  b \in Fed' \cup Pend(p) \cup Rest(p) \cup store'.handled
      <3>1. b \in Blocks
        BY DEF Fed, EventsIn
      <3>2. CASE b \in Fed'
        BY <3>2
      <3>3. CASE b \notin Fed'
        <4>1. EventOf(b) = x
          BY <2>1, <3>1, <3>3 DEF Fed, EventsIn
        <4>2. b = x[1]
          BY <4>1 DEF EventOf
        <4> QED
          BY <2>1, <2>3, <2>4, <3>1, <4>2
      <3> QED
        BY <3>2, <3>3
    <2> QED
      BY <1>2, <2>1, <2>4
  <1>5. ASSUME NEW x \in Items, ListenerEmits(x)
        PROVE  HeldBy(p)'
    <2>1. /\ cur' = cur /\ head' = head /\ replay' = replay
          /\ runtime'[cur].buffer = runtime[cur].buffer
          /\ runtime'[cur].phase = runtime[cur].phase
          /\ runtime'[cur].feed = runtime[cur].feed \ {x}
          /\ runtime'[cur].handling = x /\ runtime[cur].handling = NoItem
      BY <1>0, <1>5 DEF ListenerEmits, Takes, RuntimeRecords
    <2>2. Fed \subseteq Fed'
      BY <2>1, ItemFacts DEF Fed, EventsIn
    <2> QED
      BY <1>2, <2>1, <2>2
  <1>6. CASE ListenerFailed
    <2>1. /\ cur' = cur /\ head' = head /\ replay' = replay
          /\ runtime'[cur].buffer = runtime[cur].buffer
          /\ runtime'[cur].phase = "failed"
      BY <1>0, <1>6 DEF ListenerFailed, RuntimeRecords
    <2> QED
      BY <1>2, <2>1
  <1> QED
    BY <1>1, <1>3, <1>4, <1>5, <1>6, HeldBuffers DEF Listener, StructInv

(* The steps of the replay itself, after its first.                          *)
LEMMA HeldByReplay ==
  ASSUME StructInv, StructInv', NEW p \in Replayers, Active(p), Active(p)', RuntimeOf(p) = cur,
         HeldBy(p), Replay(p), ~ReplayBegins(p), Grows
  PROVE  HeldBy(p)'
  <1>0. /\ \A b \in Blocks : b \in Nat
        /\ replay \in [Replayers -> ReplayRecords] /\ replay[p] \in ReplayRecords
        /\ base \in Nat /\ base' \in Nat /\ ControlType
    BY ItemFacts DEF StructInv, ReplayType, ControlType
  <1>1. ASSUME cur' = cur, head' = head, runtime' = runtime,
               replay'[p].next = replay[p].next, replay'[p].to = replay[p].to,
               replay'[p].todo \subseteq replay[p].todo,
               Pend(p) \subseteq Pend(p)' \cup store'.handled
        PROVE  HeldBy(p)'
    <2>1. Fed' = Fed
      BY <1>1 DEF Fed
    <2> QED
      BY <1>0, <1>1, <2>1, HeldMoves
  <1>2. CASE ReplayFetchedAll(p)
    <2>1. /\ cur' = cur /\ head' = head /\ runtime' = runtime
          /\ replay'[p].next = replay[p].next /\ replay'[p].to = replay[p].to
          /\ replay'[p].todo = replay[p].todo /\ replay'[p].handling = replay[p].handling
      BY <1>0, <1>2 DEF ReplayFetchedAll, ReplayRecords, runtimeVars
    <2>2. Pend(p)' = Pend(p)
      BY <2>1 DEF Pend
    <2> QED
      BY <1>1, <2>1, <2>2
  <1>3. CASE ReplayEmits(p)
    <2>1. PICK x \in First(replay[p].todo) :
            replay' = [replay EXCEPT ![p].handling = x, ![p].todo = @ \ {x}]
      BY <1>3 DEF ReplayEmits
    <2>2. /\ cur' = cur /\ head' = head /\ runtime' = runtime
          /\ replay[p].handling = NoItem
      BY <1>3 DEF ReplayEmits, runtimeVars
    <2>3. /\ replay'[p].next = replay[p].next /\ replay'[p].to = replay[p].to
          /\ replay'[p].todo = replay[p].todo \ {x} /\ replay'[p].handling = x
      BY <1>0, <2>1 DEF ReplayRecords
    <2>4. Pend(p) \subseteq Pend(p)'
      BY <2>2, <2>3, ItemFacts DEF Pend, EventsIn
    <2> QED
      BY <1>1, <2>2, <2>3, <2>4
  <1>4. CASE ReplayHandled(p)
    <2>1. /\ cur' = cur /\ head' = head /\ runtime' = runtime
          /\ replay'[p].next = replay[p].next /\ replay'[p].to = replay[p].to
          /\ replay'[p].todo = replay[p].todo
          /\ store' = Handle(store, replay[p].handling)
      BY <1>0, <1>4 DEF ReplayHandled, ReplayRecords, runtimeVars
    <2>2. ASSUME NEW b \in Blocks, replay[p].handling = EventOf(b)
          PROVE  b \in store'.handled
      BY <1>0, <2>1, <2>2 DEF Handle, EventOf, ControlType, Stores
    <2>3. Pend(p) \subseteq Pend(p)' \cup store'.handled
      BY <2>1, <2>2 DEF Pend, EventsIn
    <2> QED
      BY <1>1, <2>1, <2>3
  <1>5. ASSUME ReplayCompletes(p) \/ ReplayInterrupted(p)
        PROVE  FALSE
    <2>1. replay'[p] = Returned(p)
      BY <1>0, <1>5 DEF ReplayCompletes, ReplayInterrupted, AfterReplay
    <2> QED
      BY <2>1, ReturnedFields DEF Active, Flushing, StructInv
  <1> QED
    BY <1>2, <1>3, <1>4, <1>5, HeldFetches, HeldFlushes DEF Replay

LEMMA ReplayStepDone ==
  ASSUME StructInv, StructInv', Gapless, [Next]_vars
  PROVE  ReplayDone'
  <1>0. /\ \A b \in Blocks : b \in Nat
        /\ cur \in Runtimes /\ 1 \in Runtimes
        /\ runtime \in [Runtimes -> RuntimeRecords] /\ runtime[cur] \in RuntimeRecords
        /\ replay \in [Replayers -> ReplayRecords]
        /\ "boot" \in Replayers /\ "sup" \in Replayers
        /\ \A q \in Replayers : q = "boot" \/ q = "sup"
        /\ base \in Nat /\ base' \in Nat /\ ControlType
    BY ItemFacts, FreshRuntimes DEF StructInv, RuntimeType, ReplayType, ControlType, Replayers
  <1> SUFFICES ASSUME NEW p \in Replayers, Active(p)'
               PROVE  HeldBy(p)'
    BY DEF ReplayDone
  <1>1. /\ ~NewProcess /\ ~SupFinishesRestart /\ cur' = cur
        /\ ReplayBegins(p) \/ (Active(p) /\ RuntimeOf(p) = cur)
    BY ActiveStep
  <1>2. CASE ReplayBegins(p)
    BY <1>2, HeldBegins DEF Gapless
  <1>3. CASE ~ReplayBegins(p)
    <2>1. Active(p) /\ RuntimeOf(p) = cur /\ HeldBy(p)
      BY <1>1, <1>3 DEF Gapless, ReplayDone
    <2>2. Grows
      BY <1>1, GrowsStep DEF StructInv
    <2>3. ASSUME head' = head, replay'[p] = replay[p], runtime'[cur] = runtime[cur]
          PROVE  HeldBy(p)'
      BY <1>0, <1>1, <2>1, <2>2, <2>3, HeldKept
    <2>4. CASE Listener \/ ListenerFailed
      BY <2>1, <2>2, <2>4, HeldByListener
    <2>5. CASE MineBlock
      BY <2>1, <2>5, HeldMines
    <2>6. CASE Replay(p)
      BY <1>3, <2>1, <2>2, <2>6, HeldByReplay
    <2>7. ASSUME NEW q \in Replayers, q # p, Replay(q)
          PROVE  HeldBy(p)'
      <3>1. runtime'[cur] = runtime[cur] /\ replay'[p] = replay[p]
        BY <2>1, <2>7, OtherReplay
      <3>2. head' = head
        BY <2>7 DEF Replay, ReplayBegins, ReplayFetches, ReplayFetchedAll, ReplayEmits,
           ReplayHandled, FlushRound, ReplayCompletes, ReplayInterrupted
      <3> QED
        BY <2>3, <3>1, <3>2
    <2>8. CASE CatchUpGivesUp \/ CatchUpRetries \/ CatchUpFails
      <3>1. head' = head
        BY <2>8 DEF CatchUpGivesUp, CatchUpRetries, CatchUpFails
      <3>2. CASE p = "boot"
        <4>1. CASE AfterReplay("boot")
          <5>1. replay'["boot"] = Returned("boot")
            BY <1>0, <4>1 DEF AfterReplay
          <5> QED
            BY <1>0, <3>2, <5>1, ReturnedFields DEF Active, Flushing, StructInv
        <4>2. CASE CatchUpRetries
          BY <2>1, <3>2, <4>2 DEF CatchUpRetries, Active, Flushing
        <4>3. CASE CatchUpFails /\ ~AfterReplay("boot")
          <5>1. replay' = [replay EXCEPT !["boot"].stage = "sleep",
                                         !["boot"].start = Max(@, store.checkpoint + 1)]
            BY <4>3 DEF CatchUpFails
          <5>2. replay'["boot"].stage = "sleep"
            BY <1>0, <5>1 DEF ReplayRecords
          <5> QED
            BY <3>2, <5>2 DEF Active, Flushing
        <4> QED
          BY <2>8, <4>1, <4>2, <4>3 DEF CatchUpGivesUp
      <3>3. CASE p # "boot"
        <4>1. runtime'[cur] = runtime[cur] /\ replay'[p] = replay[p]
          BY <1>0, <2>1, <2>8, <3>3, OtherReplay
        <4> QED
          BY <2>3, <3>1, <4>1
      <3> QED
        BY <3>2, <3>3
    <2>9. CASE ReconnectReplayFails
      <3>1. p = "sup"
        <4>1. replay["sup"].stage \in Flushing \cup {"head"}
          BY <2>9 DEF ReconnectReplayFails, Flushing
        <4>2. RuntimeOf("sup") = cur
          BY DEF RuntimeOf
        <4> QED
          BY <1>0, <2>1, <4>1, <4>2, OneActive DEF StructInv
      <3>2. replay'["sup"] = Returned("sup") \/ replay'["sup"] = [NoReplay EXCEPT !.start = ReconnectStart]
        BY <1>0, <2>9 DEF ReconnectReplayFails, BeginRestart
      <3>3. replay'["sup"].stage = "off"
        BY <1>0, <3>2, ReturnedFields DEF NoReplay, StructInv
      <3> QED
        BY <3>1, <3>3 DEF Active, Flushing
    <2>10. CASE SupBeginsRestart \/ RequestShutdown \/ CheckpointFails
      <3>1. runtime'[cur].shut
        BY <1>0, <2>10 DEF SupBeginsRestart, RequestShutdown, CheckpointFails, RuntimeRecords
      <3>2. RuntimeOf(p)' = cur
        BY <1>1, <2>1 DEF RuntimeOf
      <3> QED
        BY <3>1, <3>2 DEF Active
    <2>11. CASE SupBeginsReplay
      <3>1. p = "boot"
        BY <1>0, <2>1, <2>11 DEF SupBeginsReplay, Active, StructInv, SupReplays
      <3> QED
        BY <1>0, <2>3, <2>11, <3>1 DEF SupBeginsReplay, runtimeVars
    <2>12. CASE SupStarts \/ SupStops \/ CheckpointEstablished \/ Exit \/ Persist \/ UNCHANGED vars
      BY <2>3, <2>12 DEF SupStarts, SupStops, CheckpointEstablished, Exit, Persist, vars, runtimeVars
    <2> QED
      BY <1>1, <2>4, <2>5, <2>6, <2>7, <2>8, <2>9, <2>10, <2>11, <2>12
      DEF Next, Supervisor, Bootstrap, Environment, NewProcess
  <1> QED
    BY <1>2, <1>3

LiveAlone == ListenerRuns /\ ~ReplayOwed /\ ~runtime[cur].shut /\ runtime[cur].phase = "live"
LiveHolds == Owing(head, Fed) /\ Owing(runtime[cur].threshold, {})

(* A replay under way is owed, if it is on the current runtime.              *)
LEMMA UnderWayIsOwed ==
  ASSUME StructInv, NEW p \in Replayers, replay[p].stage \in Flushing \cup {"head"},
         RuntimeOf(p) = cur
  PROVE  ReplayOwed /\ (p = "boot" => boot = "replaying" /\ CatchUpStart # 0 /\ cur = 1)
                    /\ (p = "sup" => sup = "replaying" /\ pending # 0)
  <1>1. p = "boot" \/ p = "sup"
    BY DEF Replayers
  <1> QED
    BY <1>1 DEF StructInv, SupReplays, BootReplays, Places, ReplayOwed, RuntimeOf, CatchUpStart, Flushing

LEMMA LiveMoves ==
  ASSUME ControlType, Grows, base \in Nat, base' \in Nat, LiveDone, LiveAlone,
         cur' = cur, head' = head, runtime'[cur].threshold = runtime[cur].threshold,
         \A b \in Fed : base < b => b \in Fed' \cup store'.handled
  PROVE  LiveHolds'
  <1>0. \A b \in Blocks : b \in Nat
    BY ItemFacts
  <1>1. Owing(head, Fed) /\ Owing(runtime[cur].threshold, {})
    BY DEF LiveDone, LiveAlone
  <1>2. \A k, S : Owing(k, S) => \A b \in Blocks : base' < b /\ b =< k => b \in store'.handled \cup S
    BY OwingShrinks
  <1>3. \A b \in Blocks : base' < b => base < b
    BY <1>0 DEF Grows
  <1> QED
    BY <1>1, <1>2, <1>3 DEF LiveHolds, Owing

LEMMA LiveByListener ==
  ASSUME StructInv, StructInv', Owned, LiveDone, Grows, LiveAlone', Listener
  PROVE  LiveHolds'
  <1>0. /\ \A b \in Blocks : b \in Nat
        /\ cur \in Runtimes /\ runtime \in [Runtimes -> RuntimeRecords] /\ runtime[cur] \in RuntimeRecords
        /\ base \in Nat /\ base' \in Nat /\ head \in Nat /\ ControlType
    BY ItemFacts DEF StructInv, RuntimeType, ControlType
  <1>1. CASE ListenerSubscribed
    <2>1. /\ UNCHANGED <<sup, pending, cur, head>>
          /\ runtime[cur].phase = "idle" /\ ListenerRuns
          /\ runtime'[cur].threshold = runtime[cur].threshold
      BY <1>0, <1>1 DEF ListenerSubscribed, RuntimeRecords
    <2>2. pending = 0
      BY <2>1 DEF LiveAlone, ReplayOwed
    <2>3. cur = 1 /\ boot = "waiting"
      BY <2>1, <2>2 DEF StructInv, Lives, Places, ListenerRuns, ControlType, BootStates
    <2>4. CatchUpStart = 0
      <3>1. CatchUpStart # 0 => boot' = "replaying" /\ CatchUpStart' # 0
        <4>1. CatchUpStart # 0 => boot' = "replaying" /\ replay' = [replay EXCEPT !["boot"].stage = "head"]
          BY <1>1, <2>3 DEF ListenerSubscribed
        <4>2. replay["boot"] \in ReplayRecords /\ "boot" \in Replayers
              /\ replay \in [Replayers -> ReplayRecords]
          BY DEF StructInv, ReplayType, Replayers
        <4> QED
          BY <4>1, <4>2 DEF CatchUpStart, ReplayRecords
      <3> QED
        BY <2>1, <2>3, <3>1 DEF LiveAlone, ReplayOwed
    <2>5. base' = Max(base, head)
      BY <1>1, <2>3, <2>4 DEF ListenerSubscribed
    <2>6. head =< base' /\ runtime[cur].threshold =< head /\ runtime[cur].threshold \in Nat
      BY <1>0, <2>5 DEF Max, StructInv, Bounds, RuntimeRecords
    <2>7. \A b \in Blocks : base' < b => ~(b =< head) /\ ~(b =< runtime[cur].threshold)
      BY <1>0, <2>6
    <2> QED
      BY <2>1, <2>7 DEF LiveHolds, Owing
  <1>2. ASSUME ~ListenerSubscribed
        PROVE  /\ LiveAlone /\ cur' = cur /\ head' = head
               /\ runtime'[cur].threshold = runtime[cur].threshold
    <2>1. /\ UNCHANGED <<sup, pending, cur, head, boot, replay>>
      BY <1>2 DEF Listener, ListenerHandled, ListenerIgnores, ListenerBuffers, ListenerEmits, controlVars
    <2>2. /\ runtime'[cur].threshold = runtime[cur].threshold
          /\ runtime'[cur].phase = runtime[cur].phase /\ runtime'[cur].shut = runtime[cur].shut
      <3>1. CASE ListenerHandled
        BY <1>0, <3>1 DEF ListenerHandled, RuntimeRecords
      <3>2. ASSUME NEW x \in Items, ListenerIgnores(x) \/ ListenerBuffers(x) \/ ListenerEmits(x)
            PROVE  /\ runtime'[cur].threshold = runtime[cur].threshold
                   /\ runtime'[cur].phase = runtime[cur].phase /\ runtime'[cur].shut = runtime[cur].shut
        BY <1>0, <3>2 DEF ListenerIgnores, ListenerBuffers, ListenerEmits, RuntimeRecords
      <3> QED
        BY <1>2, <3>1, <3>2 DEF Listener
    <2> QED
      BY <2>1, <2>2 DEF LiveAlone, ListenerRuns, ReplayOwed, CatchUpStart
  <1>3. CASE ListenerHandled
    <2>1. /\ runtime'[cur].feed = runtime[cur].feed /\ store' = Handle(store, runtime[cur].handling)
          /\ cur' = cur
      BY <1>0, <1>3 DEF ListenerHandled, RuntimeRecords
    <2>2. ASSUME NEW b \in Blocks, runtime[cur].handling = EventOf(b)
          PROVE  b \in store'.handled
      BY <1>0, <2>1, <2>2 DEF Handle, EventOf, ControlType, Stores
    <2>3. Fed \subseteq Fed' \cup store'.handled
      BY <2>1, <2>2 DEF Fed, EventsIn
    <2> QED
      BY <1>0, <1>1, <1>2, <2>3, LiveMoves
  <1>4. ASSUME NEW x \in Items, ListenerIgnores(x)
        PROVE  LiveHolds'
    <2>1. CASE ListenerSubscribed
      BY <1>1, <2>1
    <2>2. CASE ~ListenerSubscribed
      <3>1. /\ cur' = cur /\ store' = store
            /\ runtime'[cur].feed = runtime[cur].feed \ {x}
            /\ runtime'[cur].handling = runtime[cur].handling
        BY <1>0, <1>4 DEF ListenerIgnores, RuntimeRecords, storeVars
      <3>2. x[1] =< runtime[cur].threshold /\ Owing(runtime[cur].threshold, {})
        BY <1>2, <1>4, <2>2 DEF ListenerIgnores, Ignored, LiveAlone, LiveDone
      <3>3. ASSUME NEW b \in Fed, base < b
            PROVE  b \in Fed' \cup store'.handled
        <4>1. b \in Blocks
          BY DEF Fed, EventsIn
        <4>2. CASE EventOf(b) = x
          BY <3>1, <3>2, <3>3, <4>1, <4>2 DEF EventOf, Owing
        <4>3. CASE EventOf(b) # x
          BY <3>1, <3>3, <4>1, <4>3 DEF Fed, EventsIn
        <4> QED
          BY <4>2, <4>3
      <3> QED
        BY <1>0, <1>2, <2>2, <3>3, LiveMoves
    <2> QED
      BY <2>1, <2>2
  <1>5. ASSUME NEW x \in Items, ListenerBuffers(x), ~ListenerSubscribed
        PROVE  FALSE
    <2>1. PICK p \in Replayers : RuntimeOf(p) = cur /\ replay[p].stage \in Flushing
      BY <1>5 DEF ListenerBuffers, Owned, RuntimeOf, Replayers
    <2>2. ReplayOwed
      BY <2>1, UnderWayIsOwed
    <2> QED
      BY <1>2, <1>5, <2>2 DEF LiveAlone
  <1>6. ASSUME NEW x \in Items, ListenerEmits(x), ~ListenerSubscribed
        PROVE  LiveHolds'
    <2>1. /\ cur' = cur
          /\ runtime'[cur].feed = runtime[cur].feed \ {x}
          /\ runtime'[cur].handling = x /\ runtime[cur].handling = NoItem
      BY <1>0, <1>6 DEF ListenerEmits, Takes, RuntimeRecords
    <2>2. Fed \subseteq Fed'
      BY <2>1, ItemFacts DEF Fed, EventsIn
    <2> QED
      BY <1>0, <1>2, <1>6, <2>2, LiveMoves
  <1> QED
    BY <1>1, <1>3, <1>4, <1>5, <1>6 DEF Listener

LEMMA LiveMines ==
  ASSUME StructInv, LiveDone, LiveAlone', MineBlock
  PROVE  LiveHolds'
  <1>0. /\ \A b \in Blocks : b \in Nat
        /\ cur \in Runtimes /\ runtime \in [Runtimes -> RuntimeRecords] /\ runtime[cur] \in RuntimeRecords
        /\ head \in Nat
    BY ItemFacts DEF StructInv, RuntimeType, ControlType
  <1>1. /\ UNCHANGED <<cur, sup, boot, pending, replay, base, store>> /\ head' = head + 1
        /\ runtime'[cur].phase = runtime[cur].phase /\ runtime'[cur].shut = runtime[cur].shut
        /\ runtime'[cur].threshold = runtime[cur].threshold
        /\ runtime'[cur].handling = runtime[cur].handling
        /\ runtime[cur].feed \subseteq runtime'[cur].feed
        /\ runtime[cur].phase = "live" => EventOf(head + 1) \in runtime'[cur].feed
    BY <1>0 DEF MineBlock, RuntimeRecords, storeVars, historyVars, controlVars
  <1>2. LiveAlone
    BY <1>1 DEF LiveAlone, ListenerRuns, ReplayOwed, CatchUpStart
  <1>3. Owing(head, Fed) /\ Owing(runtime[cur].threshold, {})
    BY <1>2 DEF LiveDone, LiveAlone
  <1>4. Fed \subseteq Fed' /\ (head + 1 \in Blocks => head + 1 \in Fed')
    BY <1>1, <1>2 DEF Fed, EventsIn, LiveAlone
  <1>5. \A b \in Blocks : b =< head + 1 => b =< head \/ b = head + 1
    BY <1>0
  <1> QED
    BY <1>1, <1>3, <1>4, <1>5 DEF LiveHolds, Owing

(* The end of a replay on the current runtime leaves nothing behind.         *)
LEMMA LiveAfterReplay ==
  ASSUME StructInv, ReplayDone, NEW p \in Replayers, ReplayCompletes(p), RuntimeOf(p) = cur,
         LiveAlone'
  PROVE  LiveHolds'
  <1>0. /\ \A b \in Blocks : b \in Nat
        /\ cur \in Runtimes /\ runtime \in [Runtimes -> RuntimeRecords] /\ runtime[cur] \in RuntimeRecords
        /\ replay[p] \in ReplayRecords
    BY ItemFacts DEF StructInv, RuntimeType, ReplayType
  <1>1. /\ UNCHANGED <<cur, head, store, base>>
        /\ runtime'[cur].phase = runtime[cur].phase /\ runtime'[cur].shut = runtime[cur].shut
        /\ runtime'[cur].threshold = runtime[cur].threshold
        /\ runtime'[cur].handling = runtime[cur].handling
        /\ runtime'[cur].feed = runtime[cur].feed
    BY <1>0 DEF ReplayCompletes, StopBuffering, RuntimeRecords, storeVars, historyVars
  <1>2. /\ replay[p].stage = "flush" /\ replay[p].handling = NoItem /\ replay[p].todo = {}
        /\ runtime[cur].buffer = {}
    BY DEF ReplayCompletes
  <1>3. Active(p) /\ runtime[cur].phase = "live"
    BY <1>1, <1>2 DEF Active, LiveAlone, Flushing
  <1>4. HeldBy(p) /\ runtime[cur].threshold =< replay[p].to
    BY <1>3 DEF ReplayDone, StructInv, Bounds
  <1>5. replay[p].next > replay[p].to /\ replay[p].next \in Nat /\ replay[p].to \in Nat
        /\ runtime[cur].threshold \in Nat
    BY <1>0, <1>2 DEF StructInv, ReplayShape, ReplayRecords, RuntimeRecords
  <1>6. Pend(p) = {} /\ Buf = {} /\ Rest(p) = {} /\ Fed' = Fed
    <2>1. Pend(p) = {}
      BY <1>2, ItemFacts DEF Pend, EventsIn
    <2>2. Buf = {} /\ Fed' = Fed
      BY <1>1, <1>2 DEF Buf, Fed, EventsIn
    <2>3. Rest(p) = {}
      BY <1>0, <1>5 DEF Rest
    <2> QED
      BY <2>1, <2>2, <2>3
  <1>7. Owing(head, Fed) /\ Owing(replay[p].next - 1, {})
    BY <1>3, <1>4, <1>6 DEF HeldBy
  <1>8. \A b \in Blocks : b =< runtime[cur].threshold => b =< replay[p].next - 1
    BY <1>0, <1>4, <1>5
  <1> QED
    BY <1>1, <1>6, <1>7, <1>8 DEF LiveHolds, Owing

LEMMA LiveStepDone ==
  ASSUME StructInv, StructInv', Owned, Gapless, [Next]_vars
  PROVE  LiveDone'
  <1>0. /\ cur \in Runtimes /\ 1 \in Runtimes
        /\ runtime \in [Runtimes -> RuntimeRecords] /\ runtime[cur] \in RuntimeRecords
        /\ replay \in [Replayers -> ReplayRecords]
        /\ \A q \in Replayers : replay[q] \in ReplayRecords
        /\ "boot" \in Replayers /\ "sup" \in Replayers
        /\ base \in Nat /\ base' \in Nat /\ ControlType
    BY FreshRuntimes DEF StructInv, RuntimeType, ReplayType, ControlType, Replayers
  <1> SUFFICES ASSUME LiveAlone'
               PROVE  LiveHolds'
    BY DEF LiveDone, LiveAlone, LiveHolds
  <1>1. CASE NewProcess \/ SupFinishesRestart \/ SupBeginsRestart \/ SupStops \/ ReconnectReplayFails
             \/ CheckpointFails
    BY <1>1 DEF NewProcess, Restart, Crash, StartProcess, SupFinishesRestart, SupBeginsRestart,
       BeginRestart, SupStops, ReconnectReplayFails, CheckpointFails, LiveAlone, ListenerRuns
  <1>2. ASSUME ~NewProcess
        PROVE  Grows
    BY <1>2, GrowsStep DEF StructInv
  <1>3. ASSUME LiveAlone, ~NewProcess, cur' = cur, head' = head, runtime'[cur] = runtime[cur]
        PROVE  LiveHolds'
    <2>1. runtime'[cur].threshold = runtime[cur].threshold /\ Fed' = Fed
      BY <1>3 DEF Fed
    <2> QED
      BY <1>0, <1>2, <1>3, <2>1, LiveMoves DEF Gapless
  <1>4. CASE Listener
    <2>1. ~NewProcess
      <3>1. NewProcess => sup' = "start"
        BY DEF NewProcess, Restart, Crash, StartProcess
      <3> QED
        BY <3>1 DEF LiveAlone, ListenerRuns
    <2> QED
      BY <1>2, <1>4, <2>1, LiveByListener DEF Gapless
  <1>5. CASE ListenerFailed
    <2>1. runtime'[cur].phase = "failed" /\ cur' = cur
      BY <1>0, <1>5 DEF ListenerFailed, RuntimeRecords
    <2> QED
      BY <2>1 DEF LiveAlone
  <1>6. CASE MineBlock
    BY <1>6, LiveMines DEF Gapless
  <1>7. CASE SupStarts
    <2>1. sup = "start" /\ UNCHANGED <<runtime, cur>>
      BY <1>7 DEF SupStarts, runtimeVars
    <2> QED
      BY <2>1 DEF StructInv, Lives, LiveAlone
  <1>8. CASE SupBeginsReplay
    <2>1. sup = "waiting" /\ pending' = pending
      BY <1>8 DEF SupBeginsReplay
    <2> QED
      BY <2>1 DEF StructInv, Places, LiveAlone, ReplayOwed
  <1>9. CASE RequestShutdown
    <2>1. runtime'[cur].shut /\ cur' = cur
      BY <1>0, <1>9 DEF RequestShutdown, RuntimeRecords
    <2> QED
      BY <2>1 DEF LiveAlone
  <1>10. CASE CheckpointEstablished
    <2>1. UNCHANGED <<runtime, cur, replay, sup, pending, head>> /\ boot = "checkpointing"
      BY <1>10 DEF CheckpointEstablished, runtimeVars
    <2>2. LiveAlone
      BY <2>1 DEF LiveAlone, ListenerRuns, ReplayOwed, CatchUpStart
    <2>3. ~NewProcess
      <3>1. NewProcess => sup' = "start"
        BY DEF NewProcess, Restart, Crash, StartProcess
      <3> QED
        BY <3>1 DEF LiveAlone, ListenerRuns
    <2> QED
      BY <1>3, <2>1, <2>2, <2>3
  <1>a. ~NewProcess
    <2>1. NewProcess => sup' = "start"
      BY DEF NewProcess, Restart, Crash, StartProcess
    <2> QED
      BY <2>1 DEF LiveAlone, ListenerRuns
  <1>11. CASE Exit
    <2>1. sup = "stopped" /\ sup' = sup
      BY <1>11 DEF Exit
    <2> QED
      BY <2>1 DEF LiveAlone, ListenerRuns
  <1>12. CASE Persist \/ UNCHANGED vars
    <2>1. UNCHANGED <<runtime, cur, replay, sup, pending, head, boot>>
      BY <1>12 DEF Persist, vars, runtimeVars, controlVars
    <2>2. LiveAlone
      BY <2>1 DEF LiveAlone, ListenerRuns, ReplayOwed, CatchUpStart
    <2> QED
      BY <1>3, <1>a, <2>1, <2>2
  <1>13. CASE CatchUpRetries
    <2>1. UNCHANGED <<runtime, cur, sup, pending, head, boot>>
      BY <1>13 DEF CatchUpRetries, runtimeVars, controlVars
    <2>2. replay'["boot"].start = replay["boot"].start
      BY <1>0, <1>13 DEF CatchUpRetries, ReplayRecords
    <2>3. LiveAlone
      BY <2>1, <2>2 DEF LiveAlone, ListenerRuns, ReplayOwed, CatchUpStart
    <2> QED
      BY <1>3, <1>a, <2>1, <2>3
  (* Beside the catch-up of a runtime that was replaced.                     *)
  <1>14. ASSUME cur # 1, UNCHANGED <<cur, sup, pending, head>>, runtime'[cur] = runtime[cur]
         PROVE  LiveHolds'
    <2>1. LiveAlone
      BY <1>14 DEF LiveAlone, ListenerRuns, ReplayOwed
    <2> QED
      BY <1>3, <1>a, <1>14, <2>1
  <1>15. CASE CatchUpGivesUp \/ (CatchUpFails /\ (stopping \/ cur # 1))
    <2>1. UNCHANGED <<cur, sup, pending, head>>
      BY <1>15 DEF CatchUpGivesUp, CatchUpFails, AfterReplay, runtimeVars
    <2>2. CASE cur # 1
      <3>1. runtime'[cur] = runtime[cur]
        BY <1>0, <1>15, <2>2 DEF CatchUpGivesUp, CatchUpFails, StopBuffering, runtimeVars
      <3> QED
        BY <1>14, <2>1, <2>2, <3>1
    <2>3. CASE cur = 1
      <3>1. stopping
        BY <1>15, <2>3 DEF CatchUpGivesUp
      <3>2. runtime[cur].shut
        BY <2>3, <3>1 DEF StructInv, Lives
      <3>3. runtime'[cur].shut
        <4>1. CatchUpGivesUp => runtime' = runtime
          BY DEF CatchUpGivesUp, runtimeVars
        <4>2. CatchUpFails => runtime'[1].shut = runtime[1].shut
          BY <1>0 DEF CatchUpFails, StopBuffering, RuntimeRecords
        <4> QED
          BY <1>15, <2>3, <3>2, <4>1, <4>2
      <3> QED
        BY <2>1, <3>3 DEF LiveAlone
    <2> QED
      BY <2>2, <2>3
  <1>16. CASE CatchUpFails /\ ~(stopping \/ cur # 1)
    <2>1. /\ UNCHANGED <<cur, boot>> /\ cur = 1
          /\ replay' = [replay EXCEPT !["boot"].stage = "sleep",
                                      !["boot"].start = Max(@, store.checkpoint + 1)]
      BY <1>16 DEF CatchUpFails, controlVars
    <2>2. replay'["boot"].stage = "sleep"
      BY <1>0, <2>1 DEF ReplayRecords
    <2>3. replay["boot"].stage # "off"
      BY <1>16 DEF CatchUpFails
    <2>4. boot = "replaying" /\ CatchUpStart' # 0
      BY <1>0, <2>2, <2>3 DEF StructInv, BootReplays, Places, CatchUpStart
    <2> QED
      BY <2>1, <2>4 DEF LiveAlone, ReplayOwed
  <1>17. ASSUME NEW p \in Replayers, Replay(p)
         PROVE  LiveHolds'
    <2>0. replay[p].stage \in Flushing \cup {"head"}
      BY <1>17 DEF Replay, ReplayBegins, ReplayFetches, ReplayFetchedAll, ReplayEmits, ReplayHandled,
         FlushRound, ReplayCompletes, ReplayInterrupted, Flushing, StructInv, ReplayShape
    <2>1. CASE RuntimeOf(p) = cur
      <3>1. CASE ReplayCompletes(p)
        BY <2>1, <3>1, LiveAfterReplay DEF Gapless
      <3>2. CASE ReplayInterrupted(p)
        <4>1. runtime'[cur].shut /\ cur' = cur
          BY <1>0, <2>1, <3>2 DEF ReplayInterrupted, StopBuffering, RuntimeRecords
        <4> QED
          BY <4>1 DEF LiveAlone
      <3>3. CASE ~ReplayCompletes(p) /\ ~ReplayInterrupted(p)
        <4>1. UNCHANGED <<cur, sup, pending, boot>>
          BY <1>17, <3>3 DEF Replay, ReplayBegins, ReplayFetches, ReplayFetchedAll, ReplayEmits,
             ReplayHandled, FlushRound, runtimeVars, controlVars
        <4>2. CatchUpStart' = CatchUpStart
          <5>1. CASE ReplayBegins(p) \/ ReplayFetches(p) \/ ReplayFetchedAll(p) \/ FlushRound(p)
            BY <1>0, <5>1 DEF ReplayBegins, ReplayFetches, ReplayFetchedAll, FlushRound, CatchUpStart,
               ReplayRecords
          <5>2. CASE ReplayEmits(p)
            BY <1>0, <5>2 DEF ReplayEmits, CatchUpStart, ReplayRecords
          <5>3. CASE ReplayHandled(p)
            BY <1>0, <5>3 DEF ReplayHandled, CatchUpStart, ReplayRecords
          <5> QED
            BY <1>17, <3>3, <5>1, <5>2, <5>3 DEF Replay
        <4>3. ReplayOwed
          BY <2>0, <2>1, UnderWayIsOwed
        <4> QED
          BY <4>1, <4>2, <4>3 DEF LiveAlone, ReplayOwed
      <3> QED
        BY <3>1, <3>2, <3>3
    <2>2. CASE RuntimeOf(p) # cur
      <3>1. p = "boot" /\ cur # 1 /\ RuntimeOf(p) = 1
        BY <2>2 DEF RuntimeOf
      <3>2. UNCHANGED <<cur, sup, pending, head>> /\ runtime'[cur] = runtime[cur]
        BY <1>0, <1>17, <2>2, <3>1 DEF Replay, ReplayBegins, ReplayFetches, ReplayFetchedAll, ReplayEmits,
           ReplayHandled, FlushRound, ReplayCompletes, ReplayInterrupted, AfterReplay, StopBuffering,
           runtimeVars, controlVars
      <3> QED
        BY <1>14, <3>1, <3>2
    <2> QED
      BY <2>1, <2>2
  <1> QED
    BY <1>1, <1>4, <1>5, <1>6, <1>7, <1>8, <1>9, <1>10, <1>11, <1>12, <1>13, <1>15, <1>16, <1>17
    DEF Next, Supervisor, Bootstrap, Environment, NewProcess

GapInv == OwnerInv /\ StructInv /\ (overtaken \/ Gapless)

(* No restart, reconnect, failed or interrupted replay loses an event: up to *)
(* the checkpoint, from where the process starts again, every event was      *)
(* handled, unless a live head overtook a replay that was still owed.        *)
THEOREM GapOnlyByOvertaking == Spec => []GapOnlyIfOvertaken
  <1>1. Init => GapInv
    <2> SUFFICES ASSUME Init
                 PROVE  GapInv
      OBVIOUS
    <2>1. IInv /\ StructInv
      BY StructInit
    <2>2. Owned
      BY FreshRuntimes DEF Init, NewRuntime, Owned
    <2>3. /\ \A b \in Blocks : b \in Nat
          /\ cur = 1 /\ sup = "start" /\ pending = 0 /\ 1 \in Runtimes
          /\ store = [checkpoint |-> 0, handled |-> {}] /\ saved = store
          /\ BackfillStart(0) \in Nat
          /\ base = IF BackfillStart(0) = 0 THEN 0 ELSE BackfillStart(0) - 1
      BY FreshRuntimes, ItemFacts, BackfillStartType DEF Init
    <2>4. runtime[cur].handling = NoItem /\ \A p \in Replayers : replay[p].handling = NoItem
      BY <2>3 DEF Init, NewRuntime, NoReplay
    <2>5. \A p \in Replayers : replay[p].stage = "off" /\ replay[p].start \in {0, BackfillStart(0)}
      BY DEF Init, NoReplay
    <2>6. StoreDone /\ SavedDone
      BY <2>1, <2>3 DEF StoreDone, SavedDone, Owing
    <2>7. HandlingDone
      BY <2>4, ItemFacts DEF HandlingDone
    <2>8. StartsDone
      BY <2>3, <2>5 DEF StartsDone, Owing
    <2>9. ReplayDone /\ LiveDone
      BY <2>3, <2>5 DEF ReplayDone, Active, Flushing, LiveDone, ListenerRuns
    <2> QED
      BY <2>1, <2>2, <2>6, <2>7, <2>8, <2>9 DEF GapInv, OwnerInv, StructInv, Gapless
  <1>2. GapInv /\ [Next]_vars => GapInv'
    <2> SUFFICES ASSUME GapInv, [Next]_vars
                 PROVE  GapInv'
      OBVIOUS
    <2>1. OwnerInv /\ IInv /\ StructInv /\ Owned
      BY DEF GapInv, OwnerInv
    <2>2. OwnerInv'
      BY <2>1, OwnerStep
    <2>3. StructInv'
      BY <2>1, StructStep
    <2>4. overtaken => overtaken'
      BY DEF Next, MineBlock, Listener, ListenerSubscribed, ListenerHandled, ListenerIgnores,
       ListenerBuffers, ListenerEmits, Supervisor, SupStarts, SupBeginsReplay, SupBeginsRestart,
       SupFinishesRestart, SupStops, Bootstrap, CatchUpGivesUp, CatchUpRetries,
       CheckpointEstablished, Exit, Restart, Environment, ListenerFailed, CatchUpFails,
       ReconnectReplayFails, CheckpointFails, Persist, RequestShutdown, Crash, Replay, ReplayBegins,
       ReplayFetches, ReplayFetchedAll, ReplayEmits, ReplayHandled, FlushRound, ReplayCompletes,
       ReplayInterrupted, vars, historyVars
    <2>5. ASSUME ~overtaken'
          PROVE  Gapless'
      <3>1. Gapless
        BY <2>4, <2>5 DEF GapInv
      <3>2. StoreDone' /\ SavedDone'
        BY <2>1, <3>1, StoreStepDone DEF Gapless
      <3>3. HandlingDone'
        BY <2>1, <2>3, <2>5, <3>1, HandlingStepDone DEF StructInv
      <3>4. StartsDone' /\ ReplayDone' /\ LiveDone'
        BY <2>1, <2>3, <3>1, StartsStepDone, ReplayStepDone, LiveStepDone
      <3> QED
        BY <3>2, <3>3, <3>4 DEF Gapless
    <2> QED
      BY <2>2, <2>3, <2>5 DEF GapInv
  <1>3. GapInv => GapOnlyIfOvertaken
    <2> SUFFICES ASSUME GapInv, ~overtaken, NEW b \in (base + 1)..store.checkpoint
                 PROVE  b \in store.handled
      BY DEF GapOnlyIfOvertaken, NoGap
    <2>1. StoreDone /\ base \in Nat /\ store.checkpoint \in Blocks
      BY DEF GapInv, Gapless, StructInv, ControlType, Stores
    <2>2. b \in Blocks /\ base < b /\ b =< store.checkpoint
      BY <2>1, ChainAssumption DEF Blocks
    <2> QED
      BY <2>1, <2>2 DEF StoreDone, Owing
  <1> QED
    BY <1>1, <1>2, <1>3, PTL DEF Spec

(* With BLOCK_FROM set, start-up replays and never guesses a checkpoint.     *)
HasHistory == replay["boot"].start # 0 /\ boot # "checkpointing"

LEMMA HistoryStep ==
  ASSUME BlockFrom \in Nat \ {0}, StructInv, HasHistory, [Next]_vars
  PROVE  HasHistory'
  <1> USE DEF StructInv, HasHistory
  <1>0. /\ "boot" \in Replayers /\ "sup" \in Replayers
        /\ replay \in [Replayers -> ReplayRecords] /\ replay["boot"] \in ReplayRecords
        /\ store.checkpoint \in Nat /\ replay["boot"].start \in Nat \ {0}
    <2>1. store.checkpoint \in Nat
      BY BlockArithmetic DEF ControlType, Stores
    <2>2. "boot" \in Replayers /\ "sup" \in Replayers
      BY DEF Replayers
    <2>3. replay["boot"] \in ReplayRecords
      BY <2>2 DEF ReplayType
    <2> QED
      BY <2>1, <2>2, <2>3 DEF ReplayType, ReplayRecords
  <1>1. boot' # "checkpointing"
    BY DEF Next, MineBlock, Listener, ListenerSubscribed, ListenerHandled, ListenerIgnores,
       ListenerBuffers, ListenerEmits, Supervisor, SupStarts, SupBeginsReplay, SupBeginsRestart,
       SupFinishesRestart, SupStops, Bootstrap, CatchUpGivesUp, CatchUpRetries, BeginRestart,
       CheckpointEstablished, Exit, Restart, Environment, ListenerFailed, CatchUpFails,
       ReconnectReplayFails, CheckpointFails, Persist, RequestShutdown, Crash, Replay, ReplayBegins,
       ReplayFetches, ReplayFetchedAll, ReplayEmits, ReplayHandled, FlushRound, ReplayCompletes,
       ReplayInterrupted, vars, AfterReplay, StartProcess, controlVars, CatchUpStart
  <1>2. replay'["boot"].start # 0
    <2>1. CASE NewProcess
      <3>1. replay'["boot"] = [NoReplay EXCEPT !.start = BackfillStart(saved.checkpoint)]
        BY <1>0, <2>1 DEF NewProcess, Restart, Crash, StartProcess
      <3>2. replay'["boot"].start = BackfillStart(saved.checkpoint)
        BY <3>1 DEF NoReplay
      <3> QED
        BY <3>2, BlockFromAssumption DEF BackfillStart
    <2>2. CASE CatchUpFails /\ ~AfterReplay("boot")
      <3>1. replay' = [replay EXCEPT !["boot"].stage = "sleep",
                                      !["boot"].start = Max(@, store.checkpoint + 1)]
        BY <2>2 DEF CatchUpFails
      <3>2. replay'["boot"].start = Max(replay["boot"].start, store.checkpoint + 1)
        BY <1>0, <3>1 DEF ReplayRecords
      <3> QED
        BY <1>0, <3>2 DEF Max
    <2>3. ASSUME NEW q \in Replayers, replay' = [replay EXCEPT ![q] = Returned(q)]
          PROVE  replay'["boot"].start # 0
      BY <1>0, <2>3, ReturnedFields
    <2>4. CASE SupBeginsReplay \/ CheckpointFails \/ BeginRestart
      BY <1>0, <2>4 DEF SupBeginsReplay, CheckpointFails, BeginRestart
    <2>5. CASE ListenerSubscribed \/ CatchUpRetries
      BY <1>0, <2>5 DEF ListenerSubscribed, CatchUpRetries, ReplayRecords
    <2>6. ASSUME NEW q \in Replayers, Replay(q)
          PROVE  replay'["boot"].start # 0
      <3>1. CASE ReplayCompletes(q) \/ ReplayInterrupted(q)
        BY <2>3, <3>1 DEF ReplayCompletes, ReplayInterrupted, AfterReplay
      <3>2. CASE ReplayBegins(q) \/ ReplayFetches(q) \/ ReplayFetchedAll(q) \/ FlushRound(q)
        BY <1>0, <3>2 DEF ReplayBegins, ReplayFetches, ReplayFetchedAll, FlushRound, ReplayRecords
      <3>3. CASE ReplayEmits(q)
        BY <1>0, <3>3 DEF ReplayEmits, ReplayRecords
      <3>4. CASE ReplayHandled(q)
        BY <1>0, <3>4 DEF ReplayHandled, ReplayRecords
      <3> QED
        BY <2>6, <3>1, <3>2, <3>3, <3>4 DEF Replay
    <2>7. CASE replay' = replay
      BY <2>7
    <2> QED
      BY <1>0, <2>1, <2>2, <2>3, <2>4, <2>5, <2>6, <2>7
      DEF Next, MineBlock, Listener, ListenerHandled, ListenerIgnores, ListenerBuffers, ListenerEmits,
         Supervisor, SupStarts, SupBeginsRestart, SupFinishesRestart, SupStops, Bootstrap,
         CatchUpGivesUp, CheckpointEstablished, Exit, NewProcess, Environment, ListenerFailed,
         ReconnectReplayFails, Persist, RequestShutdown, AfterReplay, vars
  <1> QED
    BY <1>1, <1>2

HistoryInv == OwnerInv /\ StructInv /\ HasHistory

(* A late marker, live or replayed, never moves the checkpoint back while    *)
(* the process runs, if BLOCK_FROM gives it a history to replay: only a new  *)
(* process, which reads the saved checkpoint, may start behind.              *)
THEOREM CheckpointOnlyForward ==
  ASSUME BlockFrom \in Nat \ {0}
  PROVE  Spec => CheckpointNeverRegresses
  <1>1. Init => HistoryInv
    <2> SUFFICES ASSUME Init
                 PROVE  HistoryInv
      OBVIOUS
    <2>1. IInv /\ StructInv
      BY StructInit
    <2>2. Owned
      BY FreshRuntimes DEF Init, NewRuntime, Owned
    <2>3. replay["boot"].start = BackfillStart(0) /\ boot = "waiting"
      BY DEF Init, NoReplay, Replayers
    <2>4. HasHistory
      BY <2>3, BlockFromAssumption DEF HasHistory, BackfillStart
    <2> QED
      BY <2>1, <2>2, <2>4 DEF HistoryInv, OwnerInv, StructInv
  <1>2. HistoryInv /\ [Next]_vars => HistoryInv'
    <2> SUFFICES ASSUME HistoryInv, [Next]_vars
                 PROVE  HistoryInv'
      OBVIOUS
    <2>1. IInv
      BY DEF HistoryInv, OwnerInv
    <2> QED
      BY <2>1, OwnerStep, StructStep, HistoryStep DEF HistoryInv
  <1>3. HistoryInv /\ [Next]_vars
          => [Crash \/ Restart \/ store'.checkpoint >= store.checkpoint]_vars
    <2> SUFFICES ASSUME HistoryInv, Next, ~Crash, ~Restart
                 PROVE  store'.checkpoint >= store.checkpoint
      OBVIOUS
    <2>0. /\ store \in Stores /\ store.checkpoint \in Nat /\ boot # "checkpointing"
          /\ runtime[cur] \in RuntimeRecords
          /\ \A p \in Replayers : replay[p] \in ReplayRecords
      <3>1. store.checkpoint \in Blocks /\ Blocks \subseteq Nat
        BY BlockArithmetic DEF HistoryInv, StructInv, ControlType, Stores
      <3> QED
        BY <3>1 DEF HistoryInv, StructInv, ControlType, HasHistory, RuntimeType, ReplayType
    <2>1. ASSUME NEW x \in Items, store' = Handle(store, x)
          PROVE  store'.checkpoint >= store.checkpoint
      <3>1. x[1] \in Nat
        BY ItemFacts
      <3>2. CASE x[2] = 0
        BY <2>0, <2>1, <3>2 DEF Handle, Stores
      <3>3. CASE x[2] # 0
        <4>1. store'.checkpoint = Max(store.checkpoint, x[1])
          BY <2>0, <2>1, <3>3 DEF Handle, Stores
        <4> QED
          BY <2>0, <3>1, <4>1 DEF Max
      <3> QED
        BY <3>2, <3>3
    <2>2. CASE ListenerHandled
      <3>1. runtime[cur].handling \in Items
        BY <2>0, <2>2 DEF ListenerHandled, RuntimeRecords
      <3> QED
        BY <2>1, <2>2, <3>1 DEF ListenerHandled
    <2>3. ASSUME NEW p \in Replayers, ReplayHandled(p)
          PROVE  store'.checkpoint >= store.checkpoint
      <3>1. replay[p].handling \in Items
        BY <2>0, <2>3 DEF ReplayHandled, ReplayRecords
      <3> QED
        BY <2>1, <2>3, <3>1 DEF ReplayHandled
    <2>4. CASE store' = store
      BY <2>0, <2>4
    <2> QED
      BY <2>0, <2>2, <2>3, <2>4
      DEF Next, MineBlock, Listener, ListenerSubscribed, ListenerIgnores,
       ListenerBuffers, ListenerEmits, Supervisor, SupStarts, SupBeginsReplay, SupBeginsRestart,
       SupFinishesRestart, SupStops, Bootstrap, CatchUpGivesUp, CatchUpRetries,
       CheckpointEstablished, Exit, Environment, ListenerFailed, CatchUpFails,
       ReconnectReplayFails, CheckpointFails, Persist, RequestShutdown, Replay, ReplayBegins,
       ReplayFetches, ReplayFetchedAll, ReplayEmits, FlushRound, ReplayCompletes,
       ReplayInterrupted, storeVars
  <1> QED
    BY <1>1, <1>2, <1>3, PTL DEF Spec, CheckpointNeverRegresses

-----------------------------------------------------------------------------
(* What a turn of a task may still have to write.                            *)
MarkLists ==
  { <<>>, <<"active">>, <<"active", "startup", "catchup">>, <<"startup", "catchup">>,
    <<"catchup">>, <<"caughtup">>, <<"progress">>, <<"startup">>, <<"inactive">>,
    <<"shutdown", "inactive">>, <<"fatal", "shutdown", "inactive">> }
Due(m) == \E i \in DOMAIN marks : marks[i] = m

HealthRecords ==
  [startup : BOOLEAN, active : BOOLEAN, catchup : BOOLEAN,
   shuttingDown : BOOLEAN, fatal : BOOLEAN, progress : {"none", "fresh", "stale"}]

FlagsType == health \in HealthRecords /\ stopTask \in BOOLEAN /\ early \in BOOLEAN

(* The flags as the turn under way will leave them.                          *)
ActiveIsLive ==
  Due("active") \/ (health.active /\ ~Due("inactive")) => runtime[cur].phase = "live"
StartedUp == Due("startup") \/ health.startup => boot # "waiting"
ExitIsTold == boot = "exited" => Due("shutdown") \/ health.shuttingDown
OwedIsTold ==
  ReplayOwed => \/ boot \in {"waiting", "exited"}
                \/ health.catchup \/ Due("catchup") \/ Due("caughtup") \/ early

HealthInv ==
  /\ marks \in MarkLists /\ FlagsType
  /\ ActiveIsLive /\ StartedUp /\ ExitIsTold /\ OwedIsTold

(* The writes that are left after the first one.                             *)
LEMMA FirstMark ==
  ASSUME marks \in MarkLists, marks # <<>>, marks' = Tail(marks)
  PROVE  /\ Head(marks) \in Marks /\ marks' \in MarkLists /\ Due(Head(marks))
         /\ \A m \in Marks : Due(m)' <=> Due(m) /\ m # Head(marks)
  <1>1. CASE \E x \in Marks : marks = <<x>>
    <2>1. PICK x \in Marks : marks = <<x>>
      BY <1>1
    <2>2. marks' = <<>> /\ Head(marks) = x
      BY <2>1
    <2>3. \A m \in Marks : ~Due(m)' /\ (Due(m) <=> m = x)
      BY <2>1, <2>2 DEF Due
    <2> QED
      BY <2>1, <2>2, <2>3 DEF MarkLists
  <1>2. CASE \E x, y \in Marks : x # y /\ marks = <<x, y>>
    <2>1. PICK x \in Marks, y \in Marks : x # y /\ marks = <<x, y>>
      BY <1>2
    <2>2. marks' = <<y>> /\ Head(marks) = x
      BY <2>1
    <2>3. \A m \in Marks : (Due(m)' <=> m = y) /\ (Due(m) <=> m = x \/ m = y)
      BY <2>1, <2>2 DEF Due
    <2>4. y \in {"inactive", "catchup"}
      BY <2>1 DEF MarkLists
    <2> QED
      BY <2>1, <2>2, <2>3, <2>4 DEF MarkLists
  <1>3. CASE \/ marks = <<"active", "startup", "catchup">>
             \/ marks = <<"fatal", "shutdown", "inactive">>
    <2>1. PICK x \in Marks, y \in Marks, z \in Marks :
            /\ x # y /\ y # z /\ x # z /\ marks = <<x, y, z>>
            /\ <<y, z>> \in MarkLists
      BY <1>3 DEF Marks, MarkLists
    <2>2. marks' = <<y, z>> /\ Head(marks) = x
      BY <2>1
    <2>3. \A m \in Marks : (Due(m)' <=> m = y \/ m = z) /\ (Due(m) <=> m = x \/ m = y \/ m = z)
      BY <2>1, <2>2 DEF Due
    <2> QED
      BY <2>1, <2>2, <2>3
  <1> QED
    BY <1>1, <1>2, <1>3 DEF MarkLists, Marks

LEMMA MarksAreMarks ==
  ASSUME marks \in MarkLists
  PROVE  marks \in Seq(Marks) /\ Len(marks) =< 3 /\ (marks = <<>> => \A m : ~Due(m))
  <1>1. \A x, y, z \in Marks :
          /\ <<x>> \in Seq(Marks) /\ Len(<<x>>) =< 3
          /\ <<x, y>> \in Seq(Marks) /\ Len(<<x, y>>) =< 3
          /\ <<x, y, z>> \in Seq(Marks) /\ Len(<<x, y, z>>) =< 3
    OBVIOUS
  <1>2. <<>> \in Seq(Marks) /\ Len(<<>>) =< 3
    OBVIOUS
  <1>3. marks \in Seq(Marks) /\ Len(marks) =< 3
    <2>1. CASE marks = <<>>
      BY <1>2, <2>1
    <2>2. CASE marks # <<>>
      <3>1. \E x, y, z \in Marks : marks = <<x>> \/ marks = <<x, y>> \/ marks = <<x, y, z>>
        BY <2>2 DEF MarkLists, Marks
      <3> QED
        BY <1>1, <3>1
    <2> QED
      BY <2>1, <2>2
  <1>4. marks = <<>> => \A m : ~Due(m)
    BY DEF Due
  <1> QED
    BY <1>3, <1>4

LEMMA DueMarks ==
  /\ marks' = <<>> => \A m \in Marks : ~Due(m)'
  /\ \A x \in Marks : marks' = <<x>> => \A m \in Marks : Due(m)' <=> m = x
  /\ marks' = <<"active", "startup", "catchup">>
       => \A m \in Marks : Due(m)' <=> m \in {"active", "startup", "catchup"}
  /\ marks' = <<"shutdown", "inactive">>
       => \A m \in Marks : Due(m)' <=> m \in {"shutdown", "inactive"}
  /\ marks' = <<"fatal", "shutdown", "inactive">>
       => \A m \in Marks : Due(m)' <=> m \in {"fatal", "shutdown", "inactive"}
  BY DEF Due

(* What is reported is the runtime of SubscriptionRuntime, whose steps the   *)
(* writes come between.                                                      *)
LEMMA HealthStep == [HNext]_allVars => [Next]_vars
  <1> SUFFICES ASSUME HNext
               PROVE  Next \/ UNCHANGED vars
    BY DEF allVars
  <1>1. CASE MakeMark
    BY <1>1 DEF MakeMark
  <1>2. CASE HListener
    BY <1>2 DEF HListener, Listener, Next
  <1>3. CASE HSupervisor
    BY <1>3 DEF HSupervisor, Supervisor, Next
  <1>4. CASE HBootstrap
    BY <1>4 DEF HBootstrap, Bootstrap, Next
  <1>5. CASE HEnvironment
    BY <1>5 DEF HEnvironment, HListenerFailed, HCatchUpFails, HReconnectReplayFails,
       HCheckpointFails, HRequestShutdown, HStartAgain, StopTaskEnds, PollChainHead,
       HalfHourPasses, Environment, Bootstrap, Next
  <1>6. CASE \E p \in Replayers : HReplay(p)
    BY <1>6 DEF HReplay, Next
  <1> QED
    BY <1>1, <1>2, <1>3, <1>4, <1>5, <1>6 DEF HNext

THEOREM HealthImplementsRuntime == HSpec => Spec
  <1>1. HealthInit => Init
    BY DEF HealthInit
  <1> QED
    BY <1>1, HealthStep, PTL DEF HSpec, Spec

(* The steps that neither make nor lose the connection, nor replace the      *)
(* runtime, nor end or begin a process.                                      *)
Ordinary ==
  \/ ListenerHandled
  \/ \E x \in Items : ListenerIgnores(x) \/ ListenerBuffers(x) \/ ListenerEmits(x)
  \/ SupStarts \/ SupBeginsReplay \/ SupStops
  \/ CatchUpGivesUp \/ CatchUpRetries \/ CheckpointEstablished
  \/ MineBlock \/ Persist \/ CatchUpFails \/ RequestShutdown
  \/ ReconnectReplayFails /\ stopping
  \/ \E p \in Replayers : Replay(p)
  \/ UNCHANGED vars

(* They leave a subscription in place and owe no replay that was not owed.   *)
LEMMA OrdinaryPhase ==
  ASSUME StructInv, Ordinary
  PROVE  cur' = cur /\ (runtime[cur].phase = "live" => runtime'[cur].phase = "live")
  <1>0. /\ runtime \in [Runtimes -> RuntimeRecords] /\ cur \in Runtimes /\ runtime[cur] \in RuntimeRecords
        /\ 1 \in Runtimes
    BY FreshRuntimes DEF StructInv, RuntimeType
  <1>1. CASE runtime' = runtime /\ cur' = cur
    BY <1>1
  <1>2. CASE ListenerHandled
    BY <1>0, <1>2 DEF ListenerHandled, RuntimeRecords
  <1>7. ASSUME NEW x \in Items, ListenerIgnores(x) \/ ListenerBuffers(x) \/ ListenerEmits(x)
        PROVE  cur' = cur /\ (runtime[cur].phase = "live" => runtime'[cur].phase = "live")
    BY <1>0, <1>7 DEF ListenerIgnores, ListenerBuffers, ListenerEmits, RuntimeRecords
  <1>3. CASE MineBlock \/ RequestShutdown
    BY <1>0, <1>3 DEF MineBlock, RequestShutdown, RuntimeRecords
  <1>4. ASSUME NEW r \in Runtimes, StopBuffering(r), cur' = cur
        PROVE  cur' = cur /\ (runtime[cur].phase = "live" => runtime'[cur].phase = "live")
    BY <1>0, <1>4 DEF StopBuffering, RuntimeRecords
  <1>5. CASE CatchUpFails \/ (ReconnectReplayFails /\ stopping)
    BY <1>0, <1>4, <1>5 DEF CatchUpFails, ReconnectReplayFails
  <1>6. ASSUME NEW p \in Replayers, Replay(p)
        PROVE  cur' = cur /\ (runtime[cur].phase = "live" => runtime'[cur].phase = "live")
    <2>1. RuntimeOf(p) \in Runtimes
      BY <1>0 DEF RuntimeOf
    <2>2. CASE ReplayBegins(p) \/ FlushRound(p)
      BY <1>0, <2>1, <2>2 DEF ReplayBegins, FlushRound, RuntimeRecords
    <2>3. CASE ReplayCompletes(p) \/ ReplayInterrupted(p)
      BY <1>4, <2>1, <2>3 DEF ReplayCompletes, ReplayInterrupted
    <2>4. CASE ReplayFetches(p) \/ ReplayFetchedAll(p) \/ ReplayEmits(p) \/ ReplayHandled(p)
      BY <1>1, <2>4 DEF ReplayFetches, ReplayFetchedAll, ReplayEmits, ReplayHandled, runtimeVars
    <2> QED
      BY <1>6, <2>2, <2>3, <2>4 DEF Replay
  <1> QED
    BY <1>1, <1>2, <1>3, <1>5, <1>6, <1>7 DEF Ordinary, SupStarts, SupBeginsReplay, SupStops, CatchUpGivesUp,
       CatchUpRetries, CheckpointEstablished, Persist, vars, runtimeVars

(* They neither reach the end of the process nor owe a replay anew.          *)
LEMMA OrdinaryOwed ==
  ASSUME StructInv, Ordinary
  PROVE  /\ boot' = "waiting" <=> boot = "waiting"
         /\ boot' = "exited" <=> boot = "exited"
         /\ ReplayOwed' => ReplayOwed
  <1> DEFINE Kept == /\ boot' = "waiting" <=> boot = "waiting"
                     /\ boot' = "exited" <=> boot = "exited"
                     /\ ReplayOwed' => ReplayOwed
  <1>0. /\ "boot" \in Replayers /\ "sup" \in Replayers
        /\ replay \in [Replayers -> ReplayRecords]
        /\ \A p \in Replayers : replay[p] \in ReplayRecords
        /\ cur' = cur
    BY OrdinaryPhase DEF Replayers, StructInv, ReplayType
  <1>1. ASSUME UNCHANGED <<boot, sup, pending>>,
               replay'["boot"].start = replay["boot"].start
        PROVE  Kept
    BY <1>0, <1>1 DEF ReplayOwed, CatchUpStart
  <1>2. ASSUME NEW p \in Replayers, AfterReplay(p), boot = "replaying" \/ p = "sup"
        PROVE  Kept
    <2>1. replay'["boot"].start = replay["boot"].start
      BY <1>0, <1>2, ReturnedFields DEF AfterReplay, StructInv
    <2>2. CASE p = "boot"
      BY <1>0, <1>2, <2>1, <2>2 DEF AfterReplay, ReplayOwed, CatchUpStart
    <2>3. CASE p # "boot"
      BY <1>0, <1>2, <2>1, <2>3 DEF AfterReplay, ReplayOwed, CatchUpStart
    <2> QED
      BY <2>2, <2>3
  <1>3. CASE ListenerHandled
    BY <1>1, <1>3 DEF ListenerHandled, controlVars
  <1>4. ASSUME NEW x \in Items, ListenerIgnores(x) \/ ListenerBuffers(x) \/ ListenerEmits(x)
        PROVE  Kept
    BY <1>1, <1>4 DEF ListenerIgnores, ListenerBuffers, ListenerEmits, controlVars
  <1>5. CASE SupStarts \/ SupStops
    BY <1>0, <1>5 DEF SupStarts, SupStops, ReplayOwed, CatchUpStart
  <1>6. CASE SupBeginsReplay
    BY <1>0, <1>6 DEF SupBeginsReplay, ReplayOwed, CatchUpStart
  <1>7. CASE CatchUpGivesUp
    BY <1>0, <1>2, <1>7 DEF CatchUpGivesUp, StructInv, BootReplays
  <1>8. CASE CatchUpRetries
    BY <1>0, <1>1, <1>8 DEF CatchUpRetries, controlVars, ReplayRecords
  <1>9. CASE CheckpointEstablished
    BY <1>0, <1>9 DEF CheckpointEstablished, ReplayOwed, CatchUpStart
  <1>10. CASE MineBlock \/ Persist \/ RequestShutdown \/ UNCHANGED vars
    BY <1>1, <1>10 DEF MineBlock, Persist, RequestShutdown, vars, controlVars
  <1>11. CASE CatchUpFails
    <2>1. boot = "replaying" /\ replay["boot"].start # 0
      BY <1>0, <1>11 DEF CatchUpFails, StructInv, BootReplays, Places
    <2>2. CASE AfterReplay("boot")
      BY <1>0, <1>2, <2>1, <2>2
    <2>3. CASE UNCHANGED controlVars
      BY <1>0, <2>1, <2>3 DEF controlVars, ReplayOwed, CatchUpStart
    <2> QED
      BY <1>11, <2>2, <2>3 DEF CatchUpFails
  <1>12. CASE ReconnectReplayFails /\ stopping
    <2>1. replay'["boot"].start = replay["boot"].start
      BY <1>0, <1>12 DEF ReconnectReplayFails
    <2> QED
      BY <1>0, <1>12, <2>1 DEF ReconnectReplayFails, ReplayOwed, CatchUpStart
  <1>13. ASSUME NEW p \in Replayers, Replay(p)
         PROVE  Kept
    <2>1. CASE ReplayBegins(p) \/ ReplayFetches(p) \/ ReplayFetchedAll(p) \/ FlushRound(p)
      BY <1>0, <1>1, <2>1 DEF ReplayBegins, ReplayFetches, ReplayFetchedAll, FlushRound,
         ReplayRecords, controlVars
    <2>2. CASE ReplayEmits(p)
      BY <1>0, <1>1, <2>2 DEF ReplayEmits, ReplayRecords, controlVars
    <2>3. CASE ReplayHandled(p)
      BY <1>0, <1>1, <2>3 DEF ReplayHandled, ReplayRecords, controlVars
    <2>4. CASE ReplayCompletes(p) \/ ReplayInterrupted(p)
      BY <1>0, <1>2, <2>4 DEF ReplayCompletes, ReplayInterrupted, StructInv, BootReplays, Replayers
    <2> QED
      BY <1>13, <2>1, <2>2, <2>3, <2>4 DEF Replay
  <1> QED
    BY <1>3, <1>4, <1>5, <1>6, <1>7, <1>8, <1>9, <1>10, <1>11, <1>12, <1>13 DEF Ordinary

LEMMA HealthInitially == HealthInit => HealthInv
  <1> SUFFICES ASSUME HealthInit
               PROVE  HealthInv
    OBVIOUS
  <1>1. /\ boot = "waiting" /\ marks = <<>> /\ marks \in MarkLists /\ FlagsType
        /\ ~health.active /\ ~health.startup
    BY DEF HealthInit, Init, FreshHealth, MarkLists, FlagsType, HealthRecords
  <1>2. \A m : ~Due(m)
    BY <1>1, MarksAreMarks
  <1> QED
    BY <1>1, <1>2 DEF HealthInv, ActiveIsLive, StartedUp, ExitIsTold, OwedIsTold

(* One write of the turn under way.                                          *)
LEMMA MarkStep ==
  ASSUME HealthInv, MakeMark
  PROVE  HealthInv'
  <1>1. /\ Head(marks) \in Marks /\ marks' \in MarkLists /\ Due(Head(marks))
        /\ \A m \in Marks : Due(m)' <=> Due(m) /\ m # Head(marks)
        /\ UNCHANGED <<runtime, cur, boot, stopTask>> /\ (ReplayOwed' <=> ReplayOwed)
        /\ health' = Marked(health, Head(marks))
    BY FirstMark DEF HealthInv, MakeMark, vars, runtimeVars, controlVars, ReplayOwed, CatchUpStart
  <1>2. /\ health'.active = IF Head(marks) = "active" THEN TRUE
                            ELSE IF Head(marks) = "inactive" THEN FALSE ELSE health.active
        /\ health'.startup = (health.startup \/ Head(marks) = "startup")
        /\ health'.shuttingDown = (health.shuttingDown \/ Head(marks) = "shutdown")
        /\ health'.catchup = IF Head(marks) = "catchup" THEN TRUE
                             ELSE IF Head(marks) = "caughtup" THEN FALSE ELSE health.catchup
        /\ health' \in HealthRecords
    <2>1. health \in HealthRecords
      BY DEF HealthInv, FlagsType
    <2>2. CASE Head(marks) = "active"
      BY <1>1, <2>1, <2>2 DEF Marked, HealthRecords
    <2>3. CASE Head(marks) = "inactive"
      BY <1>1, <2>1, <2>3 DEF Marked, HealthRecords
    <2>4. CASE Head(marks) = "startup"
      BY <1>1, <2>1, <2>4 DEF Marked, HealthRecords
    <2>5. CASE Head(marks) = "catchup"
      BY <1>1, <2>1, <2>5 DEF Marked, HealthRecords
    <2>6. CASE Head(marks) = "caughtup"
      BY <1>1, <2>1, <2>6 DEF Marked, HealthRecords
    <2>7. CASE Head(marks) = "shutdown"
      BY <1>1, <2>1, <2>7 DEF Marked, HealthRecords
    <2>8. CASE Head(marks) = "progress"
      BY <1>1, <2>1, <2>8 DEF Marked, HealthRecords
    <2>9. CASE Head(marks) = "fatal"
      BY <1>1, <2>1, <2>9 DEF Marked, HealthRecords
    <2> QED
      BY <1>1, <2>2, <2>3, <2>4, <2>5, <2>6, <2>7, <2>8, <2>9 DEF Marks
  <1>3. early' = IF Head(marks) = "caughtup" THEN ReplayOwed
                 ELSE IF Head(marks) = "catchup" THEN FALSE ELSE early
    BY DEF MakeMark
  <1>4. FlagsType'
    BY <1>1, <1>2, <1>3 DEF HealthInv, FlagsType, ReplayOwed
  <1>5. ActiveIsLive' /\ StartedUp' /\ ExitIsTold'
    BY <1>1, <1>2 DEF HealthInv, ActiveIsLive, StartedUp, ExitIsTold, Marks
  <1>6. OwedIsTold'
    BY <1>1, <1>2, <1>3 DEF HealthInv, OwedIsTold, Marks
  <1> QED
    BY <1>1, <1>4, <1>5, <1>6 DEF HealthInv

(* An ordinary step, which leaves the flags alone and one write, or none.    *)
LEMMA OrdinaryWrites ==
  ASSUME HealthInv, StructInv, Ordinary, marks = <<>>,
         UNCHANGED <<health, early>>, stopTask' \in BOOLEAN,
         \/ marks' \in {<<>>, <<"progress">>, <<"caughtup">>, <<"inactive">>}
         \/ marks' = <<"startup">> /\ boot' # "waiting"
  PROVE  HealthInv'
  <1>0. \A m \in Marks : ~Due(m)
    BY MarksAreMarks DEF HealthInv
  <1>1. marks' \in MarkLists /\ FlagsType'
    BY DEF HealthInv, FlagsType, MarkLists
  <1>2. \A m \in Marks : Due(m)' => marks' = <<m>>
    BY DueMarks DEF Marks
  <1>3. ActiveIsLive'
    BY <1>0, <1>2, OrdinaryPhase DEF HealthInv, ActiveIsLive, Marks
  <1>4. StartedUp'
    BY <1>0, <1>2, OrdinaryOwed DEF HealthInv, StartedUp, Marks
  <1>5. ExitIsTold'
    BY <1>0, OrdinaryOwed DEF HealthInv, ExitIsTold, Marks
  <1>6. OwedIsTold'
    BY <1>0, OrdinaryOwed DEF HealthInv, OwedIsTold, Marks
  <1> QED
    BY <1>1, <1>3, <1>4, <1>5, <1>6 DEF HealthInv

(* The connection is made, and start-up may go on to its catch-up.           *)
LEMMA SubscribedStep ==
  ASSUME HealthInv, StructInv, ListenerSubscribed, Writes(SubscribedMarks)
  PROVE  HealthInv'
  <1>0. /\ cur \in Runtimes /\ runtime \in [Runtimes -> RuntimeRecords]
        /\ \A m \in Marks : ~Due(m)
    BY MarksAreMarks DEF StructInv, RuntimeType, HealthInv, Writes
  <1>1. runtime'[cur'].phase = "live" /\ cur' = cur /\ UNCHANGED <<sup, pending>>
    BY <1>0 DEF ListenerSubscribed
  <1>2. UNCHANGED <<health, stopTask, early>> /\ FlagsType'
    BY DEF Writes, HealthInv, FlagsType
  <1>3. CASE boot = "waiting" /\ cur = 1 /\ CatchUpStart # 0
    <2>1. marks' = <<"active", "startup", "catchup">> /\ boot' = "replaying"
      BY <1>3 DEF ListenerSubscribed, Writes, SubscribedMarks
    <2>2. \A m \in Marks : Due(m)' <=> m \in {"active", "startup", "catchup"}
      BY <2>1, DueMarks
    <2> QED
      BY <1>1, <1>2, <2>1, <2>2
      DEF HealthInv, MarkLists, Marks, ActiveIsLive, StartedUp, ExitIsTold, OwedIsTold
  <1>4. CASE ~(boot = "waiting" /\ cur = 1 /\ CatchUpStart # 0)
    <2>1. marks' = <<"active">>
      BY <1>4 DEF Writes, SubscribedMarks
    <2>2. \A m \in Marks : Due(m)' <=> m = "active"
      BY <2>1, DueMarks DEF Marks
    <2>3. /\ boot' = boot \/ (boot' = "checkpointing" /\ boot = "waiting" /\ cur = 1)
          /\ UNCHANGED replay
      BY <1>4 DEF ListenerSubscribed
    <2>4. ActiveIsLive' /\ StartedUp' /\ ExitIsTold'
      BY <1>0, <1>1, <1>2, <2>2, <2>3
      DEF HealthInv, Marks, ActiveIsLive, StartedUp, ExitIsTold
    <2>5. CASE boot' = boot
      BY <1>0, <1>1, <1>2, <2>1, <2>2, <2>3, <2>4, <2>5
      DEF HealthInv, MarkLists, Marks, OwedIsTold, ReplayOwed, CatchUpStart
    <2>6. CASE boot' = "checkpointing" /\ cur = 1
      <3>1. ~ReplayOwed'
        BY <1>1, <2>6 DEF StructInv, Places, ReplayOwed, ListenerSubscribed, ListenerRuns
      <3> QED
        BY <2>1, <1>2, <2>4, <3>1 DEF HealthInv, MarkLists, OwedIsTold
    <2> QED
      BY <2>3, <2>5, <2>6
  <1> QED
    BY <1>3, <1>4

(* The subscription is marked inactive, by its end or that of the process.   *)
LEMMA InactiveWrites ==
  ASSUME HealthInv, marks = <<>>, UNCHANGED <<health, stopTask, early>>,
         \/ marks' = <<"inactive">> /\ boot' = boot /\ (ReplayOwed' => ReplayOwed)
         \/ /\ marks' \in {<<"shutdown", "inactive">>, <<"fatal", "shutdown", "inactive">>}
            /\ boot' = "exited"
  PROVE  HealthInv'
  <1>0. \A m \in Marks : ~Due(m)
    BY MarksAreMarks DEF HealthInv
  <1>1. marks' \in MarkLists /\ FlagsType'
    BY DEF HealthInv, FlagsType, MarkLists
  <1>2. /\ Due("inactive")' /\ ~Due("active")' /\ ~Due("startup")'
        /\ boot' = boot \/ (boot' = "exited" /\ Due("shutdown")')
    BY DueMarks DEF Marks
  <1>3. ActiveIsLive' /\ StartedUp' /\ ExitIsTold'
    BY <1>0, <1>2 DEF HealthInv, ActiveIsLive, StartedUp, ExitIsTold, Marks
  <1>4. OwedIsTold'
    BY <1>0 DEF HealthInv, OwedIsTold, Marks
  <1> QED
    BY <1>1, <1>3, <1>4 DEF HealthInv

(* A reconnect begins.                                                       *)
LEMMA RestartWrites ==
  ASSUME HealthInv, StructInv, marks = <<>>, UNCHANGED <<health, stopTask, early>>,
         marks' = <<"catchup">>, UNCHANGED <<cur, boot>>,
         runtime'[cur].phase = runtime[cur].phase
  PROVE  HealthInv'
  <1>0. \A m \in Marks : ~Due(m)
    BY MarksAreMarks DEF HealthInv
  <1>1. marks' \in MarkLists /\ FlagsType'
    BY DEF HealthInv, FlagsType, MarkLists
  <1>2. \A m \in Marks : Due(m)' <=> m = "catchup"
    BY DueMarks DEF Marks
  <1> QED
    BY <1>0, <1>1, <1>2
    DEF HealthInv, ActiveIsLive, StartedUp, ExitIsTold, OwedIsTold, Marks

(* Time passes, for the progress that /ready asks for.                       *)
LEMMA ProgressMoves ==
  ASSUME HealthInv, PollChainHead \/ HalfHourPasses
  PROVE  HealthInv'
  <1>1. /\ health \in HealthRecords /\ UNCHANGED <<vars, marks, stopTask, early>>
        /\ \/ health' = [health EXCEPT !.progress = "fresh"]
           \/ health' = [health EXCEPT !.progress = "stale"]
    BY DEF HealthInv, FlagsType, PollChainHead, HalfHourPasses, Marked
  <1>2. /\ health' \in HealthRecords /\ health'.active = health.active
        /\ health'.startup = health.startup /\ health'.catchup = health.catchup
        /\ health'.shuttingDown = health.shuttingDown
    BY <1>1 DEF HealthRecords
  <1>3. /\ UNCHANGED <<runtime, cur, boot>> /\ (ReplayOwed' <=> ReplayOwed)
        /\ \A m : Due(m)' <=> Due(m)
    BY <1>1 DEF vars, runtimeVars, controlVars, ReplayOwed, CatchUpStart, Due
  <1> QED
    BY <1>1, <1>2, <1>3
    DEF HealthInv, FlagsType, ActiveIsLive, StartedUp, ExitIsTold, OwedIsTold

LEMMA HealthInvStep ==
  HealthInv /\ StructInv /\ [HNext]_allVars => HealthInv'
  <1> SUFFICES ASSUME HealthInv, StructInv, [HNext]_allVars
               PROVE  HealthInv'
    OBVIOUS
  <1>0. /\ cur \in Runtimes /\ runtime \in [Runtimes -> RuntimeRecords]
        /\ stopTask \in BOOLEAN
    BY DEF StructInv, RuntimeType, HealthInv, FlagsType
  <1>1. CASE MakeMark
    BY <1>1, MarkStep
  <1>2. CASE HListener
    <2>1. CASE ListenerSubscribed /\ Writes(SubscribedMarks)
      BY <2>1, SubscribedStep
    <2>2. CASE ListenerHandled /\ Writes(<<>>)
      BY <1>0, <2>2, OrdinaryWrites DEF Ordinary, Writes
    <2>3. ASSUME NEW x \in Items, ListenerIgnores(x) \/ ListenerBuffers(x) \/ ListenerEmits(x),
                 Writes(<<"progress">>)
          PROVE  HealthInv'
      BY <1>0, <2>3, OrdinaryWrites DEF Ordinary, Writes
    <2> QED
      BY <1>2, <2>1, <2>2, <2>3 DEF HListener
  <1>3. CASE HSupervisor
    <2>1. CASE (SupStarts \/ SupBeginsReplay) /\ Writes(<<>>)
      BY <1>0, <2>1, OrdinaryWrites DEF Ordinary, Writes
    <2>2. CASE SupStops /\ Writes(<<"inactive">>)
      BY <1>0, <2>2, OrdinaryWrites DEF Ordinary, Writes
    <2>3. CASE SupBeginsRestart /\ Writes(RestartMarks)
      <3>1. runtime'[cur].phase = runtime[cur].phase /\ UNCHANGED <<cur, boot>>
        BY <1>0, <2>3 DEF SupBeginsRestart, BeginRestart, RuntimeRecords
      <3> QED
        BY <2>3, <3>1, RestartWrites DEF Writes, RestartMarks
    <2>4. CASE SupFinishesRestart /\ Writes(<<"inactive">>)
      <3>1. ReplayOwed /\ boot' = boot
        BY <2>4 DEF SupFinishesRestart, ReplayOwed
      <3> QED
        BY <2>4, <3>1, InactiveWrites DEF Writes
    <2> QED
      BY <1>3, <2>1, <2>2, <2>3, <2>4 DEF HSupervisor
  <1>4. CASE HBootstrap
    <2>1. CASE CatchUpGivesUp /\ Writes(<<"caughtup">>)
      BY <1>0, <2>1, OrdinaryWrites DEF Ordinary, Writes
    <2>2. CASE CatchUpRetries /\ Writes(<<>>)
      BY <1>0, <2>2, OrdinaryWrites DEF Ordinary, Writes
    <2>3. CASE CheckpointEstablished /\ Writes(<<"startup">>)
      <3>1. boot' # "waiting"
        BY <2>3 DEF CheckpointEstablished
      <3> QED
        BY <1>0, <2>3, <3>1, OrdinaryWrites DEF Ordinary, Writes
    <2>4. CASE Exit /\ Writes(<<"shutdown", "inactive">>)
      BY <2>4, InactiveWrites DEF Writes, Exit
    <2> QED
      BY <1>4, <2>1, <2>2, <2>3, <2>4 DEF HBootstrap
  <1>5. CASE (MineBlock \/ Persist) /\ Writes(<<>>)
    BY <1>0, <1>5, OrdinaryWrites DEF Ordinary, Writes
  <1>6. CASE HListenerFailed
    <2>1. boot' = boot /\ (ReplayOwed' => ReplayOwed)
      BY <1>6 DEF HListenerFailed, ListenerFailed, controlVars, ReplayOwed, CatchUpStart
    <2> QED
      BY <1>6, <2>1, InactiveWrites DEF HListenerFailed, FailureMarks, Writes
  <1>7. CASE HCatchUpFails
    BY <1>0, <1>7, OrdinaryWrites DEF Ordinary, HCatchUpFails
  <1>8. CASE HReconnectReplayFails
    <2>1. CASE stopping
      BY <1>0, <1>8, <2>1, OrdinaryWrites DEF Ordinary, HReconnectReplayFails, Writes
    <2>2. CASE ~stopping
      <3>1. runtime'[cur].phase = runtime[cur].phase /\ UNCHANGED <<cur, boot>>
        BY <1>0, <1>8, <2>2
        DEF HReconnectReplayFails, ReconnectReplayFails, BeginRestart, RuntimeRecords
      <3> QED
        BY <1>8, <2>2, <3>1, RestartWrites DEF HReconnectReplayFails, Writes, RestartMarks
    <2> QED
      BY <2>1, <2>2
  <1>9. CASE HCheckpointFails
    BY <1>9, InactiveWrites DEF HCheckpointFails, CheckpointFails, Writes
  <1>10. CASE HRequestShutdown
    BY <1>10, OrdinaryWrites DEF Ordinary, HRequestShutdown
  <1>11. CASE HStartAgain
    <2>1. boot' = "waiting" /\ health' = FreshHealth /\ marks' = <<>> /\ stopTask' = FALSE
          /\ early' = FALSE
      BY <1>11 DEF HStartAgain, Restart, Crash, StartProcess
    <2>2. \A m \in Marks : ~Due(m)'
      BY <2>1, DueMarks
    <2>3. marks' \in MarkLists /\ FlagsType' /\ ~health'.active /\ ~health'.startup
      BY <2>1 DEF MarkLists, FlagsType, HealthRecords, FreshHealth
    <2> QED
      BY <2>1, <2>2, <2>3
      DEF HealthInv, Marks, ActiveIsLive, StartedUp, ExitIsTold, OwedIsTold
  <1>12. CASE StopTaskEnds
    BY <1>12, OrdinaryWrites DEF Ordinary, StopTaskEnds
  <1>13. CASE PollChainHead \/ HalfHourPasses
    BY <1>13, ProgressMoves
  <1>14. ASSUME NEW p \in Replayers, HReplay(p)
         PROVE  HealthInv'
    <2>1. marks' \in {<<>>, <<"progress">>, <<"caughtup">>}
      BY <1>14 DEF HReplay, ReplayMarks
    <2> QED
      BY <1>0, <1>14, <2>1, OrdinaryWrites DEF Ordinary, HReplay
  <1>15. CASE UNCHANGED allVars
    BY <1>15 DEF allVars, healthVars, vars, runtimeVars, controlVars, HealthInv, FlagsType, Due,
       ActiveIsLive, StartedUp, ExitIsTold, OwedIsTold, ReplayOwed, CatchUpStart
  <1> QED
    BY <1>1, <1>2, <1>3, <1>4, <1>5, <1>6, <1>7, <1>8, <1>9, <1>10, <1>11, <1>12, <1>13, <1>14, <1>15
    DEF HNext, HEnvironment

(* A steady /ready never stands for a bot that is not there, and no /ready,  *)
(* but for the two races, for one that is behind.                            *)
THEOREM ReadyTellsTheTruth == HSpec => []ReadyIsHonest
  <1>1. HealthInit => IInv /\ StructInv /\ HealthInv
    BY HealthInitially, StructInit DEF HealthInit
  <1>2. IInv /\ StructInv /\ HealthInv /\ [HNext]_allVars
          => IInv' /\ StructInv' /\ HealthInv'
    BY HealthStep, HealthInvStep, InvStep, StructStep
  <1>3. HealthInv => ReadyIsHonest
    <2> SUFFICES ASSUME HealthInv
                 PROVE  ReadyIsHonest
      OBVIOUS
    <2>1. HealthTypeOK
      BY MarksAreMarks DEF HealthInv, FlagsType, HealthRecords, HealthTypeOK
    <2>2. marks = <<>> => \A m : ~Due(m)
      BY MarksAreMarks DEF HealthInv
    <2>3. ReadyMeansSubscribed
      BY <2>2 DEF HealthInv, ActiveIsLive, StartedUp, ExitIsTold, ReadyMeansSubscribed, Ready
    <2>4. ReadyWhileBehindOnlyByRace
      BY <2>2 DEF HealthInv, OwedIsTold, StartedUp, ExitIsTold, ReadyWhileBehindOnlyByRace, Ready
    <2> QED
      BY <2>1, <2>3, <2>4 DEF ReadyIsHonest
  <1> QED
    BY <1>1, <1>2, <1>3, PTL DEF HSpec
=============================================================================
