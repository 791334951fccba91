------------------------- MODULE SubscriptionRuntime -------------------------
(***************************************************************************)
(* How the bot follows the chain: the live subscription of the current     *)
(* runtime, the replay of historical blocks through the same consumers     *)
(* (start-up catch-up and reconnect replay), the checkpoint that says up   *)
(* to which block everything was processed, and what survives a restart.   *)
(*                                                                         *)
(* Four asyncio tasks interleave, one action of the model being the code   *)
(* between two awaits:                                                     *)
(*   - the listener    Subscription.subscribe of the current runtime,      *)
(*   - the supervisor  ModuleRuntimeSupervisor.subscribe,                  *)
(*   - the bootstrap   bootstrap._run,                                     *)
(*   - PTB's persistence job, which saves bot_data now and then.           *)
(* A block stands for its events: they are one unit, EventOf(b).           *)
(***************************************************************************)
EXTENDS Naturals

CONSTANTS
  MaxBlock,        (* bound on the chain head                               *)
  InitialHead,     (* chain head when the process first starts              *)
  BlockFrom,       (* the BLOCK_FROM setting, or NotConfigured              *)
  NotConfigured,
  BatchSize,       (* the BLOCK_BATCH_SIZE setting                          *)
  MaxRpcFailures,  (* bound on failures of an RPC connection or request     *)
  MaxRestarts      (* bound on crashes and restarts of the process          *)

ASSUME ChainAssumption ==
  /\ MaxBlock \in Nat /\ InitialHead \in 1..MaxBlock
  /\ BatchSize \in Nat \ {0}
  /\ MaxRpcFailures \in Nat /\ MaxRestarts \in Nat

ASSUME BlockFromAssumption ==
  /\ NotConfigured \notin Nat
  /\ BlockFrom \in Nat \cup {NotConfigured}

Max(a, b) == IF a >= b THEN a ELSE b
Min(a, b) == IF a =< b THEN a ELSE b

Blocks == 0..MaxBlock

(* A runtime is used up by each reconnect, so this many are enough.         *)
Runtimes == 1..(MaxRpcFailures + 1)

(***************************************************************************)
(* Items passed to the consumers: the events of a block, or the marker     *)
(* that the block is complete.  Events of a block sort before its marker.  *)
(***************************************************************************)
EventOf(b)   == <<b, 0>>
Completed(b) == <<b, 1>>
Items        == Blocks \X {0, 1}
NoItem       == <<MaxBlock + 1, 0>>

Before(x, y) == x[1] < y[1] \/ (x[1] = y[1] /\ x[2] =< y[2])
First(S)     == {x \in S : \A y \in S : Before(x, y)}

(* The node announces EventOf(n) and Completed(n - 1), the latter as the    *)
(* new head n, in any order, but after everything about earlier blocks.     *)
Arrival(x)       == x[1] + x[2]
Deliverable(S)   == {x \in S : \A y \in S : Arrival(x) =< Arrival(y)}

VARIABLES
  head,           \* number of the latest block
  runtime,        \* the runtimes of this process, by number of installation
  cur,            \* supervisor.module_runtime
  replay,         \* the two tasks that may be inside replay_blocks
  sup,            \* where the supervisor task is
  boot,           \* where the bootstrap task is
  pending,        \* _pending_replay_start_block, 0 for None
  catchupUntil,   \* _catchup_until_block, 0 for None
  catchupActive,  \* HealthState._catchup_active
  stopping,       \* _shutdown_requested
  store,          \* bot_data in memory: block (checkpoint), effects of events
  saved,          \* bot_data as last persisted
  faults,         \* failures and restarts so far (bounded)
  base,           \* history: no event up to here is promised to be handled
  overtaken       \* history: a live head moved the checkpoint past a replay

runtimeVars == <<runtime, cur>>
controlVars == <<sup, boot, pending, catchupUntil, catchupActive, stopping>>
storeVars   == <<store, saved>>
historyVars == <<base, overtaken>>
vars == <<head, runtimeVars, replay, controlVars, storeVars, faults, historyVars>>

Phases     == {"idle", "live", "failed"}
Replayers  == {"boot", "sup"}
Stages     == {"off", "head", "fetch", "emit", "flush", "sleep"}
SupStates  == {"start", "waiting", "replaying", "watching", "aborting", "stopped"}
BootStates == {"waiting", "checkpointing", "replaying", "done", "exited"}

NewRuntime(threshold) ==
  [phase |-> "idle", shut |-> FALSE, threshold |-> threshold,
   buffering |-> FALSE, buffer |-> {}, feed |-> {}, handling |-> NoItem]

NoReplay == [stage |-> "off", start |-> 0, next |-> 0, to |-> 0,
             todo |-> {}, handling |-> NoItem]

(* catch_up_from keeps the runtime it found, the first one; the supervisor  *)
(* replays on the runtime it has just installed.                            *)
RuntimeOf(p) == IF p = "boot" THEN 1 ELSE cur

(* Mutant of BackfillStart: a restart resumes one block late.               *)
BackfillStartLate(checkpoint) ==
  IF BlockFrom # NotConfigured THEN BlockFrom
  ELSE IF checkpoint > 0 THEN checkpoint + 2 ELSE 0

(* _resolve_backfill_start_block: 0 means that history is skipped.          *)
BackfillStart(checkpoint) ==
  IF BlockFrom # NotConfigured THEN BlockFrom
  ELSE IF checkpoint > 0 THEN checkpoint + 1 ELSE 0

CatchUpStart == replay["boot"].start

(* A process that starts from the persisted bot_data st.                    *)
StartProcess(st) ==
  /\ runtime' = [r \in Runtimes |-> NewRuntime(0)]
  /\ cur' = 1
  /\ replay' = [p \in Replayers |->
                  IF p = "boot" THEN [NoReplay EXCEPT !.start = BackfillStart(st.checkpoint)]
                  ELSE NoReplay]
  /\ sup' = "start" /\ boot' = "waiting"
  /\ pending' = 0 /\ catchupUntil' = 0
  /\ catchupActive' = FALSE /\ stopping' = FALSE
  /\ store' = st

Init ==
  /\ head = InitialHead
  /\ runtime = [r \in Runtimes |-> NewRuntime(0)]
  /\ cur = 1
  /\ store = [checkpoint |-> 0, handled |-> {}]
  /\ saved = store
  /\ replay = [p \in Replayers |->
                 IF p = "boot" THEN [NoReplay EXCEPT !.start = BackfillStart(0)]
                 ELSE NoReplay]
  /\ sup = "start" /\ boot = "waiting"
  /\ pending = 0 /\ catchupUntil = 0
  /\ catchupActive = FALSE /\ stopping = FALSE
  /\ faults = [rpc |-> 0, restarts |-> 0]
  /\ base = IF BackfillStart(0) = 0 THEN 0 ELSE BackfillStart(0) - 1
  /\ overtaken = FALSE

(***************************************************************************)
(* Environment: the chain, the node's notifications, failures.             *)
(***************************************************************************)
MineBlock ==
  /\ head < MaxBlock
  /\ head' = head + 1
  /\ runtime' = [r \in Runtimes |->
       IF runtime[r].phase = "live"
       THEN [runtime[r] EXCEPT !.feed = @ \cup {EventOf(head + 1), Completed(head)}]
       ELSE runtime[r]]
  /\ UNCHANGED <<cur, replay, controlVars, storeVars, faults, historyVars>>

RpcFailure ==
  /\ faults.rpc < MaxRpcFailures
  /\ faults' = [faults EXCEPT !.rpc = @ + 1]

(***************************************************************************)
(* What the consumers (ModuleRuntime.handle_event, handle_block) leave in  *)
(* bot_data once an item has been handled.                                 *)
(***************************************************************************)
Handle(st, x) ==
  IF x[2] = 0
  THEN [st EXCEPT !.handled = @ \cup {x[1]}]
  ELSE [st EXCEPT !.checkpoint = Max(@, x[1])]

(* A replay is still owed: the start-up catch-up, until a reconnect takes    *)
(* over from it, or the reconnect replay.                                   *)
ReplayOwed ==
  \/ boot \in {"waiting", "replaying"} /\ CatchUpStart # 0 /\ cur = 1
  \/ pending # 0
  \/ sup = "aborting"

(***************************************************************************)
(* The listener of the current runtime.                                    *)
(***************************************************************************)
ListenerRuns == sup \in {"waiting", "replaying", "watching"}

(* subscribe reaches _subscriptions_started.set(); the bootstrap, which     *)
(* waits for that event of the first runtime, goes on in the same turns of  *)
(* the loop: to the initial checkpoint or to catch_up_from.                 *)
ListenerSubscribed ==
  /\ ListenerRuns /\ ~runtime[cur].shut
  /\ runtime[cur].phase = "idle"
  /\ runtime' = [runtime EXCEPT ![cur].phase = "live"]
  /\ IF boot = "waiting" /\ cur = 1
     THEN IF CatchUpStart = 0
          THEN /\ boot' = "checkpointing"
               /\ base' = Max(base, head)
               /\ UNCHANGED <<replay, catchupActive>>
          ELSE /\ boot' = "replaying"
               /\ replay' = [replay EXCEPT !["boot"].stage = "head"]
               /\ catchupActive' = TRUE
               /\ UNCHANGED base
     ELSE UNCHANGED <<boot, base, replay, catchupActive>>
  /\ UNCHANGED <<head, cur, sup, pending, catchupUntil, stopping, storeVars,
                 faults, overtaken>>

(* The connection breaks, or cannot be made: subscribe raises.              *)
ListenerFailed ==
  /\ ListenerRuns /\ ~runtime[cur].shut
  /\ runtime[cur].phase \in {"idle", "live"}
  /\ runtime[cur].handling = NoItem
  /\ RpcFailure
  /\ runtime' = [runtime EXCEPT ![cur].phase = "failed", ![cur].feed = {}]
  /\ UNCHANGED <<head, cur, replay, controlVars, storeVars, historyVars>>

(* The next notification, for the log and the new-head handler alike.       *)
Takes(x) ==
  /\ ListenerRuns
  /\ runtime[cur].phase = "live" /\ runtime[cur].handling = NoItem
  /\ x \in Deliverable(runtime[cur].feed)

(* Mutant of Ignored: the first block after the threshold is ignored too.   *)
IgnoredPastThreshold(x) == runtime[cur].shut \/ x[1] =< runtime[cur].threshold + 1

Ignored(x) == runtime[cur].shut \/ x[1] =< runtime[cur].threshold

ListenerIgnores(x) ==
  /\ Takes(x) /\ Ignored(x)
  /\ runtime' = [runtime EXCEPT ![cur].feed = @ \ {x}]
  /\ UNCHANGED <<head, cur, replay, controlVars, storeVars, faults, historyVars>>

ListenerBuffers(x) ==
  /\ Takes(x) /\ ~Ignored(x) /\ runtime[cur].buffering
  /\ runtime' = [runtime EXCEPT ![cur].feed = @ \ {x}, ![cur].buffer = @ \cup {x}]
  /\ UNCHANGED <<head, cur, replay, controlVars, storeVars, faults, historyVars>>

ListenerEmits(x) ==
  /\ Takes(x) /\ ~Ignored(x) /\ ~runtime[cur].buffering
  /\ runtime' = [runtime EXCEPT ![cur].feed = @ \ {x}, ![cur].handling = x]
  /\ overtaken' = (overtaken \/ (ReplayOwed /\ x[2] = 1 /\ x[1] > store.checkpoint))
  /\ UNCHANGED <<head, cur, replay, controlVars, storeVars, faults, base>>

(* The consumer returns, even if shutdown was requested meanwhile.          *)
ListenerHandled ==
  LET x == runtime[cur].handling IN
  /\ x # NoItem
  /\ store' = Handle(store, x)
  /\ runtime' = [runtime EXCEPT ![cur].handling = NoItem]
  /\ UNCHANGED <<head, cur, replay, controlVars, saved, faults, historyVars>>

(***************************************************************************)
(* replay_blocks, run by the bootstrap (catch_up_from) or by the           *)
(* supervisor (_replay_pending_blocks_after_restart).                      *)
(***************************************************************************)
Returned(p) == [replay[p] EXCEPT !.stage = "off", !.todo = {}]

(* The caller after replay_blocks returned, interrupted or not.             *)
AfterReplay(p) ==
  /\ catchupUntil' = 0
  /\ catchupActive' = FALSE
  /\ replay' = [replay EXCEPT ![p] = Returned(p)]
  /\ IF p = "boot"
     THEN boot' = "done" /\ UNCHANGED <<sup, pending>>
     ELSE sup' = "watching" /\ pending' = 0 /\ UNCHANGED boot
  /\ UNCHANGED stopping

(* The head is known: install the buffer and suppress live items up to it.  *)
ReplayBegins(p) ==
  LET r == RuntimeOf(p) IN
  /\ replay[p].stage = "head"
  /\ cur = r
  /\ replay' = [replay EXCEPT ![p].stage = "fetch", ![p].next = replay[p].start,
                              ![p].to = head]
  /\ runtime' = [runtime EXCEPT ![r].threshold = Max(@, head),
                                ![r].buffering = TRUE, ![r].buffer = {}]
  /\ catchupUntil' = head
  /\ UNCHANGED <<head, cur, sup, boot, pending, catchupActive, stopping, storeVars,
                 faults, historyVars>>

(* Mutant of CatchUpGivesUp: a shutdown is not noticed after the pause.     *)
CatchUpSleepsOn ==
  /\ replay["boot"].stage \in {"head", "sleep"} /\ cur # 1
  /\ AfterReplay("boot")
  /\ UNCHANGED <<head, runtimeVars, storeVars, faults, historyVars>>

(* catch_up_from finds its runtime replaced, or shutdown requested.         *)
CatchUpGivesUp ==
  /\ \/ replay["boot"].stage = "head" /\ cur # 1
     \/ replay["boot"].stage = "sleep" /\ (stopping \/ cur # 1)
  /\ AfterReplay("boot")
  /\ UNCHANGED <<head, runtimeVars, storeVars, faults, historyVars>>

CatchUpRetries ==
  /\ replay["boot"].stage = "sleep" /\ ~stopping /\ cur = 1
  /\ replay' = [replay EXCEPT !["boot"].stage = "head"]
  /\ UNCHANGED <<head, runtimeVars, controlVars, storeVars, faults, historyVars>>

LastOfBatch(p) == Min(replay[p].next + BatchSize - 1, replay[p].to)

(* One eth_getLogs batch: its events in order, then its last block.         *)
ReplayFetches(p) ==
  LET last == LastOfBatch(p) IN
  /\ replay[p].stage = "fetch" /\ ~runtime[RuntimeOf(p)].shut
  /\ replay[p].next =< replay[p].to
  /\ replay' = [replay EXCEPT
       ![p].stage = "emit", ![p].next = last + 1,
       ![p].todo = {EventOf(b) : b \in replay[p].next..last} \cup {Completed(last)}]
  /\ UNCHANGED <<head, runtimeVars, controlVars, storeVars, faults, historyVars>>

ReplayFetchedAll(p) ==
  /\ replay[p].stage = "fetch" /\ ~runtime[RuntimeOf(p)].shut
  /\ replay[p].next > replay[p].to
  /\ replay' = [replay EXCEPT ![p].stage = "flush"]
  /\ UNCHANGED <<head, runtimeVars, controlVars, storeVars, faults, historyVars>>

ReplayEmits(p) ==
  /\ replay[p].stage \in {"emit", "flush"} /\ ~runtime[RuntimeOf(p)].shut
  /\ replay[p].handling = NoItem
  /\ \E x \in First(replay[p].todo) :
       replay' = [replay EXCEPT ![p].handling = x, ![p].todo = @ \ {x}]
  /\ UNCHANGED <<head, runtimeVars, controlVars, storeVars, faults, historyVars>>

ReplayHandled(p) ==
  /\ replay[p].handling # NoItem
  /\ store' = Handle(store, replay[p].handling)
  /\ replay' = [replay EXCEPT
       ![p].handling = NoItem,
       ![p].stage = IF @ = "emit" /\ replay[p].todo = {} THEN "fetch" ELSE @]
  /\ UNCHANGED <<head, runtimeVars, controlVars, saved, faults, historyVars>>

(* One round of _flush_buffered_subscription_items.                         *)
FlushRound(p) ==
  LET r == RuntimeOf(p) IN
  /\ replay[p].stage = "flush" /\ replay[p].handling = NoItem /\ replay[p].todo = {}
  /\ ~runtime[r].shut /\ runtime[r].buffer # {}
  /\ replay' = [replay EXCEPT ![p].todo = runtime[r].buffer]
  /\ runtime' = [runtime EXCEPT ![r].buffer = {}]
  /\ UNCHANGED <<head, cur, controlVars, storeVars, faults, historyVars>>

(* Mutant of StopBuffering: the buffer is emptied but stays installed.      *)
EmptyBuffer(r) == runtime' = [runtime EXCEPT ![r].buffer = {}]

StopBuffering(r) ==
  runtime' = [runtime EXCEPT ![r].buffering = FALSE, ![r].buffer = {}]

ReplayCompletes(p) ==
  LET r == RuntimeOf(p) IN
  /\ replay[p].stage = "flush" /\ replay[p].handling = NoItem /\ replay[p].todo = {}
  /\ runtime[r].buffer = {}
  /\ StopBuffering(r)
  /\ AfterReplay(p)
  /\ UNCHANGED <<head, cur, storeVars, faults, historyVars>>

(* The shutdown event of the runtime ends the replay without an error.      *)
ReplayInterrupted(p) ==
  /\ replay[p].stage \in {"fetch", "emit", "flush"} /\ replay[p].handling = NoItem
  /\ runtime[RuntimeOf(p)].shut
  /\ StopBuffering(RuntimeOf(p))
  /\ AfterReplay(p)
  /\ UNCHANGED <<head, cur, storeVars, faults, historyVars>>

ReconnectStart     == store.checkpoint + 1

(* _restart_after_rpc_disconnect up to its await: the replay start is read   *)
(* from the checkpoint before the old runtime is aborted.                   *)
BeginRestart ==
  /\ sup' = "aborting"
  /\ catchupActive' = TRUE
  /\ replay' = [replay EXCEPT !["sup"] = [NoReplay EXCEPT !.start = ReconnectStart]]
  /\ UNCHANGED <<boot, pending, stopping>>

(* An RPC call of a replay fails: live items buffered so far are dropped.   *)
CatchUpFails ==
  /\ replay["boot"].stage = "head" \/ (replay["boot"].stage = "fetch" /\ ~runtime[1].shut)
  /\ RpcFailure
  /\ StopBuffering(1)
  /\ IF stopping \/ cur # 1
     THEN AfterReplay("boot")
     ELSE /\ replay' = [replay EXCEPT !["boot"].stage = "sleep",
                                     !["boot"].start = Max(@, store.checkpoint + 1)]
          /\ UNCHANGED controlVars
  /\ UNCHANGED <<head, cur, storeVars, historyVars>>

ReconnectReplayFails ==
  /\ \/ replay["sup"].stage = "head"
     \/ replay["sup"].stage = "fetch" /\ ~runtime[cur].shut
  /\ RpcFailure
  /\ catchupUntil' = 0
  /\ IF stopping
     THEN /\ sup' = "stopped"
          /\ StopBuffering(cur)
          /\ replay' = [replay EXCEPT !["sup"] = Returned("sup")]
          /\ UNCHANGED <<boot, pending, catchupActive, stopping>>
     ELSE /\ BeginRestart
          /\ runtime' = [runtime EXCEPT ![cur].shut = TRUE, ![cur].buffering = FALSE,
                                        ![cur].buffer = {}]
  /\ UNCHANGED <<head, cur, storeVars, historyVars>>

(***************************************************************************)
(* The supervisor.                                                         *)
(***************************************************************************)
SupStarts ==
  /\ sup = "start"
  /\ sup' = IF stopping THEN "stopped" ELSE IF pending # 0 THEN "waiting" ELSE "watching"
  /\ UNCHANGED <<head, runtimeVars, replay, boot, pending, catchupUntil,
                 catchupActive, stopping, storeVars, faults, historyVars>>

SupBeginsReplay ==
  /\ sup = "waiting" /\ ~stopping /\ runtime[cur].phase = "live"
  /\ sup' = "replaying"
  /\ replay' = [replay EXCEPT !["sup"] = [NoReplay EXCEPT !.stage = "head", !.start = pending]]
  /\ UNCHANGED <<head, runtimeVars, boot, pending, catchupUntil, catchupActive,
                 stopping, storeVars, faults, historyVars>>

SupBeginsRestart ==
  /\ sup \in {"waiting", "watching"} /\ ~stopping /\ runtime[cur].phase = "failed"
  /\ BeginRestart
  /\ runtime' = [runtime EXCEPT ![cur].shut = TRUE]
  /\ UNCHANGED <<head, cur, catchupUntil, storeVars, faults, historyVars>>

(* abort returned: install the next runtime; the old listener is cancelled. *)
SupFinishesRestart ==
  /\ sup = "aborting"
  /\ sup' = "start"
  /\ pending' = replay["sup"].start
  /\ cur' = cur + 1
  /\ runtime' = [runtime EXCEPT ![cur].handling = NoItem,
                                ![cur + 1] = NewRuntime(catchupUntil)]
  /\ UNCHANGED <<head, replay, boot, catchupUntil, catchupActive, stopping,
                 storeVars, faults, historyVars>>

SupStops ==
  /\ sup \in {"waiting", "watching"} /\ stopping /\ runtime[cur].handling = NoItem
  /\ sup' = "stopped"
  /\ UNCHANGED <<head, runtimeVars, replay, boot, pending, catchupUntil,
                 catchupActive, stopping, storeVars, faults, historyVars>>

(***************************************************************************)
(* The bootstrap, persistence and the life of the process.                 *)
(***************************************************************************)
(* establish_initial_checkpoint, then bot_data is saved.                    *)
CheckpointEstablished ==
  /\ boot = "checkpointing"
  /\ boot' = "done"
  /\ store' = [store EXCEPT !.checkpoint = head - 1]
  /\ saved' = store'
  /\ base' = Max(base, head)
  /\ UNCHANGED <<head, runtimeVars, replay, sup, pending, catchupUntil, catchupActive,
                 stopping, faults, overtaken>>

(* No head for the initial checkpoint: the error ends the process, which    *)
(* cancels the supervisor with its listener and its replay, and saves       *)
(* bot_data on its way out.                                                 *)
CheckpointFails ==
  /\ boot = "checkpointing"
  /\ RpcFailure
  /\ boot' = "exited" /\ sup' = "stopped" /\ stopping' = TRUE
  /\ saved' = store
  /\ runtime' = [runtime EXCEPT ![cur].shut = TRUE, ![cur].handling = NoItem,
                                ![cur].buffering = FALSE, ![cur].buffer = {}]
  /\ replay' = [replay EXCEPT !["sup"] = NoReplay]
  /\ catchupUntil' = 0
  /\ UNCHANGED <<head, cur, pending, catchupActive, store, historyVars>>

Persist ==
  /\ boot # "exited" /\ saved # store
  /\ saved' = store
  /\ UNCHANGED <<head, runtimeVars, replay, controlVars, store, faults, historyVars>>

AnotherRestart ==
  /\ faults.restarts < MaxRestarts
  /\ faults' = [faults EXCEPT !.restarts = @ + 1]

(* SIGTERM, or the secrets changed: request_shutdown.                       *)
RequestShutdown ==
  /\ boot # "exited" /\ ~stopping
  /\ AnotherRestart
  /\ stopping' = TRUE
  /\ runtime' = [runtime EXCEPT ![cur].shut = TRUE]
  /\ UNCHANGED <<head, cur, replay, sup, boot, pending, catchupUntil, catchupActive,
                 storeVars, historyVars>>

(* The supervisor task is over: _run closes everything, PTB saves bot_data. *)
Exit ==
  /\ stopping /\ sup = "stopped" /\ boot \in {"waiting", "done"}
  /\ boot' = "exited"
  /\ saved' = store
  /\ UNCHANGED <<head, runtimeVars, replay, sup, pending, catchupUntil, catchupActive,
                 stopping, store, faults, historyVars>>

(* The container is started again.                                          *)
Restart ==
  /\ boot = "exited"
  /\ StartProcess(saved)
  /\ UNCHANGED <<head, saved, faults, historyVars>>

Crash ==
  /\ boot # "exited"
  /\ AnotherRestart
  /\ StartProcess(saved)
  /\ UNCHANGED <<head, saved, historyVars>>

Listener ==
  \/ ListenerSubscribed \/ ListenerHandled
  \/ \E x \in Items : ListenerIgnores(x) \/ ListenerBuffers(x) \/ ListenerEmits(x)

Replay(p) ==
  \/ ReplayBegins(p) \/ ReplayFetches(p) \/ ReplayFetchedAll(p) \/ ReplayEmits(p)
  \/ ReplayHandled(p) \/ FlushRound(p) \/ ReplayCompletes(p) \/ ReplayInterrupted(p)

Bootstrap == CatchUpGivesUp \/ CatchUpRetries \/ CheckpointEstablished \/ Exit \/ Restart

Supervisor ==
  SupStarts \/ SupBeginsReplay \/ SupBeginsRestart \/ SupFinishesRestart \/ SupStops

Environment ==
  \/ MineBlock \/ ListenerFailed \/ CatchUpFails \/ ReconnectReplayFails
  \/ CheckpointFails \/ Persist \/ RequestShutdown \/ Crash

Next ==
  Listener \/ Supervisor \/ Bootstrap \/ Environment \/ \E p \in Replayers : Replay(p)

Spec == Init /\ [][Next]_vars

(* Every task that can go on does so: asyncio's ready queue is first in,    *)
(* first out.  Failures, signals, blocks and saves are never forced.        *)
FairSpec ==
  /\ Spec
  /\ WF_vars(Listener) /\ WF_vars(Supervisor) /\ WF_vars(Bootstrap)
  /\ \A p \in Replayers : WF_vars(Replay(p))

(***************************************************************************)
(* Properties.                                                             *)
(***************************************************************************)
RuntimeRecords ==
  [phase : Phases, shut : BOOLEAN, threshold : Blocks, buffering : BOOLEAN,
   buffer : SUBSET Items, feed : SUBSET Items, handling : Items \cup {NoItem}]
ReplayRecords ==
  [stage : Stages, start : Nat, next : Nat, to : Blocks,
   todo : SUBSET Items, handling : Items \cup {NoItem}]
Stores == [checkpoint : Blocks, handled : SUBSET Blocks]

(* The types of the supervisor's, the subscriptions' and bot_data's state.   *)
TypeOK ==
  /\ head \in 1..MaxBlock
  /\ runtime \in [Runtimes -> RuntimeRecords] /\ cur \in Runtimes
  /\ replay \in [Replayers -> ReplayRecords]
  /\ sup \in SupStates /\ boot \in BootStates
  /\ pending \in Nat /\ catchupUntil \in Blocks
  /\ catchupActive \in BOOLEAN /\ stopping \in BOOLEAN
  /\ store \in Stores /\ saved \in Stores
  /\ faults \in [rpc : 0..MaxRpcFailures, restarts : 0..MaxRestarts]
  /\ base \in Nat /\ overtaken \in BOOLEAN

(* Every event up to the checkpoint, from where history is promised, was     *)
(* handled: a restart, which resumes behind the checkpoint, loses nothing.   *)
NoGap == \A b \in (base + 1)..store.checkpoint : b \in store.handled

(* Start-up catch-up, once it has run to its end without a reconnect, has     *)
(* missed no block, whatever was mined or failed meanwhile.                 *)
NothingMissedByCatchUp ==
  (boot = "done" /\ CatchUpStart # 0 /\ ~runtime[1].shut) => NoGap

(* The only way to a gap is a live new head that is emitted, and moves the   *)
(* checkpoint, while a replay of earlier blocks is owed (the windows before  *)
(* replay_blocks installs its buffer and after it dropped it on a failure).  *)
GapOnlyIfOvertaken == overtaken \/ NoGap

(* Live items are buffered only while a replay runs that will flush them:    *)
(* otherwise nothing would ever be handled again on this runtime.            *)
BufferIsOwned ==
  runtime[cur].buffering =>
    \E p \in Replayers : RuntimeOf(p) = cur /\ replay[p].stage \in {"fetch", "emit", "flush"}

(* With a history to replay, the checkpoint never moves back while the       *)
(* process runs, whichever task handles a late block marker (_advance_block).*)
CheckpointNeverRegresses ==
  [][Crash \/ Restart \/ store'.checkpoint >= store.checkpoint]_vars

(* No event is forgotten: once the failures are over, every block that was    *)
(* mined has been handled, whatever reconnects, failed replays and restarts   *)
(* came before, unless a replay was overtaken.                                *)
EventuallyHandled ==
  <>[](\A b \in 1..MaxBlock : b =< head /\ b > base => b \in store.handled \/ overtaken)

(* A requested shutdown ends the process, whatever the tasks were doing: no   *)
(* process stays in it for ever.                                              *)
ShutdownCompletes == []<>(stopping => boot = "exited")

(* The gauge sentinel_chain_catchup_active is 1 while a replay runs.         *)
ReplayIsReported ==
  \A p \in Replayers : replay[p].stage \in {"head", "fetch", "emit", "flush"} => catchupActive

(* BLOCK_FROM: nothing before the configured block is processed, and with 0   *)
(* nothing before the head the process found.                               *)
StartsAtBlockFrom ==
  BlockFrom # NotConfigured =>
    \A b \in store.handled : b >= IF BlockFrom = 0 THEN InitialHead ELSE BlockFrom

(* Once the subscription stays established, start-up gets past waiting for it. *)
StartupNoticesSubscription ==
  (<>[](runtime[cur].phase = "live")) => <>(boot # "waiting")
=============================================================================
