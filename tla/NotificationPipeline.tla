------------------------ MODULE NotificationPipeline ------------------------
(***************************************************************************)
(* What happens to an event between the chain feed and Telegram: it is     *)
(* notified at once, collected in an aggregation window that a completed   *)
(* block closes, or kept for the daily digest that a scheduled job sends.  *)
(* Windows, digest, checkpoint and the job's completion marker live in     *)
(* bot_data and are persisted together; a notification that was queued     *)
(* for Telegram lives in memory only.                                      *)
(*                                                                         *)
(* The feed hands over the events of each block, then (at least at the end *)
(* of each replayed batch) the marker that the block is complete; after a  *)
(* restart or a reconnect it starts again behind the checkpoint.  The sink *)
(* is an unbounded queue whose put never suspends, so each handler runs to *)
(* its end in one turn of the event loop and is one action.                *)
(***************************************************************************)
EXTENDS Naturals

CONSTANTS
  Events,        (* log identities                                          *)
  BlockOf,       (* the block of each event                                 *)
  Keys,          (* aggregation group and key, as one value                 *)
  RouteOf,       (* the key an event is aggregated under, Direct or Digest  *)
  Direct, Digest,
  WindowBlocks,  (* AggregationGroup.window_blocks, by key                  *)
  MaxBlock,      (* bound on the chain                                      *)
  MaxDay,        (* bound on the due times of the digest                    *)
  MaxRestarts,   (* bound on crashes and restarts                           *)
  MaxReconnects  (* bound on replays after a reconnect                      *)

ASSUME EventAssumption ==
  /\ MaxBlock \in Nat /\ MaxDay \in Nat /\ MaxRestarts \in Nat /\ MaxReconnects \in Nat
  /\ BlockOf \in [Events -> 1..MaxBlock]
  /\ RouteOf \in [Events -> Keys \cup {Direct, Digest}]
  /\ Direct \notin Keys /\ Digest \notin Keys /\ Direct # Digest
  /\ WindowBlocks \in [Keys -> Nat \ {0}]

Jobs == {"daily", "recovery"}   \* run_daily and run_once of JobContext.schedule
NeverCompleted == MaxDay + 1    \* completed_for is None

VARIABLES
  at,         \* the block whose events are being handed over
  seen,       \* its events handed over so far
  data,       \* bot_data
  saved,      \* bot_data as last persisted
  due,        \* the due time latest_scheduled_for would return
  scheduled,  \* JobContext.schedule has run
  job,        \* which digest jobs are due to run
  queue,      \* notifications in the application's update queue
  sent,       \* history: events of notifications rendered and sent
  lost,       \* history: events of notifications that a crash or error dropped
  notified,   \* history: events this process queued
  repeated,   \* history: events this process queued more than once
  digests,    \* history: digests this process sent for each due time
  restarts, reconnects

feedVars == <<at, seen>>
jobVars  == <<due, scheduled, job>>
endVars  == <<sent, lost>>
pastVars == <<notified, repeated, digests>>
boundVars == <<restarts, reconnects>>
vars == <<feedVars, data, saved, jobVars, queue, endVars, pastVars, boundVars>>

Init ==
  /\ at = 1 /\ seen = {}
  /\ data = [checkpoint |-> 0, windows |-> {}, digest |-> {}, completed |-> NeverCompleted]
  /\ saved = data
  /\ due = 0 /\ scheduled = FALSE /\ job = {}
  /\ queue = {} /\ sent = {} /\ lost = {}
  /\ notified = {} /\ repeated = {} /\ digests = [d \in 0..MaxDay |-> 0]
  /\ restarts = 0 /\ reconnects = 0

(***************************************************************************)
(* Notifications (TelegramNotificationSink, its queue and handler).        *)
(***************************************************************************)
Notification(route, events) == [route |-> route, events |-> events]

Emit(ns) ==
  /\ queue' = queue \cup ns
  /\ notified' = notified \cup (UNION {n.events : n \in ns})
  /\ repeated' = repeated \cup {e \in Events :
       \/ e \in notified /\ \E n \in ns : e \in n.events
       \/ \E n, m \in ns : n # m /\ e \in n.events /\ e \in m.events}

(* PTB renders and sends notifications as concurrent tasks, in any order.   *)
Deliver(n) ==
  /\ n \in queue
  /\ queue' = queue \ {n}
  /\ sent' = sent \cup n.events
  /\ UNCHANGED <<feedVars, data, saved, jobVars, lost, pastVars, boundVars>>

(* A read of the chain fails while the message is rendered: the error is    *)
(* logged and the notification dropped.                                     *)
RenderingFails(n) ==
  /\ n \in queue
  /\ queue' = queue \ {n}
  /\ lost' = lost \cup n.events
  /\ UNCHANGED <<feedVars, data, saved, jobVars, sent, pastVars, boundVars>>

(* Mutant of PendingFor: the last block of a window is taken to be outside.  *)
PendingBeforeEnd(windows, key, block) ==
  {w \in windows : w.key = key /\ w.start =< block /\ block < w.end}

(***************************************************************************)
(* Aggregation windows (AggregationCoordinator, AggregationWindowStore).   *)
(***************************************************************************)
PendingFor(windows, key, block) ==
  {w \in windows : w.key = key /\ w.start =< block /\ block =< w.end}

NewWindow(e) ==
  [key |-> RouteOf[e], start |-> BlockOf[e],
   end |-> BlockOf[e] + WindowBlocks[RouteOf[e]] - 1, events |-> {}]

SameWindow(w, v) == w.key = v.key /\ w.start = v.start /\ w.end = v.end

Discard(windows, w) == {v \in windows : ~SameWindow(v, w)}

Upsert(windows, w) == Discard(windows, w) \cup {w}

(* _prepare for an aggregated event: the pending window of its key and      *)
(* block, or a new one; an event already in it is not added again.          *)
WindowFor(windows, e) ==
  LET pending == PendingFor(windows, RouteOf[e], BlockOf[e])
  IN  IF pending = {} THEN NewWindow(e) ELSE CHOOSE w \in pending : TRUE

WithEvent(w, e) == [w EXCEPT !.events = @ \cup {e}]

(* Mutant of Ready: one block too early.                                     *)
ReadyEarly(windows, block) == {w \in windows : w.end =< block + 1}

(* The windows _flush_ready_windows takes.                                  *)
Ready(windows, block) == {w \in windows : w.end =< block}

(* Where a replay starts, after a reconnect or in a new process.            *)
ResumeBlock(st) == st.checkpoint + 1

(***************************************************************************)
(* The feed: ModuleRuntime.handle_event and handle_block.                  *)
(***************************************************************************)
HandOver(e) ==
  /\ at =< MaxBlock /\ BlockOf[e] = at /\ e \notin seen
  /\ seen' = seen \cup {e}
  /\ UNCHANGED <<at, saved, jobVars, endVars, digests, boundVars>>

HandleDirect(e) ==
  /\ RouteOf[e] = Direct
  /\ HandOver(e)
  /\ Emit({Notification(Direct, {e})})
  /\ UNCHANGED data

HandleAggregated(e) ==
  /\ RouteOf[e] \in Keys
  /\ HandOver(e)
  /\ data' = [data EXCEPT !.windows = Upsert(@, WithEvent(WindowFor(@, e), e))]
  /\ UNCHANGED <<queue, notified, repeated>>

HandleDigest(e) ==
  /\ RouteOf[e] = Digest
  /\ HandOver(e)
  /\ data' = [data EXCEPT !.digest = @ \cup {e}]
  /\ UNCHANGED <<queue, notified, repeated>>

BlockDelivered == at =< MaxBlock /\ \A e \in Events : BlockOf[e] = at => e \in seen

(* Inside a replayed batch the next block follows without a marker.         *)
NextBlockOfBatch ==
  /\ BlockDelivered /\ at < MaxBlock
  /\ at' = at + 1 /\ seen' = {}
  /\ UNCHANGED <<data, saved, jobVars, queue, endVars, pastVars, boundVars>>

(* handle_block: every ready window is notified and discarded, then         *)
(* _advance_block moves the checkpoint.                                     *)
BlockCompleted ==
  /\ BlockDelivered
  /\ Emit({Notification(w.key, w.events) : w \in Ready(data.windows, at)})
  /\ data' = [data EXCEPT !.windows = @ \ Ready(@, at),
                          !.checkpoint = IF @ > at THEN @ ELSE at]
  /\ at' = at + 1 /\ seen' = {}
  /\ UNCHANGED <<saved, jobVars, endVars, digests, boundVars>>

(* The supervisor replays behind the checkpoint on a new runtime.           *)
Reconnected ==
  /\ reconnects < MaxReconnects
  /\ reconnects' = reconnects + 1
  /\ at' = ResumeBlock(data) /\ seen' = {}
  /\ UNCHANGED <<data, saved, jobVars, queue, endVars, pastVars, restarts>>

(***************************************************************************)
(* The digest jobs (JobContext, Digest.flush_through).                     *)
(***************************************************************************)
Completed(d) == data.completed # NeverCompleted /\ data.completed >= d

(* Mutant of RecoveryJobs: a missed due time is not recovered.              *)
NoRecoveryJobs == {}
RecoveryJobs   == IF Completed(due) THEN {} ELSE {"recovery"}

(* schedule: the recovery job runs if the latest due time was missed; with  *)
(* neither a marker nor pending events the due time counts as completed.    *)
ScheduleJobs ==
  /\ ~scheduled
  /\ scheduled' = TRUE
  /\ IF data.completed = NeverCompleted /\ data.digest = {}
     THEN data' = [data EXCEPT !.completed = due] /\ UNCHANGED job
     ELSE job' = job \cup RecoveryJobs /\ UNCHANGED data
  /\ UNCHANGED <<feedVars, saved, due, queue, endVars, pastVars, boundVars>>

(* The next due time comes; run_daily starts the daily job.                 *)
DayPasses ==
  /\ due < MaxDay
  /\ due' = due + 1
  /\ job' = IF scheduled THEN job \cup {"daily"} ELSE job
  /\ UNCHANGED <<feedVars, data, saved, scheduled, queue, endVars, pastVars, boundVars>>

ReadyDigest == {e \in data.digest : BlockOf[e] =< data.checkpoint}

(* _flush_deposit_digest: what is ready is sent and discarded, if anything, *)
(* and the due time is marked completed.                                    *)
FlushDigest(j, kept) ==
  /\ j \in job
  /\ job' = job \ {j}
  /\ Emit(IF ReadyDigest = {} THEN {} ELSE {Notification(Digest, ReadyDigest)})
  /\ digests' = [digests EXCEPT ![due] = @ + 1]
  /\ data' = [data EXCEPT !.digest = kept, !.completed = due]
  /\ UNCHANGED <<feedVars, saved, due, scheduled, endVars, boundVars>>

(* Mutants of JobSendsDigest: it empties the digest, it keeps what it sent,  *)
(* it does not look at the completion marker.                               *)
JobClearsDigest(j) == ~Completed(due) /\ FlushDigest(j, {})
JobKeepsDigest(j)  == ~Completed(due) /\ FlushDigest(j, data.digest)
JobSendsAgain(j)   == FlushDigest(j, data.digest \ ReadyDigest)

JobSendsDigest(j) == ~Completed(due) /\ FlushDigest(j, data.digest \ ReadyDigest)

JobFindsDone(j) ==
  /\ j \in job /\ Completed(due)
  /\ job' = job \ {j}
  /\ UNCHANGED <<feedVars, data, saved, due, scheduled, queue, endVars, pastVars, boundVars>>

(***************************************************************************)
(* Persistence and the life of the process.                                *)
(***************************************************************************)
Persist ==
  /\ saved # data
  /\ saved' = data
  /\ UNCHANGED <<feedVars, data, jobVars, queue, endVars, pastVars, boundVars>>

StartsFrom(st) ==
  /\ restarts < MaxRestarts
  /\ restarts' = restarts + 1
  /\ data' = st
  /\ at' = ResumeBlock(st) /\ seen' = {}
  /\ scheduled' = FALSE /\ job' = {}
  /\ queue' = {}
  /\ notified' = {} /\ repeated' = {} /\ digests' = [d \in 0..MaxDay |-> 0]
  /\ UNCHANGED <<due, sent, reconnects>>

Crash ==
  /\ StartsFrom(saved)
  /\ lost' = lost \cup (UNION {n.events : n \in queue})
  /\ UNCHANGED saved

(* Application.stop empties the update queue before bot_data is saved.      *)
ShutdownAndRestart ==
  /\ queue = {}
  /\ StartsFrom(data)
  /\ saved' = data
  /\ UNCHANGED lost

HandleEvent(e) == HandleDirect(e) \/ HandleAggregated(e) \/ HandleDigest(e)

Feed == (\E e \in Events : HandleEvent(e)) \/ NextBlockOfBatch \/ BlockCompleted

JobStep(j) == JobSendsDigest(j) \/ JobFindsDone(j)

QueueStep == \E n \in queue : Deliver(n) \/ RenderingFails(n)

Next ==
  \/ Feed \/ Reconnected
  \/ ScheduleJobs \/ DayPasses \/ \E j \in Jobs : JobStep(j)
  \/ QueueStep
  \/ Persist \/ Crash \/ ShutdownAndRestart

Spec == Init /\ [][Next]_vars

(* The listener, the job queue and PTB's workers all make progress; days,   *)
(* saves, reconnects and restarts are not forced.                           *)
FairSpec ==
  /\ Spec
  /\ WF_vars(Feed) /\ WF_vars(ScheduleJobs) /\ WF_vars(QueueStep)
  /\ \A j \in Jobs : WF_vars(JobStep(j))

(***************************************************************************)
(* Properties.                                                             *)
(***************************************************************************)
WindowRecords == [key : Keys, start : Nat, end : Nat, events : SUBSET Events]
BotData == [checkpoint : 0..MaxBlock, windows : SUBSET WindowRecords,
            digest : SUBSET Events, completed : 0..NeverCompleted]
Notifications == [route : Keys \cup {Direct, Digest}, events : SUBSET Events]

(* The types of bot_data, the jobs and the notifications.                    *)
TypeOK ==
  /\ at \in 1..(MaxBlock + 1) /\ seen \in SUBSET Events
  /\ data \in BotData /\ saved \in BotData
  /\ due \in 0..MaxDay /\ scheduled \in BOOLEAN /\ job \in SUBSET Jobs
  /\ queue \in SUBSET Notifications /\ sent \in SUBSET Events /\ lost \in SUBSET Events
  /\ notified \in SUBSET Events /\ repeated \in SUBSET Events
  /\ digests \in [0..MaxDay -> Nat]
  /\ restarts \in 0..MaxRestarts /\ reconnects \in 0..MaxReconnects

PendingIn(d) == (UNION {w.events : w \in d.windows}) \cup d.digest
Queued == (UNION {n.events : n \in queue})

(* An event of a block behind the checkpoint, in memory or as persisted, is  *)
(* pending there, queued or sent: a restart behind that checkpoint forgets   *)
(* none, except what a crash or an error dropped from the update queue.      *)
Accounted(d) ==
  \A e \in Events :
    BlockOf[e] =< d.checkpoint => e \in PendingIn(d) \cup Queued \cup sent \cup lost
NothingForgotten == Accounted(data) /\ Accounted(saved)

(* No window outlives its last block: the checkpoint passes a block only     *)
(* together with the windows that end with it, so none is left unnotified.   *)
WindowsFlushedInTime == \A w \in data.windows : w.end > data.checkpoint

Disjoint(windows) ==
  \A w, v \in windows : w.key = v.key /\ w # v => w.end < v.start \/ v.end < w.start
WindowsDisjoint == Disjoint(data.windows)

(* The pending windows stay sound through batches, replays and restarts: each *)
(* is flushed with its last block, and no two of one key overlap, so an event *)
(* belongs to one of them even when a replay starts in the middle of a window.*)
WindowsSound == WindowsFlushedInTime /\ WindowsDisjoint

(* An aggregated notification holds every event of its key from its first    *)
(* block to the end of the window: replays and batches do not split it.      *)
NotificationsComplete ==
  \A n \in queue : n.route \in Keys =>
    \E first \in {BlockOf[e] : e \in n.events} :
      n.events = {e \in Events : RouteOf[e] = n.route /\ first =< BlockOf[e]
                                   /\ BlockOf[e] < first + WindowBlocks[n.route]}

(* Replays after reconnects repeat only events that are notified at once: an *)
(* aggregated or digest event is queued once per process.                    *)
QueuedOncePerProcess == \A e \in repeated : RouteOf[e] = Direct

(* The daily and the recovery job send at most one digest per due time.      *)
OneDigestPerDueTime == \A d \in 0..MaxDay : digests[d] =< 1

(* A due time that comes is honoured in the end, by the daily job or by the  *)
(* recovery job of a later process, unless the next one comes first.         *)
DigestsCatchUp == []<>Completed(due)

(* An event that is not left for a digest is notified once the blocks its    *)
(* window can span are processed, or was dropped from the update queue.      *)
LastWindowBlock(e) ==
  BlockOf[e] + IF RouteOf[e] \in Keys THEN WindowBlocks[RouteOf[e]] - 1 ELSE 0

EventuallyNotified ==
  <>[](\A e \in Events : RouteOf[e] # Digest /\ LastWindowBlock(e) =< data.checkpoint
                            => e \in sent \cup lost)
=============================================================================
