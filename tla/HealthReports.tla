----------------------------- MODULE HealthReports -----------------------------
(***************************************************************************)
(* What the health server answers on /startup and /ready, composed with    *)
(* the tasks of SubscriptionRuntime that write the flags behind it.        *)
(*                                                                         *)
(* The server runs in a thread of its own: it may answer between any two   *)
(* writes of one turn of the event loop.  A step of a task therefore       *)
(* leaves its writes in `marks`, in program order, and they are made one   *)
(* by one before any task goes on.                                         *)
(*                                                                         *)
(* Polling has started before the tasks of SubscriptionRuntime exist, so   *)
(* _polling_started is true throughout; /live is about the speed of the    *)
(* event loop and is not modelled.                                         *)
(***************************************************************************)
EXTENDS SubscriptionRuntime, Sequences

VARIABLES
  health,     \* the HealthState flags
  marks,      \* writes to health that the turn under way has still to make
  stopTask,   \* raw_subscription.stop() of a requested shutdown is under way
  early       \* history: a catch-up was marked complete with a replay owed

healthVars == <<health, marks, stopTask, early>>
allVars    == <<vars, healthVars>>

Marks == {"active", "inactive", "progress", "startup", "catchup", "caughtup",
          "shutdown", "fatal"}

FreshHealth ==
  [startup |-> FALSE, active |-> FALSE, catchup |-> FALSE, shuttingDown |-> FALSE,
   fatal |-> FALSE, progress |-> "none"]

(* Mutant of Marked: the end of a catch-up leaves its flag up.              *)
MarkedStuck(h, mark) ==
  CASE mark = "active"   -> [h EXCEPT !.active = TRUE, !.progress = "fresh"]
    [] mark = "inactive" -> [h EXCEPT !.active = FALSE]
    [] mark = "progress" -> [h EXCEPT !.progress = "fresh"]
    [] mark = "startup"  -> [h EXCEPT !.startup = TRUE, !.progress = "fresh"]
    [] mark = "catchup"  -> [h EXCEPT !.catchup = TRUE]
    [] mark = "caughtup" -> [h EXCEPT !.progress = "fresh"]
    [] mark = "shutdown" -> [h EXCEPT !.shuttingDown = TRUE]
    [] mark = "fatal"    -> [h EXCEPT !.fatal = TRUE]

(* The mark_... methods of HealthState.                                     *)
Marked(h, mark) ==
  CASE mark = "active"   -> [h EXCEPT !.active = TRUE, !.progress = "fresh"]
    [] mark = "inactive" -> [h EXCEPT !.active = FALSE]
    [] mark = "progress" -> [h EXCEPT !.progress = "fresh"]
    [] mark = "startup"  -> [h EXCEPT !.startup = TRUE, !.progress = "fresh"]
    [] mark = "catchup"  -> [h EXCEPT !.catchup = TRUE]
    [] mark = "caughtup" -> [h EXCEPT !.catchup = FALSE, !.progress = "fresh"]
    [] mark = "shutdown" -> [h EXCEPT !.shuttingDown = TRUE]
    [] mark = "fatal"    -> [h EXCEPT !.fatal = TRUE]

(* HealthState.snapshot: the answer to /ready.                              *)
Ready ==
  /\ health.startup /\ health.active /\ ~health.catchup
  /\ ~health.shuttingDown /\ ~health.fatal
  /\ health.progress = "fresh"

HealthInit ==
  /\ Init
  /\ health = FreshHealth /\ marks = <<>> /\ stopTask = FALSE /\ early = FALSE

MakeMark ==
  /\ marks # <<>>
  /\ health' = Marked(health, Head(marks))
  /\ marks' = Tail(marks)
  /\ early' = CASE Head(marks) = "caughtup" -> ReplayOwed
                [] Head(marks) = "catchup"  -> FALSE
                [] OTHER -> early
  /\ UNCHANGED <<vars, stopTask>>

(* What a turn of a task leaves to be written.                              *)
Writes(seq) == marks = <<>> /\ marks' = seq /\ UNCHANGED <<health, stopTask, early>>

(* _run: start-up is complete first, then the catch-up is announced.        *)
SubscribedMarks ==
  IF boot = "waiting" /\ cur = 1 /\ CatchUpStart # 0
  THEN <<"active", "startup", "catchup">> ELSE <<"active">>

(* Logs and heads count as progress, whatever becomes of them; the          *)
(* handlers of a subscription that was shut down still write it.            *)
HListener ==
  \/ ListenerSubscribed /\ Writes(SubscribedMarks)
  \/ ListenerHandled /\ Writes(<<>>)
  \/ \E x \in Items : /\ ListenerIgnores(x) \/ ListenerBuffers(x) \/ ListenerEmits(x)
                      /\ Writes(<<"progress">>)

FailureMarks    == <<"inactive">>

(* subscribe leaves, or cannot make, the connection.                        *)
HListenerFailed == ListenerFailed /\ Writes(FailureMarks)

(* catch_up_from returned, early or not: _run marks its end either way.     *)
CatchUpReturns == (boot = "replaying" /\ boot' = "done")

(* The supervisor's replay_blocks returned, interrupted or not.             *)
ReconnectReplayReturns == (sup = "replaying" /\ sup' = "watching")

ReplayMarks(p) ==
  IF CatchUpReturns \/ ReconnectReplayReturns THEN <<"caughtup">>
  ELSE IF replay[p].stage = "emit" /\ replay'[p].stage = "fetch" THEN <<"progress">>
  ELSE <<>>

HReplay(p) == Replay(p) /\ marks = <<>> /\ marks' = ReplayMarks(p)
                        /\ UNCHANGED <<health, stopTask, early>>

HCatchUpFails ==
  /\ CatchUpFails
  /\ marks = <<>> /\ marks' = IF CatchUpReturns THEN <<"caughtup">> ELSE <<>>
  /\ UNCHANGED <<health, stopTask, early>>

(* Mutant of RestartMarks: the owed replay is not announced.                *)
RestartUnmarked == <<>>
RestartMarks    == <<"catchup">>

HReconnectReplayFails ==
  ReconnectReplayFails /\ Writes(IF stopping THEN <<>> ELSE RestartMarks)

(* abort and stop mark the subscription inactive when they are done.        *)
HSupervisor ==
  \/ SupStarts /\ Writes(<<>>)
  \/ SupBeginsReplay /\ Writes(<<>>)
  \/ SupBeginsRestart /\ Writes(RestartMarks)
  \/ SupFinishesRestart /\ Writes(<<"inactive">>)
  \/ SupStops /\ Writes(<<"inactive">>)

(* The end of _run: the flags of the dying process.                         *)
HBootstrap ==
  \/ CatchUpGivesUp /\ Writes(<<"caughtup">>)
  \/ CatchUpRetries /\ Writes(<<>>)
  \/ CheckpointEstablished /\ Writes(<<"startup">>)
  \/ Exit /\ Writes(<<"shutdown", "inactive">>)

(* A new process has a HealthState of its own.                              *)
HStartAgain ==
  /\ Restart \/ Crash
  /\ marks = <<>>
  /\ health' = FreshHealth /\ marks' = <<>> /\ stopTask' = FALSE /\ early' = FALSE

(* except, then finally, in _run.                                           *)
HCheckpointFails == CheckpointFails /\ Writes(<<"fatal", "shutdown", "inactive">>)

(* The signal handler starts a task for the stop, the job that watches the   *)
(* secrets awaits it.                                                       *)
HRequestShutdown ==
  /\ RequestShutdown
  /\ marks = <<>> /\ stopTask' = TRUE
  /\ UNCHANGED <<health, marks, early>>

StopTaskEnds ==
  /\ stopTask /\ marks = <<>>
  /\ stopTask' = FALSE /\ marks' = <<"inactive">>
  /\ UNCHANGED <<vars, health, early>>

(* The job that polls the chain head, scheduled after the catch-up, counts   *)
(* as progress too, whether or not the subscription delivers anything.      *)
PollChainHead ==
  /\ boot = "done" /\ health.progress = "stale" /\ marks = <<>>
  /\ health' = Marked(health, "progress")
  /\ UNCHANGED <<vars, marks, stopTask, early>>

(* READINESS_PROGRESS_STALE_AFTER_SECONDS without a log, a head or a poll.  *)
HalfHourPasses ==
  /\ health.progress = "fresh" /\ marks = <<>>
  /\ health' = [health EXCEPT !.progress = "stale"]
  /\ UNCHANGED <<vars, marks, stopTask, early>>

HEnvironment ==
  \/ (MineBlock \/ Persist) /\ Writes(<<>>)
  \/ HListenerFailed \/ HCatchUpFails \/ HReconnectReplayFails
  \/ HCheckpointFails \/ HRequestShutdown \/ HStartAgain
  \/ StopTaskEnds \/ PollChainHead \/ HalfHourPasses

HNext ==
  \/ MakeMark \/ HListener \/ HSupervisor \/ HBootstrap
  \/ HEnvironment \/ \E p \in Replayers : HReplay(p)

HSpec == HealthInit /\ [][HNext]_allVars

(* As in SubscriptionRuntime, and a turn that has begun is finished.        *)
HFairSpec ==
  /\ HSpec
  /\ WF_allVars(MakeMark)
  /\ WF_allVars(HListener) /\ WF_allVars(HSupervisor)
  /\ WF_allVars(HBootstrap) /\ WF_allVars(HStartAgain /\ Restart)
  /\ \A p \in Replayers : WF_allVars(HReplay(p))

(***************************************************************************)
(* Properties.                                                             *)
(***************************************************************************)
(* Types of the flags and of the writes under way.                          *)
HealthTypeOK ==
  /\ health \in [startup : BOOLEAN, active : BOOLEAN, catchup : BOOLEAN,
                 shuttingDown : BOOLEAN, fatal : BOOLEAN,
                 progress : {"none", "fresh", "stale"}]
  /\ marks \in Seq(Marks) /\ Len(marks) =< 3
  /\ stopTask \in BOOLEAN /\ early \in BOOLEAN

(* /ready never stands for a subscription that is not there: not between    *)
(* two runtimes, whose stop and start write the one flag, nor before the    *)
(* first (rpc.py mark_subscription_active, mark_subscription_inactive).     *)
ReadyMeansSubscribed ==
  (Ready /\ marks = <<>>) => runtime[cur].phase = "live" /\ boot \notin {"waiting", "exited"}

(* /ready says that no replay is owed, but for two windows: between the two *)
(* writes of _run, and after a catch-up whose runtime was replaced marked   *)
(* itself complete (the disagreement of SubscriptionRuntime_gauge).         *)
ReadyWhileBehindOnlyByRace ==
  (Ready /\ ReplayOwed) => marks # <<>> \/ early

(* /ready never stands for a subscription that is not there, nor, but for    *)
(* two races, for a bot that is behind (health.py snapshot).                 *)
ReadyIsHonest == HealthTypeOK /\ ReadyMeansSubscribed /\ ReadyWhileBehindOnlyByRace

(* No order of failures, replays and catch-ups leaves a flag stuck: in the  *)
(* end the bot is subscribed and reports no catch-up, unless it stops or    *)
(* start-up still waits (the disagreement of SubscriptionRuntime_startup).  *)
EventuallyReady ==
  <>[](\/ health.startup /\ health.active /\ ~health.catchup /\ ~health.fatal
       \/ stopping \/ boot = "waiting")
=============================================================================
