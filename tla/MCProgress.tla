------------------------------ MODULE MCProgress ------------------------------
(* What must happen in the end, on small instances: the tasks that follow    *)
(* the chain with the health flags they write (HealthReports), the way of an *)
(* event to Telegram (NotificationPipeline) and the figures that messages    *)
(* carry (FigureMessages).  The parts share no state, so a behaviour runs    *)
(* one of them and leaves the others in an initial state.                    *)
EXTENDS HealthReports

VARIABLES
  part,
  at, seen, data, kept, due, scheduled, job, queue, sent, lost, notified, repeated,
  digests, restarts, reconnects,
  kind, log, block, arrived, checkpoint, collected, disk, out, told, crashes

pipelineVars == <<at, seen, data, kept, due, scheduled, job, queue, sent, lost, notified,
                  repeated, digests, restarts, reconnects>>
figureVars == <<kind, log, block, arrived, checkpoint, collected, disk, out, told, crashes>>

(* Two withdrawals of which one is notified at once, and a digest event.     *)
Pipeline == INSTANCE NotificationPipeline WITH
  Events <- {"e1", "e2", "e3"}, Keys <- {"withdrawals"},
  BlockOf <- [e \in {"e1", "e2", "e3"} |-> IF e = "e3" THEN 2 ELSE 1],
  RouteOf <- [e \in {"e1", "e2", "e3"} |->
                CASE e = "e1" -> "Digest" [] e = "e2" -> "withdrawals" [] e = "e3" -> "Direct"],
  Direct <- "Direct", Digest <- "Digest",
  WindowBlocks <- [k \in {"withdrawals"} |-> 2],
  MaxBlock <- 2, MaxDay <- 1, MaxRestarts <- 1, MaxReconnects <- 0,
  saved <- kept

(* Every kind of figure but the target limit, which is told at once.         *)
Figures == INSTANCE FigureMessages WITH
  Kinds <- {"deposited", "total", "weight", "curve"}, Operators <- {"o1", "o2"},
  MaxBlock <- 2, MaxFigure <- 2, MaxEvents <- 2, MaxCrashes <- 1,
  at <- block, seen <- arrived, store <- collected, saved <- disk

ASSUME FiguresMCAssumption == Figures!FigureAssumption

Parts == {"runtime", "pipeline", "figures"}

RuntimeTurn(A)  == part = "runtime" /\ A /\ UNCHANGED <<part, pipelineVars, figureVars>>
PipelineTurn(A) == part = "pipeline" /\ A /\ UNCHANGED <<part, allVars, figureVars>>
FiguresTurn(A)  == part = "figures" /\ A /\ UNCHANGED <<part, allVars, pipelineVars>>

MCInit ==
  /\ part \in Parts
  /\ HealthInit /\ Pipeline!Init /\ Figures!Init
  /\ part # "figures" => kind = "deposited" /\ log = <<>>

MCNext == RuntimeTurn(HNext) \/ PipelineTurn(Pipeline!Next) \/ FiguresTurn(Figures!Next)

MCSpec ==
  /\ MCInit /\ [][MCNext]_<<part, allVars, pipelineVars, figureVars>>
  (* HFairSpec *)
  /\ WF_allVars(RuntimeTurn(MakeMark))
  /\ WF_allVars(RuntimeTurn(HListener)) /\ WF_allVars(RuntimeTurn(HSupervisor))
  /\ WF_allVars(RuntimeTurn(HBootstrap)) /\ WF_allVars(RuntimeTurn(HStartAgain /\ Restart))
  /\ \A p \in Replayers : WF_allVars(RuntimeTurn(HReplay(p)))
  (* Pipeline!FairSpec *)
  /\ WF_pipelineVars(PipelineTurn(Pipeline!Feed))
  /\ WF_pipelineVars(PipelineTurn(Pipeline!ScheduleJobs))
  /\ WF_pipelineVars(PipelineTurn(Pipeline!QueueStep))
  /\ \A j \in Pipeline!Jobs : WF_pipelineVars(PipelineTurn(Pipeline!JobStep(j)))
  (* Figures!Spec *)
  /\ WF_figureVars(FiguresTurn(\E i \in DOMAIN log : i \notin arrived /\ Figures!Arrive(i)))
  /\ WF_figureVars(FiguresTurn(Figures!BlockCompleted))
  /\ WF_figureVars(FiguresTurn(Figures!FlushDigest))

(* No order of failures, replays and restarts makes the bot forget a block   *)
(* (EventuallyHandled of SubscriptionRuntime), with the writes of the health *)
(* flags between the steps.                                                  *)
BlocksAreHandled ==
  <>[](part = "runtime" => \A b \in 1..MaxBlock :
         b =< head /\ b > base => b \in store.handled \/ overtaken)

(* Every event is told: at once, when its window ends, or in the digest of   *)
(* the due time that comes, by whatever process is there then; and the last  *)
(* message about a figure carries the chain's present figure                 *)
(* (notifications.py 91-231, telegram_subscription.py 58-185).               *)
EventsAreTold ==
  /\ Pipeline!EventuallyNotified
  /\ []<>(part = "pipeline" => Pipeline!Completed(due))
  /\ Figures!EventuallyTold
=============================================================================
