--------------------------- MODULE MCNotifications ---------------------------
(* What becomes of events before they are told, on small instances: the      *)
(* windows and the digest (NotificationPipeline), the group changes of one   *)
(* block (OperatorGroupChanges) and the figures of messages (FigureMessages).*)
(* The parts share no state, so a behaviour runs one of them and leaves the  *)
(* others in an initial state.                                               *)
(*                                                                           *)
(* Withdrawal events come in consecutive blocks with a window of two blocks, *)
(* so that windows start and end in the middle of batches and replays; an    *)
(* exit, with a window of its one block, in the block of a withdrawal; a      *)
(* digest event.                                                             *)
EXTENDS NotificationPipeline, TLC

CONSTANTS exits, withdrawals, e1, e2, e3, e4, e5, direct, digest,
          Groups, Operators, Shares, Names, MaxGroupEvents,
          FigureBlocks, MaxFigure, MaxFigureEvents, MaxCrashes

MCKeys == {exits, withdrawals}
MCEvents == {e1, e2, e3, e4, e5}
MCBlockOf == (e1 :> 1) @@ (e2 :> 2) @@ (e3 :> 3) @@ (e4 :> 2) @@ (e5 :> 3)
MCRouteOf ==
  (e1 :> withdrawals) @@ (e2 :> withdrawals) @@ (e3 :> withdrawals) @@ (e4 :> Digest)
  @@ (e5 :> exits)
MCWindowBlocks == (exits :> 1) @@ (withdrawals :> 2)

VARIABLES
  part,
  before, groups, events, window, phase, outcome,
  kind, log, block, arrived, checkpoint, collected, disk, out, told, crashes

groupVars  == <<before, groups, events, window, phase, outcome>>
figureVars == <<kind, log, block, arrived, checkpoint, collected, disk, out, told, crashes>>

GroupChanges == INSTANCE OperatorGroupChanges WITH MaxEvents <- MaxGroupEvents

Figures == INSTANCE FigureMessages WITH
  Kinds <- {"deposited", "total", "weight", "curve", "limit"},
  MaxBlock <- FigureBlocks, MaxEvents <- MaxFigureEvents,
  at <- block, seen <- arrived, store <- collected, saved <- disk

ASSUME PartsAssumption == GroupChanges!GroupsAssumption /\ Figures!FigureAssumption

PipelineTurn(A) == part = "pipeline" /\ A /\ UNCHANGED <<part, groupVars, figureVars>>
GroupsTurn(A)   == part = "groups" /\ A /\ UNCHANGED <<part, vars, figureVars>>
FiguresTurn(A)  == part = "figures" /\ A /\ UNCHANGED <<part, vars, groupVars>>

MCInit ==
  /\ part \in {"pipeline", "groups", "figures"}
  /\ part # "groups" => groups = [g \in Groups |-> GroupChanges!Cleared]
  /\ part # "figures" => kind = "deposited" /\ log = <<>>
  /\ Init /\ GroupChanges!Init /\ Figures!Init
  \* of interchangeable names the one of a first group
  /\ \A g \in Groups : groups[g].name \in {"", CHOOSE n \in Names : TRUE}

MCNext ==
  PipelineTurn(Next) \/ GroupsTurn(GroupChanges!Next) \/ FiguresTurn(Figures!Next)

MCSpec == MCInit /\ [][MCNext]_<<part, vars, groupVars, figureVars>>

(* Followers of the operators of a group are told the net change of a block, *)
(* under its right name (aggregation.py 231-286, curated/events.py 380-502). *)
GroupsAreTold ==
  GroupChanges!TypeOK /\ GroupChanges!NetChangeIsTold /\ GroupChanges!NameIsHonest

(* The figures of a collected message are the chain's, and no change falls   *)
(* between two messages (base_events.py 40-120, aggregation.py 119-176).     *)
FiguresAreTrue ==
  [](Figures!TypeOK /\ Figures!FiguresAreTrue) /\ Figures!NoChangeSkipped
=============================================================================
