-------------------------------- MODULE MCStart --------------------------------
(* What a start finds and catches up, on small instances: the persisted file *)
(* and its owner (StorageBinding), and the reader of historical logs inside  *)
(* a replay (LogReader).  The parts share no state, so a behaviour runs one  *)
(* of them and leaves the other in an initial state.                         *)
EXTENDS StorageBinding

CONSTANTS EndBlock, BatchSize, Interval, MaxLag, MaxFailures, MaxTime \* of LogReader

VARIABLES
  part,
  chain, idKnown, stage, batch, source, events, handled, stop, clock, lastRequest, failures,
  sentAt, behind, dropped

logVars == <<chain, idKnown, stage, batch, source, events, handled, stop, clock,
             lastRequest, failures, sentAt, behind, dropped>>

Log == INSTANCE LogReader WITH next <- batch

ASSUME LogAssumption == Log!ReaderAssumption

StorageTurn(A) == part = "storage" /\ A /\ UNCHANGED <<part, logVars>>
LogTurn(A)     == part = "log" /\ A /\ UNCHANGED <<part, vars>>

MCInit ==
  /\ part \in {"storage", "log"}
  /\ part # "log" => chain = [b \in Log!Blocks |-> "none"] /\ idKnown = FALSE
  /\ part # "storage" => file = Blank
  /\ Init /\ Log!Init

MCNext == StorageTurn(Next) \/ LogTurn(Log!Next)

MCSpec ==
  /\ MCInit /\ [][MCNext]_<<part, vars, logVars>>
  (* FairSpec *)
  /\ WF_vars(StorageTurn(Process)) /\ WF_vars(StorageTurn(FlushDigest))
  /\ WF_vars(StorageTurn(NewBlock))
  (* Log!FairSpec *)
  /\ WF_logVars(LogTurn(Log!Reader))

(* Replayed events are handled in the order of the chain, and each wanted    *)
(* one is handled, but for two excuses; the requests that fetch them keep    *)
(* their distance (web3_event_log_reader.py 68-190, rpc.py 200-238).         *)
ReplayIsFaithful ==
  /\ [](Log!TypeOK /\ Log!HandledInChainOrder /\ Log!NothingMissedButExcused)
  /\ Log!RequestsAreSpaced

(* A stop ends the replay even if an endpoint never answers its request.     *)
StopEndsReplay == Log!StopEndsReplay
=============================================================================
