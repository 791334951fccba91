-------------------------------- MODULE MCJobs --------------------------------
(* Jobs that compare what they find now with what they found before, on      *)
(* small instances: the watch of the chain head (StallAlert) and the watch   *)
(* of the secret bundle (SecretRotation).  The parts share no state, so a    *)
(* behaviour runs one of them and leaves the other in an initial state.      *)
EXTENDS StallAlert

VARIABLES part, file, readable, phase, values, bundle, rotations, outages, torn

secretVars == <<file, readable, phase, values, bundle, rotations, outages, torn>>

Secrets == INSTANCE SecretRotation WITH
  Versions <- {1, 2, 3}, MaxRotations <- 3, MaxOutages <- 2

ASSUME SecretsAssumption == Secrets!SecretAssumption

StallTurn(A)   == part = "stall" /\ A /\ UNCHANGED <<part, secretVars>>
SecretsTurn(A) == part = "secrets" /\ A /\ UNCHANGED <<part, vars>>

MCInit ==
  /\ part \in {"stall", "secrets"}
  /\ part # "secrets" => file = 1
  /\ Init /\ Secrets!Init

MCNext == StallTurn(Next) \/ SecretsTurn(Secrets!Next)

MCSpec ==
  /\ MCInit /\ [][MCNext]_<<part, vars, secretVars>>
  (* FairSpec *)
  /\ WF_vars(StallTurn(Poll)) /\ WF_vars(StallTurn(Check))
  (* Secrets!FairSpec *)
  /\ WF_secretVars(SecretsTurn(Secrets!Process))
  /\ WF_secretVars(SecretsTurn(Secrets!FileBack))

(* Once the file is left alone the process settles on its secrets, except    *)
(* where the two reads of a start saw two files (load_environment_files,     *)
(* check_secret_rotation): StaleOnlyByTornStart of SecretRotation.           *)
SecretsSettle ==
  /\ []Secrets!TypeOK
  /\ <>[](part = "secrets" => phase = "watching" /\ (values = file \/ torn))
=============================================================================
