----------------------------- MODULE SecretRotation -----------------------------
(***************************************************************************)
(* The external secret bundle: read when the process starts, watched by a  *)
(* job while it runs, and replaced by the operators of the bot at any      *)
(* time.  A new version makes the process shut down, and the process       *)
(* supervisor starts it again.  A version stands for the secrets that the  *)
(* file holds under it; the file is replaced as a whole.                   *)
(***************************************************************************)
EXTENDS Naturals

CONSTANTS
  Versions,     (* values of SECRET_VERSION                                 *)
  MaxRotations, (* bound on replacements of the file                        *)
  MaxOutages    (* bound on the times the file cannot be read               *)

SecretAssumption ==
  /\ Versions \subseteq Nat \ {0} /\ Versions # {}
  /\ MaxRotations \in Nat /\ MaxOutages \in Nat

None == 0

VARIABLES
  file,       \* the version in the file
  readable,   \* the file can be read, and holds a version
  phase,      \* how far the process is
  values,     \* whose secrets are in the environment of the process
  bundle,     \* SecretBundle.version
  rotations, outages, \* bounded
  torn        \* history: the two reads of the start saw different files

fileVars    == <<file, readable, rotations, outages>>
processVars == <<phase, values, bundle, torn>>
vars        == <<fileVars, processVars>>

Phases == {"down", "starting", "loaded", "running", "watching", "stopping"}

Init ==
  /\ file \in Versions /\ readable = TRUE
  /\ phase = "down" /\ values = None /\ bundle = None /\ torn = FALSE
  /\ rotations = 0 /\ outages = 0

(* A new bundle, or an older one put back.                                  *)
Rotate ==
  /\ rotations < MaxRotations
  /\ \E v \in Versions \ {file} : file' = v
  /\ rotations' = rotations + 1
  /\ UNCHANGED <<readable, outages, processVars>>

FileLost ==
  /\ readable /\ outages < MaxOutages
  /\ readable' = FALSE /\ outages' = outages + 1
  /\ UNCHANGED <<file, rotations, processVars>>

FileBack ==
  /\ ~readable
  /\ readable' = TRUE
  /\ UNCHANGED <<file, rotations, outages, processVars>>

StartProcess ==
  /\ phase = "down"
  /\ phase' = "starting" /\ values' = None /\ bundle' = None /\ torn' = FALSE
  /\ UNCHANGED fileVars

LoadValues ==
  /\ phase = "starting" /\ readable
  /\ phase' = "loaded" /\ values' = file
  /\ UNCHANGED <<fileVars, bundle, torn>>

(* The file is read a second time, for its version.                         *)
ReadVersion ==
  /\ phase = "loaded" /\ readable
  /\ phase' = "running" /\ bundle' = file
  /\ torn' = (values # file)
  /\ UNCHANGED <<fileVars, values>>

(* Without a readable bundle the process does not start.                    *)
StartFails ==
  /\ phase \in {"starting", "loaded"} /\ ~readable
  /\ phase' = "down"
  /\ UNCHANGED <<fileVars, values, bundle, torn>>

(* The job is scheduled once start-up and catch-up are over.                *)
ScheduleWatch ==
  /\ phase = "running"
  /\ phase' = "watching"
  /\ UNCHANGED <<fileVars, values, bundle, torn>>

(* Mutant of VersionChanged: an older bundle put back is not noticed.       *)
VersionIsNewer == file > bundle
VersionChanged == file # bundle

(* A file that cannot be read is left for the next check.                   *)
CheckRotation ==
  /\ phase = "watching" /\ readable /\ VersionChanged
  /\ phase' = "stopping"
  /\ UNCHANGED <<fileVars, values, bundle, torn>>

(* The subscription stops, _run closes everything.                          *)
Exit ==
  /\ phase = "stopping"
  /\ phase' = "down"
  /\ UNCHANGED <<fileVars, values, bundle, torn>>

Crash ==
  /\ phase # "down" /\ outages < MaxOutages
  /\ phase' = "down" /\ outages' = outages + 1
  /\ UNCHANGED <<file, readable, rotations, values, bundle, torn>>

Process ==
  \/ StartProcess \/ LoadValues \/ ReadVersion \/ StartFails \/ ScheduleWatch
  \/ CheckRotation \/ Exit

Next == Process \/ Rotate \/ FileLost \/ FileBack \/ Crash

Spec == Init /\ [][Next]_vars

(* The supervisor restarts the process, the job runs every five seconds,    *)
(* and a lost file comes back.                                              *)
FairSpec == Spec /\ WF_vars(Process) /\ WF_vars(FileBack)

(***************************************************************************)
(* Properties.                                                             *)
(***************************************************************************)
(* Types of the file and the process.                                       *)
TypeOK ==
  /\ file \in Versions /\ readable \in BOOLEAN
  /\ phase \in Phases
  /\ values \in Versions \cup {None} /\ bundle \in Versions \cup {None}
  /\ phase \in {"running", "watching", "stopping"} => values # None /\ bundle # None
  /\ rotations \in 0..MaxRotations /\ outages \in 0..MaxOutages
  /\ torn \in BOOLEAN

(* Once the file is left alone the process settles on its secrets, through  *)
(* rotations and roll-backs in the middle of a start, a stop or an outage,  *)
(* except where the two reads of load_environment_files saw two files.      *)
StaleOnlyByTornStart == <>[](phase = "watching" /\ (values = file \/ torn))

(* README: it "shuts down gracefully when it changes so the process         *)
(* supervisor can restart it with the new secrets".                         *)
NewSecretsAreLoaded == <>[](values = file)
=============================================================================
