----------------------------- MODULE StorageBinding -----------------------------
(***************************************************************************)
(* The persisted bot data between two starts of the process: which runtime *)
(* owns the file, what becomes of the events that an older version left in *)
(* it, and which object the module runtime writes its checkpoint and its   *)
(* digest to.  The library loads the file into a new object in             *)
(* initialize(), while the storage of the module runtime is bound to the   *)
(* object of its first use, which may be a scrape of the metrics by the    *)
(* thread of the health server.  An event stands for the digest event of   *)
(* the block of that number.                                               *)
(***************************************************************************)
EXTENDS Naturals

CONSTANTS
  Identities,  (* runtimes that may be configured: chain, module, type      *)
  NoOne,       (* not an identity                                           *)
  OldEvents,   (* events that an older version may have left                *)
  EventBlocks, (* later blocks with a digest event                          *)
  OldBlock,    (* the checkpoint of the older version                       *)
  MaxBlock,    (* bound on the chain                                        *)
  MaxFaults    (* bound on crashes, stops and wrong configurations          *)

ASSUME StorageAssumption ==
  /\ NoOne \notin Identities /\ Identities # {}
  /\ OldBlock \in Nat \ {0, 1} /\ MaxBlock \in Nat /\ OldBlock <= MaxBlock
  /\ MaxFaults \in Nat
  /\ OldEvents \subseteq 1..OldBlock /\ EventBlocks \subseteq (OldBlock + 1)..MaxBlock

VARIABLES
  file,       \* persistence.pkl: the bot data last written
  bot,        \* the bot data objects of the process
  storage,    \* the object that the cached storage() wraps
  phase, configured, \* how far the process is, and its identity
  next,       \* the next block that the module runtime handles
  head,       \* the newest block of the chain
  told,       \* events handed over to the notification queue
  owed,       \* history: events that the bot has taken responsibility for
  misplaced,  \* history: an initial checkpoint went to the first object
  faults      \* bounded

world   == <<head, faults>>
history == <<told, owed, misplaced>>
vars    == <<file, bot, storage, phase, configured, next, world, history>>

Events  == OldEvents \cup EventBlocks
Objects == {"first", "loaded"}
Unbound == "unbound"

Contents ==
  [owner : Identities \cup {NoOne}, block : 0..MaxBlock,
   oldDigest : SUBSET OldEvents, oldWindows : SUBSET OldEvents, digest : SUBSET Events]

Blank == [owner |-> NoOne, block |-> 0, oldDigest |-> {}, oldWindows |-> {}, digest |-> {}]

Upgraded ==
  {c \in Contents : c.block = OldBlock /\ c.digest = {}}

Init ==
  /\ file \in Upgraded \cup {Blank}
  /\ bot = [o \in Objects |-> Blank] /\ storage = Unbound
  /\ phase = "down" /\ configured = NoOne /\ next = 0
  /\ head = OldBlock /\ faults = 0
  /\ told = {} /\ misplaced = FALSE
  /\ owed = IF file = Blank THEN {} ELSE EventBlocks \cup file.oldDigest \cup file.oldWindows

NewBlock ==
  /\ head < MaxBlock
  /\ head' = head + 1
  /\ UNCHANGED <<file, bot, storage, phase, configured, next, faults, history>>

(* create_runtime, up to the binding of the metrics.                        *)
StartProcess ==
  /\ phase = "down"
  /\ \E i \in Identities :
       /\ configured' = i
       /\ IF file.owner \in {NoOne, i} THEN UNCHANGED faults
          ELSE faults < MaxFaults /\ faults' = faults + 1
  /\ phase' = "created" /\ storage' = Unbound
  /\ bot' = [o \in Objects |-> Blank]
  /\ UNCHANGED <<file, next, head, history>>

(* application.bot_data                                                     *)
Current == IF phase = "created" THEN "first" ELSE "loaded"

CachedStorage == IF storage = Unbound THEN Current ELSE storage

Scrape ==
  /\ phase # "down" /\ storage = Unbound
  /\ storage' = CachedStorage
  /\ UNCHANGED <<file, bot, phase, configured, next, world, history>>

(* The library replaces bot_data by what the file holds.                    *)
Initialize ==
  /\ phase = "created"
  /\ phase' = "initialized"
  /\ bot' = [bot EXCEPT !["loaded"] = file]
  /\ UNCHANGED <<file, storage, configured, next, world, history>>

(* Mutant of Matches: the persisted identity is not compared.               *)
MatchesAny == TRUE
Matches    == bot["loaded"].owner = configured

BindRuntime ==
  /\ phase = "initialized"
  /\ \/ /\ bot["loaded"].owner = NoOne
        /\ bot' = [bot EXCEPT !["loaded"].owner = configured]
        /\ phase' = "binding"
     \/ /\ bot["loaded"].owner # NoOne
        /\ phase' = IF Matches THEN "bound" ELSE "stopping"
        /\ UNCHANGED bot
  /\ UNCHANGED <<file, storage, configured, next, world, history>>

SaveIdentity ==
  /\ phase = "binding"
  /\ phase' = "bound" /\ file' = bot["loaded"]
  /\ UNCHANGED <<bot, storage, configured, next, world, history>>

(* Mutant of Migrated: the windows of the deposit group are dropped.        *)
MigratedWithoutWindows(c) ==
  [c EXCEPT !.oldDigest = {}, !.oldWindows = {}, !.digest = @ \cup c.oldDigest]

Migrated(c) ==
  [c EXCEPT !.oldDigest = {}, !.oldWindows = {},
            !.digest = @ \cup c.oldDigest \cup c.oldWindows]

BlockFrom(persisted) == IF persisted > 0 THEN persisted + 1 ELSE 0

(* The migration, the block to start from, and ensure_state_containers; the *)
(* process goes on at the block after the checkpoint, if there is one.      *)
MigrateAndEnsureState ==
  /\ phase = "bound"
  /\ bot' = [bot EXCEPT !["loaded"] = Migrated(@)]
  /\ storage' = CachedStorage
  /\ next' = BlockFrom(bot["loaded"].block)
  /\ phase' = IF next' = 0 THEN "new" ELSE "running"
  /\ UNCHANGED <<file, configured, world, history>>

(* A live subscription delivers what comes after head.                      *)
EstablishInitialCheckpoint ==
  /\ phase = "new"
  /\ bot' = [bot EXCEPT ![storage].block = head - 1]
  /\ misplaced' = (misplaced \/ storage = "first")
  /\ next' = head + 1 /\ phase' = "checkpointed"
  /\ UNCHANGED <<file, storage, configured, world, told, owed>>

SaveInitialCheckpoint ==
  /\ phase = "checkpointed"
  /\ phase' = "running" /\ file' = bot["loaded"]
  /\ owed' = owed \cup {b \in EventBlocks : b >= next /\ owed = {}}
  /\ UNCHANGED <<bot, storage, configured, next, world, told, misplaced>>

StoreEvent ==
  /\ phase = "running" /\ next \in EventBlocks /\ next <= head
  /\ next \notin bot[storage].digest
  /\ bot' = [bot EXCEPT ![storage].digest = @ \cup {next}]
  /\ UNCHANGED <<file, storage, phase, configured, next, world, history>>

AdvanceBlock ==
  /\ phase = "running" /\ next <= head
  /\ next \in EventBlocks => next \in bot[storage].digest
  /\ bot' = [bot EXCEPT ![storage].block = IF next > @ THEN next ELSE @]
  /\ next' = next + 1
  /\ UNCHANGED <<file, storage, phase, configured, world, history>>

(* Mutant of Ready: the events of the checkpoint block wait for another     *)
(* block.                                                                   *)
ReadyBefore == {e \in bot[storage].digest : e < bot["loaded"].block}

(* The job reads the checkpoint from bot_data, the digest from storage().   *)
Ready == {e \in bot[storage].digest : e <= bot["loaded"].block}

FlushDigest ==
  /\ phase = "running" /\ Ready # {}
  /\ told' = told \cup Ready
  /\ bot' = [bot EXCEPT ![storage].digest = @ \ Ready]
  /\ UNCHANGED <<file, storage, phase, configured, next, world, owed, misplaced>>

(* The library writes bot_data periodically once the application runs.      *)
Save ==
  /\ phase \notin {"down", "created"} /\ file # bot["loaded"]
  /\ file' = bot["loaded"]
  /\ UNCHANGED <<bot, storage, phase, configured, next, world, history>>

(* A signal, a rotation of the secrets, or an error after initialisation.   *)
Stop ==
  /\ phase \in {"binding", "bound", "new", "checkpointed", "running"}
  /\ faults < MaxFaults /\ faults' = faults + 1
  /\ phase' = "stopping"
  /\ UNCHANGED <<file, bot, storage, configured, next, head, history>>

(* application.stop() writes bot_data a last time.                          *)
Exit ==
  /\ phase = "stopping"
  /\ phase' = "down" /\ file' = bot["loaded"]
  /\ UNCHANGED <<bot, storage, configured, next, world, history>>

Crash ==
  /\ phase # "down"
  /\ faults < MaxFaults /\ faults' = faults + 1
  /\ phase' = "down"
  /\ UNCHANGED <<file, bot, storage, configured, next, head, history>>

Process ==
  \/ StartProcess \/ Initialize \/ BindRuntime \/ SaveIdentity \/ MigrateAndEnsureState
  \/ EstablishInitialCheckpoint \/ SaveInitialCheckpoint \/ StoreEvent \/ AdvanceBlock
  \/ Exit

Next == Process \/ FlushDigest \/ NewBlock \/ Scrape \/ Save \/ Stop \/ Crash

Spec == Init /\ [][Next]_vars

(* The container is restarted, the chain goes on, the digest job runs daily. *)
FairSpec == Spec /\ WF_vars(Process) /\ WF_vars(FlushDigest) /\ WF_vars(NewBlock)

(***************************************************************************)
(* Properties.                                                             *)
(***************************************************************************)
(* Types, and the owner of the data that a runtime works on.                *)
TypeOK ==
  /\ file \in Contents /\ bot \in [Objects -> Contents]
  /\ storage \in Objects \cup {Unbound}
  /\ phase \in {"down", "created", "initialized", "binding", "bound", "new",
                "checkpointed", "running", "stopping"}
  /\ configured \in Identities \cup {NoOne}
  /\ phase \in {"new", "checkpointed", "running"} =>
       storage # Unbound /\ bot["loaded"].owner = configured
  /\ next \in 0..(MaxBlock + 1) /\ head \in OldBlock..MaxBlock
  /\ told \subseteq Events /\ owed \subseteq Events
  /\ misplaced \in BOOLEAN /\ faults \in 0..MaxFaults

(* RuntimeIdentity.bind and the writes around it: a file that has an owner  *)
(* keeps it, and only the owner's process ever changes what it holds, also  *)
(* on the way out of a start that found a mismatch.                         *)
OneRuntimeOwnsTheFile ==
  [][file.owner # NoOne =>
       /\ file'.owner = file.owner
       /\ file' # file => configured = file.owner]_vars

(* Wherever the process is killed: an event that the bot owes is told, or   *)
(* in the file, in its old place or in the digest, or in a block that is    *)
(* read again after the next start.  Only an initial checkpoint written to  *)
(* the discarded object breaks this.                                        *)
InFile(e) == e \in file.oldDigest \cup file.oldWindows \cup file.digest

NoEventLost ==
  misplaced \/ \A e \in owed : e \in told \/ InFile(e) \/ (file.block > 0 /\ e > file.block)

(* Every owed event, also one that an older version left, ends up in a      *)
(* digest, unless the metrics are scraped before the file is loaded.        *)
EventuallyTold ==
  \A e \in Events : []<>(e \in owed => e \in told \/ storage = "first" \/ misplaced)

(* tests/app/test_bootstrap.py: after _persist_initial_checkpoint the file  *)
(* holds the checkpoint.                                                    *)
InitialCheckpointIsSaved == phase = "running" => file.block > 0
=============================================================================
