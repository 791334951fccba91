------------------------ MODULE StorageBinding_proofs ------------------------
(* That no owed event is lost wherever the process is killed, and that the   *)
(* file stays with its owner, for any events, identities and faults; that a  *)
(* replay handles the logs of the chain in order and misses none.            *)
EXTENDS MCStart, Sequences, TLAPS

-----------------------------------------------------------------------------
(* Types.  The one flag is kept apart: it suits another prover.              *)
Phases == {"down", "created", "initialized", "binding", "bound", "new",
           "checkpointed", "running", "stopping"}

Data ==
  /\ file \in Contents /\ bot \in [Objects -> Contents]
  /\ storage \in Objects \cup {Unbound}
  /\ phase \in Phases /\ configured \in Identities \cup {NoOne}
  /\ next \in 0..(MaxBlock + 1) /\ head \in OldBlock..MaxBlock
  /\ told \subseteq Events /\ owed \subseteq Events
  /\ faults \in 0..MaxFaults

Flag == misplaced \in BOOLEAN

(* A runtime at work has a storage.                                          *)
Bound == phase \in {"new", "checkpointed", "running"} => storage \in Objects

LEMMA BlankType == Blank \in Contents
  BY StorageAssumption DEF Blank, Contents

LEMMA MigratedType ==
  ASSUME NEW c \in Contents
  PROVE  Migrated(c) \in Contents
  BY DEF Migrated, Contents, Events

LEMMA InitData == Init => Data /\ Bound
  <1> SUFFICES ASSUME Init
               PROVE  Data /\ Bound
    OBVIOUS
  <1>1. file \in Contents /\ bot \in [Objects -> Contents]
    BY BlankType DEF Init, Upgraded
  <1>2. owed \subseteq Events
    BY <1>1 DEF Init, Events, Contents
  <1> QED
    BY <1>1, <1>2, StorageAssumption DEF Init, Data, Phases, Bound

LEMMA FlagStep == Flag /\ [Next]_vars => Flag'
  BY Zenon
  DEF Flag, Next, Process, StartProcess, Initialize, BindRuntime, SaveIdentity,
      MigrateAndEnsureState, EstablishInitialCheckpoint, SaveInitialCheckpoint, StoreEvent,
      AdvanceBlock, Exit, FlushDigest, NewBlock, Scrape, Save, Stop, Crash, vars, history

LEMMA DataStep == Data /\ Bound /\ [Next]_vars => Data' /\ Bound'
  <1> SUFFICES ASSUME Data, Bound, [Next]_vars
               PROVE  Data' /\ Bound'
    OBVIOUS
  <1> USE StorageAssumption DEF Data, Bound, Phases, world, history
  <1>1. CASE NewBlock
    BY <1>1 DEF NewBlock
  <1>2. CASE StartProcess
    BY <1>2, BlankType DEF StartProcess, Unbound
  <1>3. CASE Scrape
    BY <1>3 DEF Scrape, CachedStorage, Current, Objects, Unbound
  <1>4. CASE Initialize
    BY <1>4 DEF Initialize, Objects
  <1>5. CASE BindRuntime
    BY <1>5 DEF BindRuntime, Objects, Contents
  <1>6. CASE SaveIdentity
    BY <1>6 DEF SaveIdentity, Objects
  <1>7. CASE MigrateAndEnsureState
    <2>1. bot' \in [Objects -> Contents]
      BY <1>7, MigratedType DEF MigrateAndEnsureState, Objects
    <2>2. next' \in 0..(MaxBlock + 1)
      BY <1>7 DEF MigrateAndEnsureState, BlockFrom, Objects, Contents
    <2> QED
      BY <1>7, <2>1, <2>2 DEF MigrateAndEnsureState, CachedStorage, Current, Objects, Unbound
  <1>8. CASE EstablishInitialCheckpoint
    <2>1. head - 1 \in 0..MaxBlock /\ storage \in Objects
      BY <1>8 DEF EstablishInitialCheckpoint
    <2>2. bot' \in [Objects -> Contents]
      BY <1>8, <2>1 DEF EstablishInitialCheckpoint, Contents
    <2> QED
      BY <1>8, <2>1, <2>2 DEF EstablishInitialCheckpoint
  <1>9. CASE SaveInitialCheckpoint
    BY <1>9 DEF SaveInitialCheckpoint, Objects, Events
  <1>10. CASE StoreEvent
    <2>1. storage \in Objects /\ next \in Events
      BY <1>10 DEF StoreEvent, Events
    <2>2. bot' \in [Objects -> Contents]
      BY <1>10, <2>1 DEF StoreEvent, Contents
    <2> QED
      BY <1>10, <2>2 DEF StoreEvent
  <1>11. CASE AdvanceBlock
    <2>1. storage \in Objects /\ next \in 0..MaxBlock
      BY <1>11 DEF AdvanceBlock
    <2>2. bot' \in [Objects -> Contents]
      BY <1>11, <2>1 DEF AdvanceBlock, Contents
    <2> QED
      BY <1>11, <2>1, <2>2 DEF AdvanceBlock
  <1>12. CASE FlushDigest
    <2>1. storage \in Objects /\ Ready \subseteq Events
      BY <1>12 DEF FlushDigest, Ready, Contents
    <2>2. bot' \in [Objects -> Contents]
      BY <1>12, <2>1 DEF FlushDigest, Contents
    <2> QED
      BY <1>12, <2>1, <2>2 DEF FlushDigest
  <1>13. CASE Save \/ Exit
    BY <1>13 DEF Save, Exit, Objects
  <1>14. CASE Stop \/ Crash
    BY <1>14 DEF Stop, Crash
  <1>15. CASE UNCHANGED vars
    BY <1>15 DEF vars
  <1> QED
    BY <1>1, <1>2, <1>3, <1>4, <1>5, <1>6, <1>7, <1>8, <1>9, <1>10, <1>11, <1>12, <1>13,
       <1>14, <1>15 DEF Next, Process

-----------------------------------------------------------------------------
(* Ownership: what the process works on is its own, except between the read  *)
(* of the file and the comparison, and on the way out of a mismatch, where   *)
(* it is what the file holds.                                                *)
Own == bot["loaded"].owner = configured /\ configured # NoOne

Owns ==
  /\ phase = "initialized" => bot["loaded"] = file
  /\ phase = "binding" => Own /\ file.owner \in {NoOne, configured}
  /\ phase \in {"bound", "new", "checkpointed", "running"} => Own /\ file.owner = configured
  /\ phase = "stopping" =>
       \/ bot["loaded"] = file
       \/ Own /\ file.owner \in {NoOne, configured}
  /\ phase # "down" => configured \in Identities

OwnerStep ==
  file.owner # NoOne =>
    /\ file'.owner = file.owner
    /\ file' # file => configured = file.owner

LEMMA OwnsInit == Init => Owns
  BY DEF Init, Owns

LEMMA MigratedOwner ==
  ASSUME NEW c \in Contents
  PROVE  Migrated(c).owner = c.owner /\ Migrated(c).block = c.block
  BY DEF Migrated, Contents

LEMMA OwnsStep == Data /\ Bound /\ Owns /\ [Next]_vars => Owns' /\ OwnerStep
  <1> SUFFICES ASSUME Data, Bound, Owns, [Next]_vars
               PROVE  Owns' /\ OwnerStep
    OBVIOUS
  <1> USE StorageAssumption DEF Data, Bound, Owns, Own, OwnerStep, Phases, world, history
  <1>1. CASE NewBlock \/ Scrape \/ Crash \/ UNCHANGED vars
    BY <1>1 DEF NewBlock, Scrape, Crash, vars
  <1>2. CASE StartProcess
    BY <1>2 DEF StartProcess
  <1>3. CASE Initialize
    BY <1>3 DEF Initialize, Objects
  <1>4. CASE BindRuntime
    BY <1>4 DEF BindRuntime, Matches, Objects, Contents
  <1>5. CASE SaveIdentity
    BY <1>5 DEF SaveIdentity
  <1>6. CASE MigrateAndEnsureState
    <2>1. bot'["loaded"].owner = bot["loaded"].owner
      BY <1>6, MigratedOwner DEF MigrateAndEnsureState, Objects
    <2> QED
      BY <1>6, <2>1 DEF MigrateAndEnsureState
  <1>7. CASE EstablishInitialCheckpoint
    <2>1. bot'["loaded"].owner = bot["loaded"].owner
      BY <1>7 DEF EstablishInitialCheckpoint, Objects, Contents
    <2> QED
      BY <1>7, <2>1 DEF EstablishInitialCheckpoint
  <1>8. CASE SaveInitialCheckpoint
    BY <1>8 DEF SaveInitialCheckpoint
  <1>9. CASE StoreEvent
    <2>1. bot'["loaded"].owner = bot["loaded"].owner
      BY <1>9 DEF StoreEvent, Objects, Contents
    <2> QED
      BY <1>9, <2>1 DEF StoreEvent
  <1>10. CASE AdvanceBlock
    <2>1. bot'["loaded"].owner = bot["loaded"].owner
      BY <1>10 DEF AdvanceBlock, Objects, Contents
    <2> QED
      BY <1>10, <2>1 DEF AdvanceBlock
  <1>11. CASE FlushDigest
    <2>1. bot'["loaded"].owner = bot["loaded"].owner
      BY <1>11 DEF FlushDigest, Objects, Contents
    <2> QED
      BY <1>11, <2>1 DEF FlushDigest
  <1>12. CASE Save
    BY <1>12 DEF Save
  <1>13. CASE Stop
    BY <1>13 DEF Stop
  <1>14. CASE Exit
    BY <1>14 DEF Exit
  <1> QED
    BY <1>1, <1>2, <1>3, <1>4, <1>5, <1>6, <1>7, <1>8, <1>9, <1>10, <1>11, <1>12, <1>13,
       <1>14 DEF Next, Process

LEMMA TypeParts == Data /\ Flag /\ Bound /\ Owns => TypeOK
  BY DEF Data, Flag, Bound, Owns, Own, TypeOK, Phases, Objects, Unbound

(* Types, and the owner of the data that a runtime works on.                 *)
THEOREM TypeCorrect == Spec => []TypeOK
  <1>1. Init => Flag
    BY DEF Init, Flag
  <1> QED
    BY <1>1, InitData, OwnsInit, FlagStep, DataStep, OwnsStep, TypeParts, PTL DEF Spec

(* RuntimeIdentity.bind and the writes around it keep the file with the      *)
(* runtime that it was first bound to, also on the exit from a mismatch.     *)
THEOREM FileKeepsItsOwner == Spec => OneRuntimeOwnsTheFile
  <1>1. Data /\ Bound /\ Owns /\ [Next]_vars => [OwnerStep]_vars
    BY OwnsStep
  <1>2. OwnerStep <=> (file.owner # NoOne =>
                         /\ file'.owner = file.owner
                         /\ file' # file => configured = file.owner)
    BY DEF OwnerStep
  <1> QED
    BY <1>1, <1>2, InitData, OwnsInit, DataStep, OwnsStep, PTL DEF Spec, OneRuntimeOwnsTheFile

-----------------------------------------------------------------------------
(* No event is lost: unless a checkpoint was misplaced, the file and the     *)
(* object it was read into each account for every owed event.  The module    *)
(* runtime has dealt with all blocks before next.                            *)
In(c, e) == e \in c.oldDigest \cup c.oldWindows \cup c.digest

Settled(c, e) == e \in told \/ In(c, e)

Kept(c) == \A e \in owed : Settled(c, e) \/ (e \in EventBlocks /\ e > c.block)

Started(c) == owed # {} => c.block > 0

Good(c) == Kept(c) /\ Started(c)

Dealt == storage = "loaded" => \A e \in owed : e < next => Settled(bot["loaded"], e)

AllSafe ==
  /\ Good(file)
  /\ phase \notin {"down", "created"} => Good(bot["loaded"])
  /\ phase = "new" => owed = {}
  /\ phase = "checkpointed" =>
       owed = {} /\ bot["loaded"].block > 0 /\ bot["loaded"].block < next
  /\ phase = "running" => Dealt

Safe == misplaced \/ AllSafe

LEMMA SafeInit == Init => Safe
  <1> SUFFICES ASSUME Init
               PROVE  AllSafe
    BY DEF Safe
  <1>1. CASE file = Blank
    BY <1>1, StorageAssumption DEF Init, AllSafe, Good, Kept, Started, Blank
  <1>2. CASE file # Blank
    <2>1. file \in Contents /\ file.block = OldBlock
      BY <1>2 DEF Init, Upgraded
    <2>2. owed = EventBlocks \cup file.oldDigest \cup file.oldWindows /\ phase = "down"
      BY <1>2 DEF Init
    <2>3. \A e \in EventBlocks : e > OldBlock
      BY StorageAssumption
    <2>4. Kept(file)
      BY <2>1, <2>2, <2>3 DEF Kept, Settled, In
    <2> QED
      BY <2>1, <2>2, <2>4, StorageAssumption DEF AllSafe, Good, Started
  <1> QED
    BY <1>1, <1>2

(* What was misplaced stays so; the argument is about the other case.        *)
LEMMA MisplacedStep ==
  ASSUME [Next]_vars, Flag
  PROVE  misplaced => misplaced'
  BY Zenon
  DEF Flag, Next, Process, StartProcess, Initialize, BindRuntime, SaveIdentity,
      MigrateAndEnsureState, EstablishInitialCheckpoint, SaveInitialCheckpoint, StoreEvent,
      AdvanceBlock, Exit, FlushDigest, NewBlock, Scrape, Save, Stop, Crash, vars, history

(* The steps that leave the events of both objects where they are.           *)
LEMMA SafeUnmoved ==
  ASSUME Data, Bound, AllSafe,
         \/ NewBlock \/ StartProcess \/ Scrape \/ Initialize \/ SaveIdentity
         \/ Save \/ Stop \/ Exit \/ Crash \/ UNCHANGED vars
  PROVE  AllSafe'
  <1> USE DEF AllSafe, Good, Kept, Started, Dealt, Settled, In, world, history
  <1>1. CASE NewBlock \/ Scrape \/ Crash \/ Stop \/ UNCHANGED vars
    BY <1>1 DEF NewBlock, Scrape, Crash, Stop, vars, Data, Bound, Objects, Unbound
  <1>2. CASE StartProcess
    BY <1>2 DEF StartProcess
  <1>3. CASE Initialize
    BY <1>3 DEF Initialize, Data, Objects
  <1>4. CASE SaveIdentity \/ Save \/ Exit
    BY <1>4 DEF SaveIdentity, Save, Exit
  <1> QED
    BY <1>1, <1>2, <1>3, <1>4

LEMMA SafeBind == ASSUME Data, AllSafe, BindRuntime PROVE AllSafe'
  <1>1. \A e : In(bot["loaded"], e) <=> In(bot'["loaded"], e)
    BY DEF BindRuntime, Data, Objects, Contents, In
  <1>2. bot'["loaded"].block = bot["loaded"].block
    BY DEF BindRuntime, Data, Objects, Contents
  <1> QED
    BY <1>1, <1>2
    DEF BindRuntime, AllSafe, Good, Kept, Started, Settled, In, world, history

LEMMA SafeMigrate == ASSUME Data, AllSafe, MigrateAndEnsureState PROVE AllSafe'
  <1>1. bot["loaded"] \in Contents /\ bot'["loaded"] = Migrated(bot["loaded"])
    BY DEF MigrateAndEnsureState, Data, Objects
  <1>2. \A e : In(bot["loaded"], e) <=> In(bot'["loaded"], e)
    BY <1>1 DEF Migrated, In, Contents
  <1>3. bot'["loaded"].block = bot["loaded"].block
    BY <1>1, MigratedOwner
  <1>4. Good(bot["loaded"])
    BY DEF MigrateAndEnsureState, AllSafe
  <1>5. Good(bot["loaded"])'
    BY <1>2, <1>3, <1>4
    DEF Good, Kept, Started, Settled, MigrateAndEnsureState, history
  <1>6. bot["loaded"].block = 0 => owed = {}
    BY <1>4 DEF Good, Started
  <1>7. bot["loaded"].block \in Nat /\ owed \subseteq Nat
    BY <1>1, StorageAssumption DEF Contents, Data, Events
  <1>8. CASE bot["loaded"].block > 0
    <2>1. next' = bot["loaded"].block + 1 /\ phase' = "running"
      BY <1>7, <1>8 DEF MigrateAndEnsureState, BlockFrom
    <2>2. \A e \in owed : e < next' => Settled(bot["loaded"], e)
      BY <2>1, <1>4, <1>7 DEF Good, Kept
    <2>3. Dealt'
      BY <2>2, <1>2 DEF Dealt, Settled, MigrateAndEnsureState, history
    <2> QED
      BY <1>5, <2>1, <2>3
      DEF AllSafe, Good, Kept, Started, Settled, In, MigrateAndEnsureState, history
  <1>9. CASE bot["loaded"].block = 0
    BY <1>5, <1>6, <1>9
    DEF AllSafe, Good, Kept, Started, Settled, In, MigrateAndEnsureState, BlockFrom, history
  <1> QED
    BY <1>7, <1>8, <1>9

(* The checkpoint of a first start, in the object that is persisted.         *)
LEMMA SafeEstablish ==
  ASSUME Data, Bound, AllSafe, EstablishInitialCheckpoint, storage = "loaded"
  PROVE  AllSafe'
  <1>1. bot'["loaded"].block = head - 1 /\ next' = head + 1 /\ phase' = "checkpointed"
    BY DEF EstablishInitialCheckpoint, Data, Objects, Contents
  <1>2. owed = {} /\ owed' = {}
    BY DEF EstablishInitialCheckpoint, AllSafe
  <1>3. head - 1 > 0 /\ head - 1 < head + 1
    BY StorageAssumption DEF Data
  <1> QED
    BY <1>1, <1>2, <1>3 DEF AllSafe, Good, Kept, Started

LEMMA SafeSaveInitial == ASSUME Data, AllSafe, SaveInitialCheckpoint PROVE AllSafe'
  <1>1. owed' = {b \in EventBlocks : b >= next}
    BY DEF SaveInitialCheckpoint, AllSafe
  <1>2. bot["loaded"].block > 0 /\ bot["loaded"].block < next
    BY DEF SaveInitialCheckpoint, AllSafe
  <1>3. bot["loaded"].block \in Nat /\ next \in Nat /\ EventBlocks \subseteq Nat
    BY StorageAssumption DEF Data, Objects, Contents
  <1>4. ASSUME NEW e \in owed'
        PROVE  e \in EventBlocks /\ e > bot["loaded"].block /\ ~(e < next)
    <2>1. e \in EventBlocks /\ e >= next /\ e \in Nat
      BY <1>1, <1>3
    <2> QED
      BY <2>1, <1>2, <1>3
  <1> QED
    BY <1>1, <1>2, <1>4
    DEF SaveInitialCheckpoint, AllSafe, Good, Kept, Started, Dealt, Settled

(* An event enters the digest, and the checkpoint passes its block after it. *)
LEMMA SafeStore == ASSUME Data, Bound, AllSafe, StoreEvent PROVE AllSafe'
  <1>1. \A e : In(bot["loaded"], e) => In(bot'["loaded"], e)
    BY DEF StoreEvent, Data, Bound, Objects, Contents, In
  <1>2. bot'["loaded"].block = bot["loaded"].block
    BY DEF StoreEvent, Data, Bound, Objects, Contents
  <1> QED
    BY <1>1, <1>2
    DEF StoreEvent, AllSafe, Good, Kept, Started, Dealt, Settled, In, world, history

LEMMA SafeAdvance == ASSUME Data, Bound, AllSafe, AdvanceBlock PROVE AllSafe'
  <1>1. CASE storage = "first"
    <2>1. bot'["loaded"] = bot["loaded"]
      BY <1>1 DEF AdvanceBlock, Data, Objects
    <2> QED
      BY <1>1, <2>1
      DEF AdvanceBlock, AllSafe, Good, Kept, Started, Dealt, Settled, In, world, history
  <1>2. CASE storage = "loaded"
    <2>1. bot["loaded"] \in Contents /\ next \in Nat /\ owed \subseteq Events
      BY DEF Data, Objects
    <2>2. \A e : In(bot["loaded"], e) <=> In(bot'["loaded"], e)
      BY <1>2 DEF AdvanceBlock, Data, Objects, Contents, In
    <2>3. bot'["loaded"].block =
            IF next > bot["loaded"].block THEN next ELSE bot["loaded"].block
      BY <1>2 DEF AdvanceBlock, Data, Objects, Contents
    <2>4. Good(bot["loaded"])
      BY DEF AdvanceBlock, AllSafe
    <2>5. next \in EventBlocks => Settled(bot["loaded"], next)
      BY <1>2 DEF AdvanceBlock, Settled, In
    <2>6. bot["loaded"].block \in Nat /\ Events \subseteq Nat
      BY <2>1, StorageAssumption DEF Contents, Events
    <2>7. ASSUME NEW e \in owed, e < next + 1
          PROVE  Settled(bot["loaded"], e)
      <3>1. CASE e = next /\ e \in EventBlocks
        BY <3>1, <2>5
      <3>2. CASE e < next
        BY <3>2, <1>2 DEF AllSafe, Dealt, AdvanceBlock
      <3>3. CASE e \notin EventBlocks
        BY <3>3, <2>4 DEF Good, Kept
      <3> QED
        BY <2>7, <2>1, <2>6, <3>1, <3>2, <3>3
    <2>8. Kept(bot["loaded"])'
      <3>1. ASSUME NEW e \in owed, ~Settled(bot["loaded"], e)
            PROVE  e \in EventBlocks /\ e > bot'["loaded"].block
        <4>1. e \in EventBlocks /\ e > bot["loaded"].block
          BY <3>1, <2>4 DEF Good, Kept
        <4>2. e \in Nat /\ ~(e < next + 1)
          BY <3>1, <2>1, <2>6, <2>7
        <4> QED
          BY <4>1, <4>2, <2>1, <2>3, <2>6
      <3>2. \A e \in owed : Settled(bot["loaded"], e) <=> Settled(bot["loaded"], e)'
        BY <2>2 DEF Settled, AdvanceBlock, history
      <3> QED
        BY <3>1, <3>2 DEF Kept, AdvanceBlock, history
    <2>9. Started(bot["loaded"])'
      BY <2>1, <2>3, <2>4, <2>6 DEF Good, Started, AdvanceBlock, history
    <2>10. Dealt'
      BY <2>2, <2>7 DEF Dealt, Settled, AdvanceBlock, history
    <2> QED
      BY <2>8, <2>9, <2>10
      DEF AllSafe, Good, Kept, Started, Settled, In, AdvanceBlock, world, history
  <1> QED
    BY <1>1, <1>2 DEF AdvanceBlock, Bound, Objects

LEMMA SafeFlush == ASSUME Data, Bound, AllSafe, FlushDigest PROVE AllSafe'
  <1>1. \A e : In(bot["loaded"], e) => In(bot'["loaded"], e) \/ e \in told'
    BY DEF FlushDigest, Data, Bound, Objects, Contents, In
  <1>2. bot'["loaded"].block = bot["loaded"].block
    BY DEF FlushDigest, Data, Bound, Objects, Contents
  <1>3. told \subseteq told'
    BY DEF FlushDigest
  <1> QED
    BY <1>1, <1>2, <1>3
    DEF FlushDigest, AllSafe, Good, Kept, Started, Dealt, Settled, In, world

LEMMA SafeStep == Data /\ Flag /\ Bound /\ Safe /\ [Next]_vars => Safe'
  <1> SUFFICES ASSUME Data, Flag, Bound, Safe, [Next]_vars, ~misplaced'
               PROVE  AllSafe'
    BY DEF Safe
  <1>1. AllSafe
    BY MisplacedStep DEF Safe
  <1>2. EstablishInitialCheckpoint => storage = "loaded"
    <2>1. EstablishInitialCheckpoint => storage # "first"
      BY Zenon DEF EstablishInitialCheckpoint
    <2> QED
      BY <2>1 DEF EstablishInitialCheckpoint, Bound, Objects
  <1> QED
    BY <1>1, <1>2, SafeUnmoved, SafeBind, SafeMigrate, SafeEstablish, SafeSaveInitial, SafeStore,
       SafeAdvance, SafeFlush
    DEF Next, Process

(* Every owed event is told, in the file, or in a block that is read again,  *)
(* wherever the process is killed, unless an early scrape has misplaced the  *)
(* initial checkpoint.                                                       *)
THEOREM OwedEventsSurvive == Spec => []NoEventLost
  <1>1. Init => Flag
    BY DEF Init, Flag
  <1>2. Safe => NoEventLost
    <2> SUFFICES ASSUME AllSafe, NEW e \in owed
                 PROVE  e \in told \/ InFile(e) \/ (file.block > 0 /\ e > file.block)
      BY DEF Safe, NoEventLost
    <2> QED
      BY DEF AllSafe, Good, Kept, Started, Settled, In, InFile
  <1> QED
    BY <1>1, <1>2, InitData, SafeInit, FlagStep, DataStep, SafeStep, PTL DEF Spec

-----------------------------------------------------------------------------
(* The replay of historical logs, for every chain, batch size and limit on   *)
(* requests: what is handled lies behind what is collected, which lies   *)
(* behind what is not yet asked for.                                         *)
ReadKinds == {"resumed", "other", "unknown", "exit", "foreign", "none"}

Handled == Log!HandledEvents

(* A log that is to be handled, and one that may be.                         *)
Due(b) == chain[b] \in {"resumed", "other", "exit"}
Taken(b) == chain[b] \in {"resumed", "other"} \/ (chain[b] = "exit" /\ idKnown)

(* The logs of the batch that the requests answered so far have asked for.   *)
Asked(b) == \/ source > 1 /\ chain[b] \in Log!ModuleKinds
            \/ source > 2 /\ chain[b] \in Log!ExitKinds

ReaderType ==
  /\ Log!TypeOK /\ chain \in [Log!Blocks -> ReadKinds]
  /\ stage \notin Log!Final => batch \in 1..EndBlock
  /\ stage = "request" => source \in 1..2
  /\ sentAt = lastRequest

(* What is handled lies behind what is collected.                            *)
InOrder ==
  /\ Log!HandledInChainOrder
  /\ \A b \in events \cup Handled : Taken(b)
  /\ stage \in {"connect", "throttle", "request"} => \A b \in Handled : b < batch
  /\ stage \in {"throttle", "request", "emit"} =>
       \A b \in events : batch =< b /\ b =< Log!BatchEnd
  /\ stage = "emit" => \A b \in Handled : b =< Log!BatchEnd /\ \A c \in events : b < c

(* What was due is handled or excused, or still collected.                   *)
Accounted ==
  /\ \A b \in 1..(batch - 1) : Due(b) => b \in Handled \cup behind \cup dropped
  /\ stage \in {"throttle", "request"} =>
       \A b \in batch..Log!BatchEnd : Due(b) /\ Asked(b) => b \in events \cup behind \cup dropped
  /\ stage = "emit" =>
       \A b \in batch..Log!BatchEnd : Due(b) => b \in events \cup Handled \cup behind \cup dropped

ReplayInv == ReaderType /\ InOrder /\ Accounted

LEMMA ReaderConstants ==
  /\ EndBlock \in Nat \ {0} /\ BatchSize \in Nat \ {0}
  /\ Interval \in Nat /\ MaxLag \in Nat /\ MaxFailures \in Nat /\ MaxTime \in Nat
  BY LogAssumption DEF Log!ReaderAssumption

LEMMA BatchEnds ==
  ASSUME batch \in 1..EndBlock
  PROVE  Log!BatchEnd \in Nat /\ batch =< Log!BatchEnd /\ Log!BatchEnd =< EndBlock
  BY ReaderConstants DEF Log!BatchEnd

LEMMA BlocksAre ==
  ASSUME ReaderType
  PROVE  Handled \subseteq Log!Blocks /\ events \subseteq Log!Blocks /\ Log!Blocks \subseteq Nat
  <1>1. handled \in Seq(Log!Blocks) /\ events \subseteq Log!Blocks
    BY DEF ReaderType, Log!TypeOK
  <1>2. Handled \subseteq Log!Blocks
    BY <1>1 DEF Handled, Log!HandledEvents
  <1>3. Log!Blocks \subseteq Nat
    BY ReaderConstants DEF Log!Blocks
  <1> QED
    BY <1>1, <1>2, <1>3

(* Steps that handle nothing.                                                *)
LEMMA ReplayMoves ==
  ASSUME ReplayInv, ReaderType', UNCHANGED <<chain, batch, handled>>,
         idKnown' = idKnown,
         stage' \in {"throttle", "request"} =>
           \A b \in events' : Taken(b) /\ batch =< b /\ b =< Log!BatchEnd,
         stage' \notin {"throttle", "request"} => events' = events,
         behind \subseteq behind', dropped \subseteq dropped',
         stage' = "emit" => stage \in {"throttle", "emit"},
         stage' = "emit" /\ stage # "emit" =>
           \A b \in batch..Log!BatchEnd : Due(b) => b \in events \cup behind \cup dropped,
         stage' \in {"connect", "throttle", "request"} =>
           stage \in {"connect", "throttle", "request"},
         stage' \in {"throttle", "request"} =>
           \A b \in batch..Log!BatchEnd :
             Due(b) /\ Asked(b)' => b \in events' \cup behind' \cup dropped'
  PROVE  ReplayInv'
  <1>1. /\ Log!BatchEnd' = Log!BatchEnd /\ Handled' = Handled
        /\ \A b : Due(b)' = Due(b) /\ Taken(b)' = Taken(b)
    BY DEF Log!BatchEnd, Handled, Log!HandledEvents, Due, Taken
  <1>2. Log!HandledInChainOrder'
    BY DEF ReplayInv, InOrder, Log!HandledInChainOrder
  <1>3. \A b \in events' \cup Handled' : Taken(b)'
    BY <1>1 DEF ReplayInv, InOrder
  <1>4. stage' \in {"connect", "throttle", "request"} => \A b \in Handled' : b < batch'
    BY <1>1 DEF ReplayInv, InOrder
  <1>5. stage' \in {"throttle", "request", "emit"} =>
          \A b \in events' : batch' =< b /\ b =< Log!BatchEnd'
    BY <1>1 DEF ReplayInv, InOrder
  <1>6. stage' = "emit" => \A b \in Handled' : b =< Log!BatchEnd' /\ \A c \in events' : b < c
    <2> SUFFICES ASSUME stage' = "emit", NEW b \in Handled
                 PROVE  b =< Log!BatchEnd /\ \A c \in events : b < c
      BY <1>1
    <2>1. CASE stage = "emit"
      BY <2>1 DEF ReplayInv, InOrder
    <2>2. CASE stage = "throttle"
      <3>1. b < batch /\ \A c \in events : batch =< c
        BY <2>2 DEF ReplayInv, InOrder
      <3>2. batch \in 1..EndBlock /\ events \subseteq Nat /\ b \in Nat
        <4>1. Handled \subseteq Log!Blocks /\ events \subseteq Log!Blocks /\ Log!Blocks \subseteq Nat
          BY BlocksAre DEF ReplayInv
        <4>3. stage \notin Log!Final
          BY <2>2 DEF Log!Final
        <4> QED
          BY <4>1, <4>3 DEF ReplayInv, ReaderType
      <3>3. batch =< Log!BatchEnd /\ Log!BatchEnd \in Nat
        BY <3>2, BatchEnds
      <3>4. \A c \in events : b < c
        BY <3>1, <3>2
      <3> QED
        BY <3>1, <3>2, <3>3, <3>4
    <2> QED
      BY <2>1, <2>2
  <1>7. InOrder'
    BY <1>2, <1>3, <1>4, <1>5, <1>6 DEF InOrder
  <1>8. Accounted'
    <2>1. \A b \in 1..(batch' - 1) : Due(b)' => b \in Handled' \cup behind' \cup dropped'
      BY <1>1 DEF ReplayInv, Accounted
    <2>2. stage' \in {"throttle", "request"} =>
            \A b \in batch'..Log!BatchEnd' :
              Due(b)' /\ Asked(b)' => b \in events' \cup behind' \cup dropped'
      BY <1>1
    <2>3. stage' = "emit" =>
            \A b \in batch'..Log!BatchEnd' :
              Due(b)' => b \in events' \cup Handled' \cup behind' \cup dropped'
      BY <1>1 DEF ReplayInv, Accounted
    <2> QED
      BY <2>1, <2>2, <2>3 DEF Accounted
  <1> QED
    BY <1>7, <1>8 DEF ReplayInv

LEMMA EmitKeeps ==
  ASSUME ReplayInv, Log!EmitEvent
  PROVE  ReplayInv'
  <1>1. PICK h \in Log!FirstEvent :
          events' = events \ {h} /\ handled' = Append(handled, h) /\ Log!Refresh(h)
    BY DEF Log!EmitEvent
  <1>2. /\ stage = "emit" /\ UNCHANGED <<chain, stage, batch, source, stop, clock, lastRequest,
                                         sentAt, behind, dropped>>
    BY DEF Log!EmitEvent, Log!historyVars
  <1>3. h \in events /\ \A c \in events : h =< c
    BY DEF Log!FirstEvent
  <1>4. /\ Handled \subseteq Log!Blocks /\ events \subseteq Log!Blocks /\ Log!Blocks \subseteq Nat
        /\ handled \in Seq(Log!Blocks)
    BY BlocksAre DEF ReplayInv, ReaderType, Log!TypeOK
  <1>5. /\ Handled' = Handled \cup {h} /\ Log!BatchEnd' = Log!BatchEnd
        /\ Len(handled) \in Nat /\ DOMAIN handled = 1..Len(handled)
        /\ DOMAIN handled' = DOMAIN handled \cup {Len(handled) + 1}
        /\ \A i \in DOMAIN handled : handled'[i] = handled[i] /\ handled[i] \in Handled
        /\ handled'[Len(handled) + 1] = h
        /\ handled' \in Seq(Log!Blocks)
    <2>1. /\ Len(handled) \in Nat /\ DOMAIN handled = 1..Len(handled)
          /\ DOMAIN handled' = DOMAIN handled \cup {Len(handled) + 1}
          /\ \A i \in DOMAIN handled : handled'[i] = handled[i]
          /\ handled'[Len(handled) + 1] = h
          /\ handled' \in Seq(Log!Blocks)
      BY <1>1, <1>3, <1>4
    <2>2. \A i \in DOMAIN handled : handled[i] \in Handled
      BY DEF Handled, Log!HandledEvents
    <2>3. Handled' = Handled \cup {h}
      BY <2>1, Zenon DEF Handled, Log!HandledEvents
    <2>4. Log!BatchEnd' = Log!BatchEnd
      BY <1>2 DEF Log!BatchEnd
    <2> QED
      BY <2>1, <2>2, <2>3, <2>4
  <1>6. /\ idKnown \in BOOLEAN /\ idKnown' \in BOOLEAN /\ (idKnown => idKnown')
        /\ failures' \in 0..MaxFailures
    <2>1. idKnown \in BOOLEAN /\ failures \in 0..MaxFailures
      BY DEF ReplayInv, ReaderType, Log!TypeOK
    <2>2. CASE chain[h] = "resumed" /\ ~idKnown
      <3>1. \/ idKnown' = TRUE /\ failures' = failures
            \/ idKnown' = FALSE /\ failures < MaxFailures /\ failures' = failures + 1
        BY <1>1, <2>2 DEF Log!Refresh, Log!Fails
      <3>2. failures' \in 0..MaxFailures
        BY <2>1, <3>1, ReaderConstants
      <3> QED
        BY <2>1, <2>2, <3>1, <3>2
    <2>3. CASE ~(chain[h] = "resumed" /\ ~idKnown)
      BY <1>1, <2>1, <2>3 DEF Log!Refresh
    <2> QED
      BY <2>2, <2>3
  <1>7. batch \in 1..EndBlock
    BY <1>2 DEF ReplayInv, ReaderType, Log!Final
  <1>8. ReaderType'
    BY <1>1, <1>2, <1>4, <1>5, <1>6 DEF ReplayInv, ReaderType, Log!TypeOK
  <1>9. \A b \in Handled : b < h
    BY <1>2, <1>3 DEF ReplayInv, InOrder
  <1>10. Log!HandledInChainOrder'
    <2> SUFFICES ASSUME NEW i \in DOMAIN handled', NEW j \in DOMAIN handled', i < j
                 PROVE  handled'[i] < handled'[j]
      BY DEF Log!HandledInChainOrder
    <2>1. i \in DOMAIN handled
      BY <1>5
    <2>2. CASE j \in DOMAIN handled
      BY <1>5, <2>1, <2>2 DEF ReplayInv, InOrder, Log!HandledInChainOrder
    <2>3. CASE j \notin DOMAIN handled
      BY <1>5, <1>9, <2>1, <2>3
    <2> QED
      BY <2>2, <2>3
  <1>11. \A b : (Due(b)' <=> Due(b)) /\ (Taken(b) => Taken(b)')
    BY <1>2, <1>6 DEF Due, Taken
  <1>12. InOrder'
    <2>1. \A b \in events' \cup Handled' : Taken(b)'
      BY <1>1, <1>3, <1>5, <1>11 DEF ReplayInv, InOrder
    <2>2. \A b \in events' : batch' =< b /\ b =< Log!BatchEnd'
      BY <1>1, <1>2, <1>5 DEF ReplayInv, InOrder
    <2>3. \A b \in Handled' : b =< Log!BatchEnd' /\ \A c \in events' : b < c
      <3>1. h =< Log!BatchEnd
        BY <1>2, <1>3 DEF ReplayInv, InOrder
      <3>2. \A c \in events' : h < c
        BY <1>1, <1>3, <1>4
      <3>3. \A b \in Handled : b =< Log!BatchEnd /\ \A c \in events : b < c
        BY <1>2 DEF ReplayInv, InOrder
      <3> QED
        BY <1>1, <1>5, <3>1, <3>2, <3>3
    <2> QED
      BY <1>2, <1>10, <2>1, <2>2, <2>3 DEF InOrder
  <1>13. Accounted'
    <2>1. \A b \in 1..(batch - 1) : Due(b) => b \in Handled \cup behind \cup dropped
      BY DEF ReplayInv, Accounted
    <2>2. \A b \in batch..Log!BatchEnd : Due(b) => b \in events \cup Handled \cup behind \cup dropped
      BY <1>2 DEF ReplayInv, Accounted
    <2>3. events \cup Handled = events' \cup Handled'
      BY <1>1, <1>3, <1>5
    <2>4. \A b \in batch'..Log!BatchEnd' :
            Due(b)' => b \in events' \cup Handled' \cup behind' \cup dropped'
      BY <1>2, <1>5, <1>11, <2>2, <2>3
    <2>5. \A b \in 1..(batch' - 1) : Due(b)' => b \in Handled' \cup behind' \cup dropped'
      BY <1>2, <1>5, <1>11, <2>1
    <2> QED
      BY <1>2, <2>4, <2>5 DEF Accounted
  <1> QED
    BY <1>8, <1>12, <1>13 DEF ReplayInv

LEMMA BatchKeeps ==
  ASSUME ReplayInv, Log!BatchDone
  PROVE  ReplayInv'
  <1>1. /\ stage = "emit" /\ events = {} /\ batch' = Log!BatchEnd + 1
        /\ stage' = IF batch' > EndBlock THEN "done" ELSE "connect"
        /\ UNCHANGED <<chain, idKnown, source, events, handled, stop, clock, lastRequest, failures,
                       sentAt, behind, dropped>>
    BY DEF Log!BatchDone, Log!historyVars
  <1>2. batch \in 1..EndBlock
    BY <1>1 DEF ReplayInv, ReaderType, Log!Final
  <1>3. Log!BatchEnd \in Nat /\ batch =< Log!BatchEnd /\ Log!BatchEnd =< EndBlock
    BY <1>2, BatchEnds
  <1>4. /\ batch' \in 1..(EndBlock + 1)
        /\ stage' \in {"done", "connect"} /\ (stage' = "connect" => batch' \in 1..EndBlock)
    BY <1>1, <1>3, ReaderConstants
  <1>5. ReaderType'
    BY <1>1, <1>4 DEF ReplayInv, ReaderType, Log!TypeOK, Log!Final
  <1>6. /\ Handled' = Handled /\ \A b : Due(b)' = Due(b) /\ Taken(b)' = Taken(b)
    BY <1>1 DEF Handled, Log!HandledEvents, Due, Taken
  <1>7. Handled \subseteq Nat
    BY BlocksAre DEF ReplayInv
  <1>8. InOrder'
    <2>1. \A b \in Handled : b =< Log!BatchEnd
      BY <1>1 DEF ReplayInv, InOrder
    <2>2. \A b \in Handled' : b < batch'
      BY <1>1, <1>3, <1>6, <1>7, <2>1
    <2>3. Log!HandledInChainOrder'
      BY <1>1 DEF ReplayInv, InOrder, Log!HandledInChainOrder
    <2>4. \A b \in events' \cup Handled' : Taken(b)'
      BY <1>1, <1>6 DEF ReplayInv, InOrder
    <2> QED
      BY <1>1, <1>4, <2>2, <2>3, <2>4 DEF InOrder
  <1>9. Accounted'
    <2> SUFFICES ASSUME NEW b \in 1..(batch' - 1), Due(b)
                 PROVE  b \in Handled \cup behind \cup dropped
      BY <1>1, <1>4, <1>6 DEF Accounted
    <2>1. b \in 1..(batch - 1) \/ b \in batch..Log!BatchEnd
      BY <1>1, <1>2, <1>3
    <2> QED
      BY <1>1, <2>1 DEF ReplayInv, Accounted
  <1> QED
    BY <1>5, <1>8, <1>9 DEF ReplayInv

(* One request more is answered.                                             *)
LEMMA ServedKeeps ==
  ASSUME ReplayInv, Log!LogsServed
  PROVE  ReplayInv'
  <1> DEFINE of == {b \in Log!Blocks : b >= batch /\ b =< Log!BatchEnd
                                       /\ chain[b] \in Log!Sources[source]}
  <1>1. PICK tip \in {b \in 0..EndBlock : b + MaxLag >= EndBlock} :
          /\ events' = events \cup {b \in of : b =< tip /\ Log!Wanted(b)}
          /\ behind' = behind \cup {b \in of : b > tip}
          /\ dropped' = dropped \cup {b \in of : chain[b] = "exit" /\ ~idKnown}
    BY DEF Log!LogsServed
  <1>2. /\ stage = "request" /\ stage' = "throttle" /\ source' = source + 1
        /\ UNCHANGED <<chain, idKnown, batch, handled, stop, clock, lastRequest, failures, sentAt>>
    BY DEF Log!LogsServed
  <1>3. source \in 1..2 /\ batch \in 1..EndBlock
    BY <1>2 DEF ReplayInv, ReaderType, Log!Final
  <1>4. /\ Log!BatchEnd \in Nat /\ batch =< Log!BatchEnd /\ Log!BatchEnd =< EndBlock
        /\ Log!BatchEnd' = Log!BatchEnd
    BY <1>2, <1>3, BatchEnds DEF Log!BatchEnd
  <1>5. ReaderType'
    <2>1. Len(Log!Sources) = 2
      BY DEF Log!Sources
    <2>2. of \subseteq Log!Blocks
      OBVIOUS
    <2> HIDE DEF of
    <2> QED
      BY <1>1, <1>2, <1>3, <2>1, <2>2 DEF ReplayInv, ReaderType, Log!TypeOK, Log!Final
  <1>6. \A b \in of : Taken(b) <=> Log!Wanted(b)
    BY DEF Taken, Log!Wanted
  <1>7. \A b \in batch..Log!BatchEnd :
          Due(b) /\ chain[b] \in Log!Sources[source] => b \in events' \cup behind' \cup dropped'
    <2> SUFFICES ASSUME NEW b \in batch..Log!BatchEnd, Due(b), chain[b] \in Log!Sources[source]
                 PROVE  b \in events' \cup behind' \cup dropped'
      OBVIOUS
    <2>1. b \in of /\ b \in Nat /\ tip \in Nat
      BY <1>3, <1>4, ReaderConstants DEF Log!Blocks
    <2>2. Log!Wanted(b) \/ (chain[b] = "exit" /\ ~idKnown)
      BY DEF Due, Log!Wanted
    <2>3. b =< tip \/ b > tip
      BY <2>1
    <2> HIDE DEF of
    <2> QED
      BY <1>1, <2>1, <2>2, <2>3
  <1>8. \A b : Asked(b)' => Asked(b) \/ chain[b] \in Log!Sources[source]
    <2>1. CASE source = 1
      BY <1>2, <2>1 DEF Asked, Log!Sources
    <2>2. CASE source = 2
      BY <1>2, <2>2 DEF Asked, Log!Sources
    <2> QED
      BY <1>3, <2>1, <2>2
  <1>9. \A b \in events' : Taken(b) /\ batch =< b /\ b =< Log!BatchEnd
    BY <1>1, <1>2, <1>6 DEF ReplayInv, InOrder
  <1>10. \A b \in batch..Log!BatchEnd :
           Due(b) /\ Asked(b)' => b \in events' \cup behind' \cup dropped'
    BY <1>1, <1>2, <1>7, <1>8 DEF ReplayInv, Accounted
  <1> QED
    BY <1>1, <1>2, <1>5, <1>9, <1>10, ReplayMoves

(* The steps between the requests, the failures and the stop.                *)
LEMMA ReaderKinds ==
  Log!Final = {"done", "interrupted"} /\ Len(Log!Sources) = 2
  BY DEF Log!Final, Log!Sources

LEMMA TickKeeps ==
  ASSUME ReplayInv, Log!Tick
  PROVE  ReplayInv'
  <1>1. /\ clock < MaxTime /\ clock' = clock + 1
        /\ UNCHANGED <<chain, idKnown, stage, batch, source, events, handled, stop, lastRequest,
                       failures, sentAt, behind, dropped>>
    BY DEF Log!Tick, Log!readerVars, Log!historyVars
  <1>2. clock \in 0..MaxTime
    BY DEF ReplayInv, ReaderType, Log!TypeOK
  <1>3. clock' \in 0..MaxTime
    BY <1>1, <1>2, ReaderConstants
  <1>4. ReaderType'
    BY <1>1, <1>3 DEF ReplayInv, ReaderType, Log!TypeOK
  <1>5. \A b : Asked(b)' = Asked(b)
    BY <1>1 DEF Asked
  <1> QED
    BY <1>1, <1>4, <1>5, ReplayMoves DEF ReplayInv, InOrder, Accounted

LEMMA RequestStopKeeps ==
  ASSUME ReplayInv, Log!RequestStop
  PROVE  ReplayInv'
  <1>1. /\ stop' = TRUE
        /\ UNCHANGED <<chain, idKnown, stage, batch, source, events, handled, clock, lastRequest,
                       failures, sentAt, behind, dropped>>
    BY DEF Log!RequestStop, Log!readerVars, Log!historyVars
  <1>2. ReaderType'
    BY <1>1 DEF ReplayInv, ReaderType, Log!TypeOK
  <1>3. \A b : Asked(b)' = Asked(b)
    BY <1>1 DEF Asked
  <1> QED
    BY <1>1, <1>2, <1>3, ReplayMoves DEF ReplayInv, InOrder, Accounted

LEMMA ConnectKeeps ==
  ASSUME ReplayInv, Log!Connect
  PROVE  ReplayInv'
  <1>1. /\ stage = "connect" /\ stage' = "throttle" /\ source' = 1 /\ events' = {}
        /\ UNCHANGED <<chain, idKnown, batch, handled, stop, clock, lastRequest,
                       failures, sentAt, behind, dropped>>
    BY DEF Log!Connect, Log!historyVars
  <1>2. ReaderType'
    BY <1>1, ReaderKinds DEF ReplayInv, ReaderType, Log!TypeOK
  <1>3. \A b : ~Asked(b)'
    BY <1>1 DEF Asked
  <1> QED
    BY <1>1, <1>2, <1>3, ReplayMoves

LEMMA SendKeeps ==
  ASSUME ReplayInv, Log!SendRequest
  PROVE  ReplayInv'
  <1>1. /\ stage = "throttle" /\ stage' = "request" /\ source =< Len(Log!Sources)
        /\ lastRequest' = clock /\ sentAt' = clock
        /\ UNCHANGED <<chain, idKnown, batch, source, events, handled, stop, clock, failures,
                       behind, dropped>>
    BY DEF Log!SendRequest, Log!RequestTime
  <1>2. source \in 1..3 /\ clock \in 0..MaxTime
    BY ReaderKinds DEF ReplayInv, ReaderType, Log!TypeOK
  <1>3. source \in 1..2 /\ clock \in 0..Log!Never
    BY <1>1, <1>2, ReaderKinds, ReaderConstants DEF Log!Never
  <1>4. ReaderType'
    BY <1>1, <1>3, ReaderKinds DEF ReplayInv, ReaderType, Log!TypeOK, Log!Never
  <1>5. \A b : Asked(b)' = Asked(b)
    BY <1>1 DEF Asked
  <1> QED
    BY <1>1, <1>4, <1>5, ReplayMoves DEF ReplayInv, InOrder, Accounted

LEMMA RequestFailsKeeps ==
  ASSUME ReplayInv, Log!RequestFails
  PROVE  ReplayInv'
  <1>1. /\ stage = "request" /\ stage' = "connect"
        /\ failures < MaxFailures /\ failures' = failures + 1
        /\ UNCHANGED <<chain, idKnown, batch, source, events, handled, stop, clock, lastRequest,
                       sentAt, behind, dropped>>
    BY DEF Log!RequestFails, Log!Fails, Log!historyVars
  <1>2. failures \in 0..MaxFailures
    BY DEF ReplayInv, ReaderType, Log!TypeOK
  <1>3. failures' \in 0..MaxFailures
    BY <1>1, <1>2, ReaderConstants
  <1>4. ReaderType'
    BY <1>1, <1>3, ReaderKinds DEF ReplayInv, ReaderType, Log!TypeOK
  <1> QED
    BY <1>1, <1>4, ReplayMoves

LEMMA FetchedKeeps ==
  ASSUME ReplayInv, Log!BatchFetched
  PROVE  ReplayInv'
  <1>1. /\ stage = "throttle" /\ source > Len(Log!Sources) /\ stage' = "emit"
        /\ UNCHANGED <<chain, idKnown, batch, source, events, handled, stop, clock, lastRequest,
                       failures, sentAt, behind, dropped>>
    BY DEF Log!BatchFetched, Log!historyVars
  <1>2. source > 1 /\ source > 2
    <2>1. source \in 1..3
      BY ReaderKinds DEF ReplayInv, ReaderType, Log!TypeOK
    <2> QED
      BY <1>1, <2>1, ReaderKinds
  <1>3. \A b : Due(b) => Asked(b)
    BY <1>2 DEF Due, Asked, Log!ModuleKinds, Log!ExitKinds
  <1>4. \A b \in batch..Log!BatchEnd : Due(b) => b \in events \cup behind \cup dropped
    BY <1>1, <1>3 DEF ReplayInv, Accounted
  <1>5. ReaderType'
    BY <1>1, ReaderKinds DEF ReplayInv, ReaderType, Log!TypeOK
  <1> QED
    BY <1>1, <1>4, <1>5, ReplayMoves

LEMMA StopNoticedKeeps ==
  ASSUME ReplayInv, Log!StopNoticed
  PROVE  ReplayInv'
  <1>1. /\ stage' = "interrupted"
        /\ UNCHANGED <<chain, idKnown, batch, source, events, handled, stop, clock, lastRequest,
                       failures, sentAt, behind, dropped>>
    BY DEF Log!StopNoticed, Log!historyVars
  <1>2. ReaderType'
    BY <1>1, ReaderKinds DEF ReplayInv, ReaderType, Log!TypeOK
  <1> QED
    BY <1>1, <1>2, ReplayMoves

LEMMA ReplayInvInit == Log!Init => ReplayInv
  <1> SUFFICES ASSUME Log!Init PROVE ReplayInv
    OBVIOUS
  <1>1. /\ chain \in [Log!Blocks -> ReadKinds] /\ idKnown \in BOOLEAN
        /\ stage = "connect" /\ batch = 1 /\ source = 1 /\ events = {} /\ handled = <<>>
        /\ stop = FALSE /\ clock = 0 /\ lastRequest = Log!Never /\ failures = 0
        /\ sentAt = Log!Never /\ behind = {} /\ dropped = {}
    BY DEF Log!Init, ReadKinds
  <1>2. /\ Log!Never \in 0..Log!Never /\ 0 \in 0..MaxTime /\ 0 \in 0..MaxFailures
        /\ 1 \in 1..EndBlock /\ 1 \in 1..(EndBlock + 1) /\ 1 \in 1..(Len(Log!Sources) + 1)
        /\ 1..(batch - 1) = {}
    BY <1>1, ReaderConstants, ReaderKinds DEF Log!Never
  <1>3. handled \in Seq(Log!Blocks) /\ Handled = {} /\ DOMAIN handled = {}
    <2>1. handled \in Seq(Log!Blocks) /\ DOMAIN handled = {}
      BY <1>1
    <2> QED
      BY <2>1 DEF Handled, Log!HandledEvents
  <1>4. ReaderType
    BY <1>1, <1>2, <1>3, ReaderKinds DEF ReaderType, Log!TypeOK
  <1>5. InOrder
    BY <1>1, <1>3 DEF InOrder, Log!HandledInChainOrder
  <1>6. Accounted
    BY <1>1, <1>2 DEF Accounted
  <1> QED
    BY <1>4, <1>5, <1>6 DEF ReplayInv

LEMMA ReplayInvStep == ReplayInv /\ [Log!Next]_(Log!vars) => ReplayInv'
  <1> SUFFICES ASSUME ReplayInv, [Log!Next]_(Log!vars) PROVE ReplayInv'
    OBVIOUS
  <1>1. CASE Log!Next
    BY <1>1, TickKeeps, RequestStopKeeps, ConnectKeeps, SendKeeps, RequestFailsKeeps,
       FetchedKeeps, StopNoticedKeeps, EmitKeeps, BatchKeeps, ServedKeeps
    DEF Log!Next, Log!Reader
  <1>2. CASE UNCHANGED Log!vars
    <2>1. UNCHANGED <<chain, idKnown, stage, batch, source, events, handled, stop, clock,
                      lastRequest, failures, sentAt, behind, dropped>>
      BY <1>2 DEF Log!vars, Log!readerVars, Log!historyVars
    <2>2. ReaderType'
      BY <2>1 DEF ReplayInv, ReaderType, Log!TypeOK
    <2>3. \A b : Asked(b)' = Asked(b)
      BY <2>1 DEF Asked
    <2> QED
      BY <2>1, <2>2, <2>3, ReplayMoves DEF ReplayInv, InOrder, Accounted
  <1> QED
    BY <1>1, <1>2

(* The invariant says what the replay promises.                              *)
LEMMA ReplayInvTells ==
  ReplayInv => Log!TypeOK /\ Log!HandledInChainOrder /\ Log!NothingMissedButExcused
  <1> SUFFICES ASSUME ReplayInv
               PROVE  Log!TypeOK /\ Log!HandledInChainOrder /\ Log!NothingMissedButExcused
    OBVIOUS
  <1>1. Log!TypeOK /\ Log!HandledInChainOrder
    BY DEF ReplayInv, ReaderType, InOrder
  <1>2. \A b \in Log!HandledEvents :
          chain[b] \in {"resumed", "other", "exit"} /\ (chain[b] = "exit" => idKnown)
    BY DEF ReplayInv, InOrder, Taken, Handled
  <1>3. \A b \in 1..(batch - 1) :
          chain[b] \in {"resumed", "other", "exit"} => b \in Log!HandledEvents \cup behind \cup dropped
    BY DEF ReplayInv, Accounted, Due, Handled
  <1> QED
    BY <1>1, <1>2, <1>3 DEF Log!NothingMissedButExcused

(* The throttle reads the time of the last request that was really sent.     *)
LEMMA RequestsKeepDistance ==
  ReplayInv /\ [Log!Next]_(Log!vars) =>
    [(stage' = "request" /\ stage # "request" /\ sentAt # Log!Never)
       => clock - sentAt >= Interval]_(Log!vars)
  <1> SUFFICES ASSUME ReplayInv, Log!Next,
                      stage' = "request", stage # "request", sentAt # Log!Never
               PROVE  clock - sentAt >= Interval
    OBVIOUS
  <1>1. Log!SendRequest
    <2>1. ~Log!Tick /\ ~Log!RequestStop
      BY DEF Log!Tick, Log!RequestStop, Log!readerVars
    <2>2. ~Log!Connect /\ ~Log!BatchFetched /\ ~Log!StopNoticed /\ ~Log!RequestFails /\ ~Log!LogsServed
      BY DEF Log!Connect, Log!BatchFetched, Log!StopNoticed, Log!RequestFails, Log!LogsServed
    <2>3. ~Log!EmitEvent /\ ~Log!BatchDone
      BY DEF Log!EmitEvent, Log!BatchDone
    <2> QED
      BY <2>1, <2>2, <2>3 DEF Log!Next, Log!Reader
  <1>2. sentAt = lastRequest
    BY DEF ReplayInv, ReaderType
  <1> QED
    BY <1>1, <1>2 DEF Log!SendRequest

(* A replay handles the events of the chain in order, misses none without an *)
(* excuse, and keeps its requests apart (web3_event_log_reader.py,           *)
(* rpc.py 200-238), for every chain, batch size and limit on requests.       *)
THEOREM ReplayHandlesTheChain == Log!Spec => ReplayIsFaithful
  <1>1. Log!Spec => []ReplayInv
    BY ReplayInvInit, ReplayInvStep, PTL DEF Log!Spec
  <1>2. Log!Spec => [](Log!TypeOK /\ Log!HandledInChainOrder /\ Log!NothingMissedButExcused)
    BY <1>1, ReplayInvTells, PTL
  <1>3. Log!Spec => Log!RequestsAreSpaced
    BY <1>1, RequestsKeepDistance, PTL DEF Log!Spec, Log!RequestsAreSpaced
  <1> QED
    BY <1>2, <1>3 DEF ReplayIsFaithful
=============================================================================
