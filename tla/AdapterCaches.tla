--------------------------- MODULE AdapterCaches ---------------------------
(***************************************************************************)
(* What the module adapter remembers of the chain: the number of node      *)
(* operators and their labels.  Handlers of chats read them, and fetch     *)
(* what is missing under the lease of the chain; events of the             *)
(* subscription overwrite them at any moment in between.  Events arrive in *)
(* the order of the chain, late, and again when a reconnection replays     *)
(* blocks.                                                                 *)
(***************************************************************************)
EXTENDS Naturals, Sequences

CONSTANTS
  Readers,       \* tasks that read the caches
  Names,
  None,
  MaxOperators, MaxEvents, MaxReplays  \* bounds of the instance

CachesAssumption ==
  /\ MaxOperators \in Nat \ {0} /\ MaxEvents \in Nat /\ MaxReplays \in Nat
  /\ Names # {} /\ None \notin Names \cup Nat

OperatorIds == 0..(MaxOperators - 1)

VARIABLES
  count,     \* on chain: the number of operators
  name,      \* on chain: the name of each
  log,       \* their events
  position,  \* events of the log the subscription has delivered
  replays,
  countCache, labelCache,
  reader,    \* [at, value, todo, next] of each reader
  countRaced, \* history: an answer has overwritten the larger count of an event
  labelRaced  \* history: an answer has overwritten the other label of an event

chain == <<count, name, log>>
caches == <<countCache, labelCache>>
raced == <<countRaced, labelRaced>>
vars == <<chain, position, replays, caches, reader, raced>>

Idle == [at |-> "idle", value |-> None, todo |-> {}, next |-> "idle"]
Asking == {"askedCount", "gotCount", "askedLabel", "gotLabel"}

Init ==
  /\ count = 1 /\ name = [o \in OperatorIds |-> CHOOSE n \in Names : TRUE] /\ log = <<>>
  /\ position = 0 /\ replays = 0
  /\ countCache = None /\ labelCache = [o \in OperatorIds |-> None]
  /\ reader = [r \in Readers |-> Idle]
  /\ countRaced = FALSE /\ labelRaced = [o \in OperatorIds |-> FALSE]

-----------------------------------------------------------------------------
(* The chain.                                                                *)

Emit(event) == /\ Len(log) < MaxEvents /\ log' = Append(log, event)
               /\ UNCHANGED <<position, replays, caches, reader, raced>>

AddOperator ==
  /\ count < MaxOperators /\ count' = count + 1
  /\ Emit([event |-> "NodeOperatorAdded", operator |-> count, name |-> None])
  /\ UNCHANGED name

SetMetadata(o, n) ==
  /\ o < count /\ n # name[o] /\ name' = [name EXCEPT ![o] = n]
  /\ Emit([event |-> "OperatorMetadataSet", operator |-> o, name |-> n])
  /\ UNCHANGED count

-----------------------------------------------------------------------------
(* Side effects of the events.                                               *)

(* Mutant: an id is taken for a number of operators.                         *)
MutantRememberAdded(o) ==
  countCache' = IF countCache # None /\ countCache > o THEN countCache ELSE o

RememberAdded(o) ==
  countCache' = IF countCache # None /\ countCache > o THEN countCache ELSE o + 1

RememberLabel(o, n) == labelCache' = [labelCache EXCEPT ![o] = n]

ProcessEvent ==
  /\ position < Len(log) /\ position' = position + 1
  /\ LET e == log[position + 1]
     IN \/ /\ e.event = "NodeOperatorAdded"
           /\ RememberAdded(e.operator) /\ UNCHANGED labelCache
        \/ /\ e.event = "OperatorMetadataSet"
           /\ RememberLabel(e.operator, e.name) /\ UNCHANGED countCache
  /\ UNCHANGED <<chain, replays, reader, raced>>

(* A reconnection resumes from an earlier block; the adapter stays.          *)
Replay == /\ replays < MaxReplays /\ replays' = replays + 1
          /\ position' \in 0..position
          /\ UNCHANGED <<chain, caches, reader, raced>>

-----------------------------------------------------------------------------
(* Readers.  Every read of the chain is made under its lease, which one      *)
(* reader holds at a time.                                                   *)

Go(r, at, value, todo, next) ==
  reader' = [reader EXCEPT ![r] = [at |-> at, value |-> value, todo |-> todo, next |-> next]]
Finish(r) == Go(r, "idle", None, {}, "idle")
Free == \A r \in Readers : reader[r].at \notin Asking
Uncached(todo, labels) == {o \in todo : labels[o] = None}

(* With the count at hand: the labels that are missing, if any are wanted.   *)
WithCount(r, n, next) ==
  LET missing == Uncached(0..(n - 1), labelCache)
  IN IF next = "options" /\ missing # {} THEN Go(r, "wantsLabels", None, missing, "idle")
     ELSE Finish(r)

(* is_valid_operator_id, and the first step of node_operator_options.        *)
ReadCount(r, next) ==
  /\ reader[r].at = "idle"
  /\ IF countCache = None THEN Go(r, "wantsCount", None, {}, next)
     ELSE WithCount(r, countCache, next)
  /\ UNCHANGED <<chain, position, replays, caches, raced>>

NodeOperatorLabel(r, o) ==
  /\ reader[r].at = "idle" /\ o < count /\ labelCache[o] = None
  /\ Go(r, "wantsLabels", None, {o}, "idle")
  /\ UNCHANGED <<chain, position, replays, caches, raced>>

AskCount(r) ==
  /\ reader[r].at = "wantsCount" /\ Free
  /\ Go(r, "askedCount", None, {}, reader[r].next)
  /\ UNCHANGED <<chain, position, replays, caches, raced>>

ServeCount(r) ==
  /\ reader[r].at = "askedCount"
  /\ Go(r, "gotCount", count, {}, reader[r].next)
  /\ UNCHANGED <<chain, position, replays, caches, raced>>

(* The answer is stored, whatever an event has stored meanwhile.             *)
StoreCount(r) ==
  /\ reader[r].at = "gotCount"
  /\ countCache' = reader[r].value
  /\ countRaced' = (countRaced \/ (countCache # None /\ countCache > reader[r].value))
  /\ WithCount(r, reader[r].value, reader[r].next)
  /\ UNCHANGED <<chain, position, replays, labelCache, labelRaced>>

CountFails(r) ==
  /\ reader[r].at \in {"askedCount", "gotCount"}
  /\ Finish(r)
  /\ UNCHANGED <<chain, position, replays, caches, raced>>

(* The next label is asked for, unless an event has brought it meanwhile.    *)
AskNext(r, todo) ==
  LET left == Uncached(todo, labelCache')
  IN IF left = {} THEN Finish(r) ELSE Go(r, "askedLabel", None, left, "idle")
Asked(r) == CHOOSE o \in reader[r].todo : \A p \in reader[r].todo : o <= p

AskLabels(r) ==
  /\ reader[r].at = "wantsLabels" /\ Free
  /\ UNCHANGED <<chain, position, replays, caches, raced>>
  /\ AskNext(r, reader[r].todo)

ServeLabel(r) ==
  /\ reader[r].at = "askedLabel"
  /\ Go(r, "gotLabel", name[Asked(r)], reader[r].todo, "idle")
  /\ UNCHANGED <<chain, position, replays, caches, raced>>

(* It is stored likewise.                                                    *)
StoreLabel(r) ==
  /\ reader[r].at = "gotLabel"
  /\ labelCache' = [labelCache EXCEPT ![Asked(r)] = reader[r].value]
  /\ labelRaced' = [labelRaced EXCEPT ![Asked(r)] =
       @ \/ labelCache[Asked(r)] \notin {None, reader[r].value}]
  /\ AskNext(r, reader[r].todo \ {Asked(r)})
  /\ UNCHANGED <<chain, position, replays, countCache, countRaced>>

LabelFails(r) ==
  /\ reader[r].at \in {"askedLabel", "gotLabel"}
  /\ UNCHANGED <<chain, position, replays, caches, raced>>
  /\ AskNext(r, reader[r].todo \ {Asked(r)})

-----------------------------------------------------------------------------
Read(r) ==
  \/ \E next \in {"idle", "options"} : ReadCount(r, next)
  \/ \E o \in OperatorIds : NodeOperatorLabel(r, o)
  \/ AskCount(r) \/ ServeCount(r) \/ StoreCount(r) \/ CountFails(r)
  \/ AskLabels(r) \/ ServeLabel(r) \/ StoreLabel(r) \/ LabelFails(r)

Next ==
  \/ AddOperator
  \/ \E o \in OperatorIds, n \in Names : SetMetadata(o, n)
  \/ ProcessEvent \/ Replay
  \/ \E r \in Readers : Read(r)

Spec == Init /\ [][Next]_vars

-----------------------------------------------------------------------------
(* Properties.                                                               *)

(* A label that could not be fetched is not remembered, and one task at a    *)
(* time asks the chain.                                                      *)
TypeOK ==
  /\ count \in 1..MaxOperators /\ position \in 0..Len(log) /\ replays \in 0..MaxReplays
  /\ countCache \in {None} \cup 1..count
  /\ labelCache \in [OperatorIds -> Names \cup {None}]
  /\ \A r, s \in Readers : reader[r].at \in Asking /\ reader[s].at \in Asking => r = s

(* Every operator whose NodeOperatorAdded was handled can be followed and is *)
(* among the options (base.py 86-92, 124-129).                               *)
HandledOperatorCounts ==
  \A i \in 1..position : log[i].event = "NodeOperatorAdded" => countCache > log[i].operator

(* Once the subscription is up to date, a label is the name on chain         *)
(* (curated/adapter.py 234-258).                                             *)
LabelsFollow(o) == position = Len(log) => labelCache[o] \in {None, name[o]}
HandledLabelShows == \A o \in OperatorIds : LabelsFollow(o)

(* The count loses an operator in one way only, whatever is replayed or      *)
(* fails: a read of the chain that was under way when its event was handled. *)
(* A label is out of date for the same reason only.                          *)
CountLostOnlyByRace == countRaced \/ HandledOperatorCounts
LabelLostOnlyByRace == \A o \in OperatorIds : labelRaced[o] \/ LabelsFollow(o)
=============================================================================
