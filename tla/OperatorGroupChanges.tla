------------------------ MODULE OperatorGroupChanges ------------------------
(***************************************************************************)
(* Operator groups of the curated module.  One block may create, update    *)
(* and clear a group several times; its events arrive in any order and     *)
(* again after a replay, are collected in the window of the block and      *)
(* reduced to one notification for each group, whose message is worked out *)
(* against the group as it was at the end of the block before.             *)
(***************************************************************************)
EXTENDS Naturals, SequencesExt

CONSTANTS Groups, Operators, Shares, Names,
          MaxEvents  \* bound: events of one block

GroupsAssumption == 0 \notin Shares /\ "" \notin Names /\ MaxEvents \in Nat

VARIABLES
  before,  \* the groups at the end of the block before
  groups,  \* the groups on chain
  events,  \* the events of the block, in the order of the log
  window,  \* the stored ones, in the order of their arrival
  phase,   \* "mining", "arriving" or "told"
  outcome  \* the notification of each group, or None

vars == <<before, groups, events, window, phase, outcome>>

None == [event |-> "none"]
Cleared == [share |-> [o \in Operators |-> 0], name |-> ""]
Members(info) == {o \in Operators : info.share[o] # 0}
Infos == {i \in [share : [Operators -> Shares \cup {0}], name : Names] : Members(i) # {}}

Init ==
  /\ groups \in [Groups -> Infos \cup {Cleared}] /\ before = groups
  /\ events = <<>> /\ window = <<>> /\ phase = "mining"
  /\ outcome = [g \in Groups |-> None]

-----------------------------------------------------------------------------
(* The registry on chain.                                                    *)

Emit(g, name, info) ==
  /\ phase = "mining" /\ Len(events) < MaxEvents
  /\ groups' = [groups EXCEPT ![g] = info]
  /\ events' = Append(events, [event |-> name, group |-> g, info |-> info])
  /\ UNCHANGED <<before, window, phase, outcome>>

Create(g) == groups[g] = Cleared /\ \E i \in Infos : Emit(g, "created", i)
Update(g) == groups[g] # Cleared /\ \E i \in Infos : Emit(g, "updated", i)
Clear(g) == groups[g] # Cleared /\ Emit(g, "cleared", Cleared)

Mined == /\ phase = "mining" /\ events # <<>> /\ phase' = "arriving"
         /\ UNCHANGED <<before, groups, events, window, outcome>>

-----------------------------------------------------------------------------
(* The window.                                                               *)

(* A log is stored once, whatever replays it.                                *)
Stored(i) == IF Contains(window, i) THEN window ELSE Append(window, i)

Arrive(i) ==
  /\ phase = "arriving" /\ i \in DOMAIN events
  /\ window' = Stored(i)
  /\ UNCHANGED <<before, groups, events, phase, outcome>>

(* The places in the block of the stored events of a group: the aggregator   *)
(* sorts them by it.                                                         *)
GroupEvents(g) == {i \in Range(window) : events[i].group = g}

Emitted(es, name) == \E i \in es : events[i].event = name

(* Mutant: a group that was cleared on the way counts as created.            *)
MutantFinalName(es) == IF Emitted(es, "created") THEN "created" ELSE "updated"

FinalName(es) ==
  IF Emitted(es, "cleared") \/ ~Emitted(es, "created") THEN "updated" ELSE "created"

(* One notification for a group, under the name of the net change and with   *)
(* the last group info.                                                      *)
Notification(g) ==
  LET es == GroupEvents(g)
      last == events[Max(es)]
  IN IF es = {} THEN None
     ELSE IF last.event = "cleared"
     THEN [event |-> "cleared", group |-> g, info |-> Cleared]
     ELSE [event |-> FinalName(es), group |-> g, info |-> last.info]

(* The window is told when its block is over and all its events are stored.  *)
Aggregate ==
  /\ phase = "arriving" /\ Range(window) = DOMAIN events
  /\ outcome' = [g \in Groups |-> Notification(g)]
  /\ phase' = "told"
  /\ UNCHANGED <<before, groups, events, window>>

NextBlock ==
  /\ phase = "told" /\ phase' = "mining"
  /\ before' = groups /\ events' = <<>> /\ window' = <<>>
  /\ outcome' = [g \in Groups |-> None]
  /\ UNCHANGED groups

Next ==
  \/ \E g \in Groups : Create(g) \/ Update(g) \/ Clear(g)
  \/ Mined
  \/ \E i \in 1..MaxEvents : Arrive(i)
  \/ Aggregate \/ NextBlock

Spec == Init /\ [][Next]_vars

-----------------------------------------------------------------------------
(* Who is told: the operators whose followers get the message.               *)

ToldCreated(n) == Members(n.info)

Changed(old, new) == {o \in Operators : old.share[o] # new.share[o]}
Renamed(old, new) == old.name # new.name

(* The operators that came, went or changed their share; all that are in the *)
(* group if it was renamed.                                                  *)
ToldUpdated(n) ==
  LET old == before[n.group]
  IN Changed(old, n.info) \cup (IF Renamed(old, n.info) THEN Members(n.info) ELSE {})

ToldCleared(n) == Members(before[n.group])

Told(n) ==
  CASE n.event = "created" -> ToldCreated(n)
    [] n.event = "updated" -> ToldUpdated(n)
    [] n.event = "cleared" -> ToldCleared(n)
    [] OTHER -> {}

-----------------------------------------------------------------------------
(* Properties.                                                               *)

(* The stored events are events of the block, each once.                     *)
TypeOK ==
  /\ phase \in {"mining", "arriving", "told"}
  /\ groups \in [Groups -> Infos \cup {Cleared}] /\ before \in [Groups -> Infos \cup {Cleared}]
  /\ IsInjective(window) /\ Range(window) \subseteq DOMAIN events
  /\ phase = "mining" => window = <<>>

(* Whatever happened to a group within a block, its followers are told of    *)
(* the net change and of nothing else: an operator that joined, left or got  *)
(* another share, every member if the group has another name, nobody if the  *)
(* block ended as it began (aggregation.py 231-286, curated/events.py        *)
(* 380-502).                                                                 *)
NetChangeIsTold == phase = "told" => \A g \in Groups :
  Told(outcome[g]) = Changed(before[g], groups[g])
    \cup (IF Renamed(before[g], groups[g]) THEN Members(groups[g]) ELSE {})

(* The message never calls a group created that its followers knew before,   *)
(* nor cleared one that is still there (aggregation.py 260-286).             *)
NameIsHonest == phase = "told" => \A g \in Groups :
  /\ outcome[g].event = "created" => before[g] = Cleared
  /\ outcome[g].event = "cleared" <=> outcome[g] # None /\ groups[g] = Cleared
=============================================================================
