--------------------------- MODULE FigureMessages ---------------------------
(***************************************************************************)
(* Messages that say how a figure of an operator has changed: what several *)
(* of its events become once they have been collected, in the window of a  *)
(* block or in the daily digest, over repeated and reordered events and    *)
(* restarts.  One kind of event at a time:                                 *)
(*   deposited  keys deposited, in the digest, the old figure is read      *)
(*   total      all keys, a window per operator, the old figure is read    *)
(*   weight     effective weights, one window, the event has the old one   *)
(*   curve      weights of bond curves, one window, only the new one told  *)
(*   limit      target limits, told at once, the old figure is read        *)
(* The feed brings block after block, as SubscriptionRuntime shows.        *)
(***************************************************************************)
EXTENDS Integers, Sequences, FiniteSets, Functions

CONSTANTS
  Kinds, Operators,  \* for "curve" an operator stands for a curve
  MaxBlock, MaxFigure, MaxEvents,
  MaxCrashes

FigureAssumption ==
  /\ Kinds \subseteq {"deposited", "total", "weight", "curve", "limit"}
  /\ {MaxBlock, MaxFigure, MaxEvents, MaxCrashes} \subseteq Nat

VARIABLES
  kind,
  log,         \* the events of the chain, in its order
  at, seen,    \* the block being handled, and those of its events that have come
  checkpoint,  \* bot_storage.block
  store,       \* the events in the window or in the digest
  saved,       \* what is on disk of the checkpoint and the store
  out,         \* the messages of the last step, a set for each window or digest
  told,        \* history: the last figure told of each operator, its block
  crashes

vars == <<kind, log, at, seen, checkpoint, store, saved, out, told, crashes>>

Untold == -1

Event == [block : 1..MaxBlock, op : Operators, figure : 0..MaxFigure]

Indexes(op, bs, n) == {i \in 1..n : log[i].op = op /\ log[i].block \in bs}
Latest(I) == IF I = {} THEN 0 ELSE log[CHOOSE i \in I : \A j \in I : j <= i].figure

(* The figure of an operator at the end of a block, and before an event.    *)
FigureAt(op, b) == Latest(Indexes(op, 1..b, Len(log)))
Before(i)       == Latest(Indexes(log[i].op, 1..MaxBlock, i - 1))

IsLog == /\ \A i, j \in DOMAIN log : i < j => log[i].block <= log[j].block
         /\ \A i \in DOMAIN log : log[i].figure # Before(i)

Init ==
  /\ kind \in Kinds
  /\ log \in UNION {[1..n -> Event] : n \in 0..MaxEvents} /\ IsLog
  /\ at = 1 /\ seen = {} /\ checkpoint = 0 /\ store = <<>>
  /\ saved = [checkpoint |-> 0, store |-> <<>>]
  /\ out = <<>> /\ told = [op \in Operators |-> [figure |-> 0, block |-> 0]]
  /\ crashes = 0

-----------------------------------------------------------------------------
(* What is told of a set I of events: each operator's part of it, from its  *)
(* first event to its last one, whatever the order in which they came.      *)

First(p) == CHOOSE i \in p : \A j \in p : i <= j

(* Mutant of Final: the events are taken as they came.                       *)
FinalToCome(p) == store[CHOOSE n \in DOMAIN store :
                          store[n] \in p /\ \A m \in DOMAIN store : store[m] \in p => m <= n]

Final(p) == CHOOSE i \in p : \A j \in p : j <= i

Parts(I) == {{j \in I : log[j].op = log[i].op} : i \in I}

ReadAt(p) == log[First(p)].block - 1

ReadOld(p) == FigureAt(log[First(p)].op, ReadAt(p))

Message(p, old) == [op |-> log[Final(p)].op, old |-> old, new |-> log[Final(p)].figure,
                    first |-> First(p), last |-> Final(p)]

DepositedKeys(I) == {Message(p, ReadOld(p)) : p \in Parts(I)}
TotalKeys(I)     == {Message(p, ReadOld(p)) : p \in Parts(I)}
CurveWeights(I)  == {Message(p, Untold) : p \in Parts(I)}
TargetLimit(i)   == [op |-> log[i].op, old |-> ReadOld({i}), new |-> log[i].figure,
                     first |-> i, last |-> i]

(* A weight that is back where it was is not told.                           *)
EffectiveWeights(I) ==
  {m \in {Message(p, Before(First(p))) : p \in Parts(I)} : m.old # m.new}

WindowMessages(I) == CASE kind = "total"  -> TotalKeys(I)
                       [] kind = "weight" -> EffectiveWeights(I)
                       [] kind = "curve"  -> CurveWeights(I)

(* What was last told of an operator, after the messages ms.                 *)
LastOf(ms, op, r) ==
  LET of   == {n \in DOMAIN ms : \E m \in ms[n] : m.op = op}
      last == CHOOSE n \in of : \A k \in of : k <= n
      m    == CHOOSE m \in ms[last] : m.op = op
  IN IF of = {} THEN r ELSE [figure |-> m.new, block |-> log[m.last].block]

Tell(ms) ==
  /\ out' = ms
  /\ told' = IF kind = "limit" THEN told ELSE [op \in Operators |-> LastOf(ms, op, told[op])]

-----------------------------------------------------------------------------

(* An event is stored once.                                                  *)
Stored(i) == IF i \in Range(store) THEN store ELSE Append(store, i)

(* What is stored of the blocks after b, in the order in which it came.      *)
Later(b) ==
  LET places  == {n \in DOMAIN store : log[store[n]].block > b}
      Rank(n) == Cardinality({m \in places : m < n})
  IN [k \in 1..Cardinality(places) |-> store[CHOOSE n \in places : Rank(n) = k - 1]]

OfBlock(b) == {i \in DOMAIN log : log[i].block = b}

(* An event of the block, for the first time or again.                      *)
Arrive(i) ==
  /\ i \in OfBlock(at)
  /\ seen' = seen \cup {i}
  /\ IF kind = "limit"
     THEN Tell(<<{TargetLimit(i)}>>) /\ UNCHANGED store
     ELSE Tell(<<>>) /\ store' = Stored(i)
  /\ UNCHANGED <<kind, log, at, checkpoint, saved, crashes>>

Delivered == at <= MaxBlock /\ OfBlock(at) \subseteq seen

(* Inside a replayed batch the next block follows without a marker.         *)
NextBlockOfBatch ==
  /\ Delivered /\ at < MaxBlock
  /\ at' = at + 1 /\ seen' = {}
  /\ Tell(<<>>)
  /\ UNCHANGED <<kind, log, checkpoint, store, saved, crashes>>

(* The windows end with their blocks and are told in this order.             *)
OfWindow(b) == {i \in Range(store) : log[i].block = b}
Ended == [b \in 1..at |-> WindowMessages(OfWindow(b))]

BlockCompleted ==
  /\ Delivered
  /\ checkpoint' = at /\ at' = at + 1
  /\ seen' = {}
  /\ IF kind \in {"deposited", "limit"} THEN Tell(<<>>) /\ UNCHANGED store
     ELSE Tell(Ended) /\ store' = Later(at)
  /\ UNCHANGED <<kind, log, saved, crashes>>

Ready == {i \in Range(store) : log[i].block <= checkpoint}

FlushDigest ==
  /\ kind = "deposited" /\ Ready # {}
  /\ Tell(<<DepositedKeys(Ready)>>)
  /\ store' = Later(checkpoint)
  /\ UNCHANGED <<kind, log, at, seen, checkpoint, saved, crashes>>

Save ==
  /\ saved' = [checkpoint |-> checkpoint, store |-> store]
  /\ Tell(<<>>)
  /\ UNCHANGED <<kind, log, at, seen, checkpoint, store, crashes>>

Crash ==
  /\ crashes < MaxCrashes
  /\ crashes' = crashes + 1
  /\ checkpoint' = saved.checkpoint /\ store' = saved.store
  /\ at' = saved.checkpoint + 1 /\ seen' = {}
  /\ Tell(<<>>)
  /\ UNCHANGED <<kind, log, saved>>

Next == \/ \E i \in DOMAIN log : Arrive(i)
        \/ NextBlockOfBatch \/ BlockCompleted \/ FlushDigest \/ Save \/ Crash

(* The feed goes on and the digest's job runs every day.                    *)
Spec == /\ Init /\ [][Next]_vars
        /\ WF_vars(\E i \in DOMAIN log : i \notin seen /\ Arrive(i))
        /\ WF_vars(BlockCompleted) /\ WF_vars(FlushDigest)

-----------------------------------------------------------------------------
IsStore(s) == s \in Seq(DOMAIN log) /\ IsInjective(s)

(* Types; an event is stored once.                                          *)
TypeOK ==
  /\ kind \in Kinds /\ log \in Seq(Event)
  /\ checkpoint \in 0..MaxBlock /\ at \in (checkpoint + 1)..(MaxBlock + 1)
  /\ seen \subseteq OfBlock(at)
  /\ IsStore(store) /\ saved.checkpoint \in 0..MaxBlock /\ IsStore(saved.store)
  /\ told \in [Operators -> [figure : 0..MaxFigure, block : 0..MaxBlock]]

Told == UNION Range(out)

(* The figures of a collected message are the chain's, at the end of the    *)
(* block before its first event and at the end of the block of its last     *)
(* one, however its events came and wherever the digest was cut.            *)
FiguresAreTrue ==
  kind # "limit" =>
    \A m \in Told :
      /\ m.old = IF kind = "curve" THEN Untold ELSE FigureAt(m.op, log[m.first].block - 1)
      /\ m.new = FigureAt(m.op, IF kind = "deposited" THEN checkpoint ELSE log[m.last].block)

(* A message takes up where the one before it left off, or repeats a part   *)
(* of it after a restart: no change falls between two messages.             *)
NoChangeSkipped ==
  [][\A k \in DOMAIN out' : \A m \in out'[k] :
       LET before == LastOf(SubSeq(out', 1, k - 1), m.op, told[m.op])
       IN kind \in {"deposited", "total", "weight"}
            => m.old = before.figure \/ log[m.first].block <= before.block]_vars

(* In the end everyone knows the present figure.                            *)
EventuallyTold ==
  <>[](kind # "limit" => \A op \in Operators : told[op].figure = FigureAt(op, MaxBlock))

(* texts.py: "The limit has been decreased from {limit_before} to           *)
(* {limit_after}." is said of a change that is a decrease.                  *)
DecreaseIsDecrease == \A m \in Told : kind = "limit" /\ m.old > m.new => Before(m.last) > m.new
=============================================================================
