------------------------------- MODULE LogReader -------------------------------
(***************************************************************************)
(* The historical log reader inside a replay: for each batch of blocks one *)
(* eth_getLogs request per event source, spaced in time, given up as soon  *)
(* as the subscription is stopped; then the events of the batch, sorted,   *)
(* one by one through their side effects and consumers.                    *)
(*                                                                         *)
(* A block holds at most one log, so a block number stands for its log.    *)
(* Two sources tell the kinds apart: the module's contract, all of whose   *)
(* known events are wanted, and the exit bus, whose exit requests are      *)
(* wanted if they name this module, whose id may still be unknown.  The    *)
(* other sources of the adapters are like the first.                       *)
(***************************************************************************)
EXTENDS Naturals, Sequences, FiniteSets

CONSTANTS
  EndBlock,    (* last block of the replay                                  *)
  BatchSize,   (* BLOCK_BATCH_SIZE                                          *)
  Interval,    (* time between requests, from the requests-per-second limit *)
  MaxLag,      (* how far the endpoint that serves the replay may be behind *)
  MaxFailures, (* bound on failing requests                                 *)
  MaxTime      (* bound on the clock                                        *)

ReaderAssumption ==
  /\ EndBlock \in Nat \ {0} /\ BatchSize \in Nat \ {0}
  /\ Interval \in Nat /\ MaxLag \in Nat /\ MaxFailures \in Nat /\ MaxTime \in Nat

Blocks == 1..EndBlock
Never  == MaxTime + 1

ModuleKinds == {"resumed", "other", "unknown"}   \* "unknown": not in the ABI
ExitKinds   == {"exit", "foreign"}               \* "foreign": of another module
Sources     == <<ModuleKinds, ExitKinds>>

VARIABLES
  chain,      \* kind of the log of each block, or "none"
  idKnown,    \* adapter._staking_module_id is discovered
  stage,      \* where the replay is
  next,       \* first block of the current batch
  source,     \* source whose logs are requested next
  events,     \* events collected for the batch
  handled,    \* events handled, in order
  stop,       \* the subscription's shutdown event
  clock,
  lastRequest, \* _last_request_ts
  failures,
  sentAt,     \* history: when the last request was really sent
  behind,     \* history: logs the serving endpoint did not have yet
  dropped     \* history: exit requests dropped before the id was known

readerVars  == <<stage, next, source, events>>
historyVars == <<sentAt, behind, dropped>>
vars == <<chain, idKnown, readerVars, handled, stop, clock, lastRequest, failures,
          historyVars>>

Final == {"done", "interrupted"}

Init ==
  /\ chain \in [Blocks -> {"resumed", "other", "unknown", "exit", "foreign", "none"}]
  /\ idKnown \in BOOLEAN
  /\ stage = "connect" /\ next = 1 /\ source = 1 /\ events = {}
  /\ handled = <<>>
  /\ stop = FALSE /\ clock = 0 /\ lastRequest = Never /\ failures = 0
  /\ sentAt = Never /\ behind = {} /\ dropped = {}

(* _block_ranges, and the batches of _replay_blocks.                        *)
BatchEnd == IF next + BatchSize - 1 > EndBlock THEN EndBlock ELSE next + BatchSize - 1

Fails == failures < MaxFailures /\ failures' = failures + 1

Tick ==
  /\ clock < MaxTime /\ stage \notin Final
  /\ clock' = clock + 1
  /\ UNCHANGED <<chain, idKnown, readerVars, handled, stop, lastRequest, failures,
                 historyVars>>

RequestStop ==
  /\ ~stop /\ stage \notin Final
  /\ stop' = TRUE
  /\ UNCHANGED <<chain, idKnown, readerVars, handled, clock, lastRequest, failures,
                 historyVars>>

(* connected_w3: the provider is connected, if need be.                     *)
Connect ==
  /\ stage = "connect" /\ ~stop
  /\ stage' = "throttle" /\ source' = 1 /\ events' = {}
  /\ UNCHANGED <<chain, idKnown, next, handled, stop, clock, lastRequest, failures,
                 historyVars>>

RequestTime        == clock

(* throttle lets the request for the next source pass.                      *)
SendRequest ==
  /\ stage = "throttle" /\ ~stop /\ source =< Len(Sources)
  /\ lastRequest = Never \/ clock - lastRequest >= Interval
  /\ lastRequest' = RequestTime /\ sentAt' = clock
  /\ stage' = "request"
  /\ UNCHANGED <<chain, idKnown, next, source, events, handled, stop, clock, failures,
                 behind, dropped>>

(* The ABI, and the predicate of the source as it stands now.               *)
Wanted(b) == chain[b] \in {"resumed", "other"} \/ (chain[b] = "exit" /\ idKnown)

(* The logs of the batch, as far as the endpoint has them.                  *)
LogsServed ==
  /\ stage = "request" /\ ~stop
  /\ \E tip \in {b \in 0..EndBlock : b + MaxLag >= EndBlock} :
       LET logs == {b \in Blocks : b >= next /\ b =< BatchEnd /\ chain[b] \in Sources[source]} IN
       /\ events' = events \cup {b \in logs : b =< tip /\ Wanted(b)}
       /\ behind' = behind \cup {b \in logs : b > tip}
       /\ dropped' = dropped \cup {b \in logs : chain[b] = "exit" /\ ~idKnown}
  /\ source' = source + 1 /\ stage' = "throttle"
  /\ UNCHANGED <<chain, idKnown, next, handled, stop, clock, lastRequest, failures, sentAt>>

(* The caller starts again behind the last complete batch.                  *)
RequestFails ==
  /\ stage = "request" /\ ~stop /\ Fails
  /\ stage' = "connect"
  /\ UNCHANGED <<chain, idKnown, next, source, events, handled, stop, clock, lastRequest,
                 historyVars>>

(* Mutant of BatchFetched: a batch is emitted after each source.            *)
BatchFetchedEarly ==
  /\ stage = "throttle" /\ source > 1 /\ ~stop
  /\ stage' = "emit"
  /\ UNCHANGED <<chain, idKnown, next, source, events, handled, stop, clock, lastRequest,
                 failures, historyVars>>

BatchFetched ==
  /\ stage = "throttle" /\ source > Len(Sources) /\ ~stop
  /\ stage' = "emit"
  /\ UNCHANGED <<chain, idKnown, next, source, events, handled, stop, clock, lastRequest,
                 failures, historyVars>>

FirstEvent == {b \in events : \A c \in events : b =< c}

(* The module id is read when the module is resumed, unless that fails.     *)
Refresh(b) ==
  IF chain[b] = "resumed" /\ ~idKnown
  THEN \/ idKnown' = TRUE /\ UNCHANGED failures
       \/ idKnown' = FALSE /\ Fails
  ELSE UNCHANGED <<idKnown, failures>>

EmitEvent ==
  /\ stage = "emit" /\ ~stop
  /\ \E b \in FirstEvent :
       /\ events' = events \ {b}
       /\ handled' = Append(handled, b)
       /\ Refresh(b)
  /\ UNCHANGED <<chain, stage, next, source, stop, clock, lastRequest, historyVars>>

BatchDone ==
  /\ stage = "emit" /\ ~stop /\ events = {}
  /\ next' = BatchEnd + 1
  /\ stage' = IF next' > EndBlock THEN "done" ELSE "connect"
  /\ UNCHANGED <<chain, idKnown, source, events, handled, stop, clock, lastRequest,
                 failures, historyVars>>

(* Mutant of Interruptible: a request that hangs is waited for.             *)
InterruptibleUnlessRequest == {"connect", "throttle", "emit"}
Interruptible              == {"connect", "throttle", "request", "emit"}

(* Before a request, during its sleep or its answer, or after an event.     *)
StopNoticed ==
  /\ stop /\ stage \in Interruptible
  /\ stage' = "interrupted"
  /\ UNCHANGED <<chain, idKnown, next, source, events, handled, stop, clock, lastRequest,
                 failures, historyVars>>

Reader == Connect \/ SendRequest \/ BatchFetched \/ EmitEvent \/ BatchDone \/ StopNoticed

Next == Reader \/ LogsServed \/ RequestFails \/ RequestStop \/ Tick

Spec == Init /\ [][Next]_vars

(* The reader's task runs; an endpoint need not answer.                     *)
FairSpec == Spec /\ WF_vars(Reader)

(***************************************************************************)
(* Properties.                                                             *)
(***************************************************************************)
(* Types of the reader and the replay.                                      *)
TypeOK ==
  /\ idKnown \in BOOLEAN /\ stop \in BOOLEAN
  /\ stage \in {"connect", "throttle", "request", "emit"} \cup Final
  /\ next \in 1..(EndBlock + 1) /\ source \in 1..(Len(Sources) + 1)
  /\ events \subseteq Blocks /\ handled \in Seq(Blocks)
  /\ clock \in 0..MaxTime /\ lastRequest \in 0..Never /\ sentAt \in 0..Never
  /\ failures \in 0..MaxFailures
  /\ behind \subseteq Blocks /\ dropped \subseteq Blocks

HandledEvents == {handled[i] : i \in DOMAIN handled}

(* The order of the chain, across sources, batches and retries: later        *)
(* events of an operator must not be told before earlier ones.              *)
HandledInChainOrder ==
  \A i, j \in DOMAIN handled : i < j => handled[i] < handled[j]

(* A batch that counts as processed has handled what is wanted of it and     *)
(* nothing else, but for logs that the endpoint did not have and exit        *)
(* requests fetched before the id of the module was known.                  *)
NothingMissedButExcused ==
  /\ \A b \in HandledEvents :
       chain[b] \in {"resumed", "other", "exit"} /\ (chain[b] = "exit" => idKnown)
  /\ \A b \in 1..(next - 1) :
       chain[b] \in {"resumed", "other", "exit"} =>
         b \in HandledEvents \cup behind \cup dropped

(* Two requests are never closer than the configured rate allows, whatever   *)
(* the sleep between them did, through batches and retries.                  *)
RequestsAreSpaced ==
  [][(stage' = "request" /\ stage # "request" /\ sentAt # Never)
       => clock - sentAt >= Interval]_vars

(* A stop ends the replay even if an endpoint never answers its request      *)
(* (_run_or_stop, _sleep).                                                  *)
StopEndsReplay == []<>(stop => stage \in Final)

(* What a test of the adapter expects: once the module is resumed and its id *)
(* is discovered, its exit requests match.  The reader applies the predicate *)
(* to a whole batch before the first event of it is handled.                *)
ExitAfterResumedIsHandled ==
  (stage = "done" /\ failures = 0) =>
    \A r, b \in Blocks :
      (r < b /\ chain[r] = "resumed" /\ chain[b] = "exit" /\ r \in HandledEvents)
        => b \in HandledEvents \cup behind
=============================================================================
