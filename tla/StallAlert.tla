------------------------------- MODULE StallAlert -------------------------------
(***************************************************************************)
(* The alert to the administrators that the chain has stalled: one job     *)
(* polls the head every five minutes, another compares what was polled     *)
(* with what it saw half an hour before.  Both await, the scheduler never  *)
(* runs a job twice at a time, and the poll is answered by whichever       *)
(* endpoint is in use, which may lag behind the one before it.             *)
(***************************************************************************)
EXTENDS Naturals, FiniteSets

CONSTANTS
  Admins,      (* ADMIN_IDS                                                 *)
  MaxHead,     (* bound on the chain head                                   *)
  MaxLag,      (* how far an endpoint may be behind the chain               *)
  MaxFailures  (* bound on failed polls and failed messages                 *)

ASSUME StallAssumption ==
  /\ MaxHead \in Nat \ {0} /\ MaxLag \in Nat /\ MaxFailures \in Nat

NoAnswer == MaxHead + 1

VARIABLES
  head,       \* number of the latest block
  processed,  \* the bot's checkpoint
  answer,     \* what the poll under way was answered, NoAnswer when none is
  polled,     \* _chain_head
  checked,    \* _last_checked_chain_head
  alerted,    \* _alerted
  telling,    \* administrators the check under way has still to tell
  checking,   \* the check is inside _notify_admins
  attempted,  \* a poll came to its end since the last check began
  failures,   \* failures so far (bounded)
  seen,       \* history: head when it last advanced, highest polled since
  lagged,     \* history: a poll went back since `checked` was set
  atCheck,    \* history: the checkpoint at the last check
  told        \* history: told[a][b]: messages to a about a stall at b

pollVars    == <<answer, polled>>
checkVars   == <<checked, alerted, telling, checking>>
historyVars == <<seen, lagged, atCheck, told>>
vars == <<head, processed, pollVars, checkVars, attempted, failures, historyVars>>

Init ==
  /\ head = 1 /\ processed = 0
  /\ answer = NoAnswer /\ polled = 0
  /\ checked = 0 /\ alerted = FALSE /\ telling = {} /\ checking = FALSE
  /\ attempted = FALSE /\ failures = 0
  /\ seen = [at |-> 0, best |-> 0] /\ lagged = FALSE /\ atCheck = 0
  /\ told = [a \in Admins |-> [b \in 0..MaxHead |-> 0]]

MineBlock ==
  /\ head < MaxHead
  /\ head' = head + 1
  /\ UNCHANGED <<processed, pollVars, checkVars, attempted, failures, historyVars>>

ProcessBlock ==
  /\ processed < head
  /\ processed' = processed + 1
  /\ UNCHANGED <<head, pollVars, checkVars, attempted, failures, historyVars>>

Fails == failures < MaxFailures /\ failures' = failures + 1

(* An endpoint answers eth_blockNumber.                                     *)
PollServed ==
  /\ answer = NoAnswer
  /\ \E b \in 1..head : b + MaxLag >= head /\ answer' = b
  /\ UNCHANGED <<head, processed, polled, checkVars, attempted, failures, historyVars>>

PollStored ==
  /\ answer # NoAnswer
  /\ polled' = answer /\ answer' = NoAnswer
  /\ attempted' = TRUE
  /\ seen' = [seen EXCEPT !.best = IF answer > @ THEN answer ELSE @]
  /\ lagged' = (lagged \/ answer < polled)
  /\ UNCHANGED <<head, processed, checkVars, failures, atCheck, told>>

PollFails ==
  /\ answer = NoAnswer /\ Fails
  /\ attempted' = TRUE
  /\ UNCHANGED <<head, processed, pollVars, checkVars, historyVars>>

(* A check begins: half an hour, so at least one poll, after the last.      *)
CheckBegins ==
  /\ ~checking /\ attempted
  /\ attempted' = FALSE /\ atCheck' = processed

(* Mutant of Remembered: the block expected next is remembered.             *)
RememberedNext == polled + 1
Remembered     == polled

(* Mutant of HeadAdvanced: the alert is not armed again.                    *)
HeadAdvancedSilently ==
  /\ CheckBegins
  /\ polled # 0 /\ (checked = 0 \/ polled > checked)
  /\ checked' = Remembered
  /\ seen' = [at |-> polled, best |-> polled] /\ lagged' = FALSE
  /\ UNCHANGED <<head, processed, pollVars, alerted, telling, checking, failures, told>>

(* The head is new, or the first one.                                       *)
HeadAdvanced ==
  /\ CheckBegins
  /\ polled # 0 /\ (checked = 0 \/ polled > checked)
  /\ checked' = Remembered
  /\ alerted' = (checked = 0 /\ alerted)
  /\ seen' = [at |-> polled, best |-> polled] /\ lagged' = FALSE
  /\ UNCHANGED <<head, processed, pollVars, telling, checking, failures, told>>

(* Nothing polled yet, or a stall that was told already.                    *)
NothingToTell ==
  /\ CheckBegins
  /\ polled = 0 \/ (checked # 0 /\ polled =< checked /\ alerted)
  /\ UNCHANGED <<head, processed, pollVars, checkVars, failures, seen, lagged, told>>

StallFound ==
  /\ CheckBegins
  /\ polled # 0 /\ checked # 0 /\ polled =< checked /\ ~alerted
  /\ checking' = TRUE /\ telling' = Admins
  /\ UNCHANGED <<head, processed, pollVars, checked, alerted, failures, seen, lagged, told>>

AdminTold(a) ==
  /\ a \in telling
  /\ telling' = telling \ {a}
  /\ told' = [told EXCEPT ![a][checked] = @ + 1]
  /\ UNCHANGED <<head, processed, pollVars, checked, alerted, checking, attempted,
                 failures, seen, lagged, atCheck>>

(* One administrator cannot be reached: the others are told.                *)
AdminNotTold(a) ==
  /\ a \in telling /\ Fails
  /\ telling' = telling \ {a}
  /\ UNCHANGED <<head, processed, pollVars, checked, alerted, checking, attempted,
                 historyVars>>

(* Mutant of StallTold: the alert is not remembered.                        *)
StallForgotten ==
  /\ checking /\ telling = {}
  /\ checking' = FALSE
  /\ UNCHANGED <<head, processed, pollVars, checked, alerted, telling, attempted,
                 failures, historyVars>>

StallTold ==
  /\ checking /\ telling = {}
  /\ checking' = FALSE /\ alerted' = TRUE
  /\ UNCHANGED <<head, processed, pollVars, checked, telling, attempted, failures,
                 historyVars>>

Check ==
  \/ HeadAdvanced \/ NothingToTell \/ StallFound \/ StallTold
  \/ \E a \in Admins : AdminTold(a)

Poll == PollServed \/ PollStored

Next ==
  \/ MineBlock \/ ProcessBlock \/ Poll \/ PollFails \/ Check
  \/ \E a \in Admins : AdminNotTold(a)

Spec == Init /\ [][Next]_vars

(* The scheduler runs both jobs for ever.                                   *)
FairSpec == Spec /\ WF_vars(Poll) /\ WF_vars(Check)

(***************************************************************************)
(* Properties.                                                             *)
(***************************************************************************)
(* Types of the two jobs' state.                                            *)
TypeOK ==
  /\ head \in 1..MaxHead /\ processed \in 0..MaxHead
  /\ answer \in 1..NoAnswer /\ polled \in 0..MaxHead /\ checked \in 0..MaxHead
  /\ alerted \in BOOLEAN /\ checking \in BOOLEAN /\ attempted \in BOOLEAN
  /\ telling \in SUBSET Admins /\ failures \in 0..MaxFailures
  /\ seen \in [at : 0..MaxHead, best : 0..MaxHead] /\ lagged \in BOOLEAN /\ atCheck \in 0..MaxHead
  /\ told \in [Admins -> [0..MaxHead -> Nat]]

(* An alert begins only if no poll since the head last advanced had seen a   *)
(* newer one, except where an endpoint that lags answered the last poll      *)
(* (callback_block_processing_check compares the last poll only).            *)
NoFalseAlert == [][StallFound => seen.best = seen.at \/ lagged]_vars

(* An administrator hears at most once of a stall, however many checks,      *)
(* polls and lost messages it lasts for (the _alerted flag).                 *)
ToldOncePerStall == \A a \in Admins, b \in 0..MaxHead : told[a][b] =< 1

(* A head that never advances again is told to every administrator who can  *)
(* be reached, even when an earlier stall was told before it.                *)
LastStallIsTold ==
  <>[](polled = MaxHead /\ failures = 0) => <>(\A a \in Admins : told[a][MaxHead] > 0)

(* What the message says, "No new blocks processed in the last {minutes}     *)
(* minutes": a check with no block processed since the last one alerts.      *)
StalledProcessingAlerts ==
  [][(CheckBegins /\ processed = atCheck /\ checked # 0) => alerted \/ checking']_vars
=============================================================================
