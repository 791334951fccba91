-------------------------- MODULE StallAlert_proofs --------------------------
(* That an administrator hears of a stall at most once and never of one that *)
(* the polls contradict, for any administrators, blocks and failures.        *)
EXTENDS StallAlert, TLAPS

-----------------------------------------------------------------------------
(* Types.  The flags are kept apart: they suit another prover.               *)
Flags == /\ alerted \in BOOLEAN /\ checking \in BOOLEAN /\ attempted \in BOOLEAN
         /\ lagged \in BOOLEAN

Data ==
  /\ head \in 1..MaxHead /\ processed \in 0..MaxHead
  /\ answer \in 1..NoAnswer /\ polled \in 0..MaxHead /\ checked \in 0..MaxHead
  /\ telling \in SUBSET Admins /\ failures \in 0..MaxFailures
  /\ seen \in [at : 0..MaxHead, best : 0..MaxHead] /\ atCheck \in 0..MaxHead
  /\ told \in [Admins -> [0..MaxHead -> Nat]]

LEMMA InitType == Init => Flags /\ Data
  <1>1. Init => Flags
    BY DEF Init, Flags
  <1>2. Init => Data
    BY StallAssumption DEF Init, Data, NoAnswer
  <1> QED
    BY <1>1, <1>2

LEMMA FlagsStep == Flags /\ [Next]_vars => Flags'
  BY Zenon
  DEF Flags, Next, Poll, Check, MineBlock, ProcessBlock, PollServed, PollStored, PollFails,
      Fails, CheckBegins, HeadAdvanced, NothingToTell, StallFound, StallTold, AdminTold,
      AdminNotTold, vars, pollVars, checkVars, historyVars

LEMMA DataStep == Data /\ [Next]_vars => Data'
  <1> SUFFICES ASSUME Data, [Next]_vars
               PROVE  Data'
    OBVIOUS
  <1> USE StallAssumption DEF Data, NoAnswer, pollVars, checkVars, historyVars
  <1>0. CASE MineBlock
    BY <1>0 DEF MineBlock
  <1>1. CASE ProcessBlock
    BY <1>1 DEF ProcessBlock
  <1>2. CASE PollServed
    BY <1>2 DEF PollServed
  <1>3. CASE PollStored
    BY <1>3 DEF PollStored
  <1>4. CASE PollFails
    BY <1>4 DEF PollFails, Fails
  <1>5. CASE HeadAdvanced
    BY <1>5 DEF HeadAdvanced, CheckBegins, Remembered
  <1>6. CASE NothingToTell \/ StallFound
    BY <1>6 DEF NothingToTell, StallFound, CheckBegins
  <1>7. ASSUME NEW a \in Admins, AdminTold(a)
        PROVE  Data'
    <2>1. told' \in [Admins -> [0..MaxHead -> Nat]]
      BY <1>7 DEF AdminTold
    <2> QED
      BY <1>7, <2>1 DEF AdminTold
  <1>8. ASSUME NEW a \in Admins, AdminNotTold(a)
        PROVE  Data'
    BY <1>8 DEF AdminNotTold, Fails
  <1>9. CASE StallTold
    BY <1>9 DEF StallTold
  <1>10. CASE UNCHANGED vars
    BY <1>10 DEF vars
  <1> QED
    BY <1>0, <1>1, <1>2, <1>3, <1>4, <1>5, <1>6, <1>7, <1>8, <1>9, <1>10 DEF Next, Poll, Check

(* The types of the two jobs' state are kept by every step.                  *)
THEOREM TypeCorrect == Spec => []TypeOK
  <1>1. TypeOK <=> Flags /\ Data
    BY DEF TypeOK, Flags, Data
  <1> QED
    BY <1>1, InitType, FlagsStep, DataStep, PTL DEF Spec

-----------------------------------------------------------------------------
(* Once per stall.  Nothing was said of a head beyond the one remembered;    *)
(* nothing of the one remembered while no alert is noted or under way; and   *)
(* during an alert, nothing to those who are still to be told.               *)
Untold(a, b) == told[a][b] = 0

Silence ==
  /\ \A a \in Admins, b \in 0..MaxHead : told[a][b] =< 1
  /\ \A a \in Admins, b \in 0..MaxHead : b > checked => Untold(a, b)
  /\ ~checking /\ ~alerted => \A a \in Admins : Untold(a, checked)
  /\ \A a \in telling : Untold(a, checked)
  /\ ~checking => telling = {}

LEMMA SilenceInit == Init => Silence
  BY StallAssumption DEF Init, Silence, Untold

LEMMA SilenceStep == Data /\ Flags /\ Silence /\ [Next]_vars => Silence'
  <1> SUFFICES ASSUME Data, Flags, Silence, [Next]_vars
               PROVE  Silence'
    OBVIOUS
  <1> USE StallAssumption DEF Silence, Untold, pollVars, checkVars, historyVars
  <1>1. CASE MineBlock \/ ProcessBlock \/ PollServed \/ PollStored \/ PollFails
    BY <1>1 DEF MineBlock, ProcessBlock, PollServed, PollStored, PollFails
  <1>2. CASE HeadAdvanced
    <2>1. checked' \in 0..MaxHead /\ checked' > checked
      BY <1>2 DEF HeadAdvanced, CheckBegins, Remembered, Data
    <2>2. UNCHANGED <<told, telling, checking>> /\ ~checking
      BY <1>2, Zenon DEF HeadAdvanced, CheckBegins
    <2>3. checked \in 0..MaxHead
      BY DEF Data
    <2>4. \A a \in Admins, b \in 0..MaxHead : b > checked' \/ b = checked' => told'[a][b] = 0
      BY <2>1, <2>2, <2>3
    <2> QED
      BY <2>1, <2>2, <2>4
  <1>3. CASE NothingToTell \/ UNCHANGED vars
    BY <1>3 DEF NothingToTell, vars
  <1>4. CASE StallFound
    <2>1. ~checking /\ ~alerted /\ checking' /\ telling' = Admins /\ UNCHANGED <<told, checked>>
      BY <1>4, Zenon DEF StallFound, CheckBegins
    <2> QED
      BY <2>1
  <1>5. ASSUME NEW a \in Admins, AdminTold(a)
        PROVE  Silence'
    <2>1. a \in telling /\ told[a][checked] = 0 /\ checking
      BY <1>5 DEF AdminTold
    <2>2. checked \in 0..MaxHead /\ told \in [Admins -> [0..MaxHead -> Nat]]
      BY DEF Data
    <2>3. told'[a][checked] = 1
      BY <1>5, <2>1, <2>2 DEF AdminTold
    <2>4. \A c \in Admins, b \in 0..MaxHead : c # a \/ b # checked => told'[c][b] = told[c][b]
      BY <1>5, <2>2 DEF AdminTold
    <2>5. telling' = telling \ {a} /\ UNCHANGED <<checked, checking, alerted>>
      BY <1>5 DEF AdminTold
    <2>6. telling \subseteq Admins
      BY DEF Data
    <2>7. ASSUME NEW c \in Admins, NEW b \in 0..MaxHead
          PROVE  told'[c][b] =< 1 /\ (b > checked' => told'[c][b] = 0)
      <3>1. CASE c = a /\ b = checked
        BY <3>1, <2>2, <2>3, <2>5
      <3>2. CASE c # a \/ b # checked
        BY <3>2, <2>2, <2>4, <2>5
      <3> QED
        BY <3>1, <3>2
    <2>8. \A c \in telling' : told'[c][checked'] = 0
      BY <2>2, <2>4, <2>5, <2>6
    <2>9. checking'
      BY <2>1, <2>5
    <2> QED
      BY <2>7, <2>8, <2>9
  <1>6. ASSUME NEW a \in Admins, AdminNotTold(a)
        PROVE  Silence'
    BY <1>6 DEF AdminNotTold
  <1>7. CASE StallTold
    BY <1>7 DEF StallTold
  <1> QED
    BY <1>1, <1>2, <1>3, <1>4, <1>5, <1>6, <1>7 DEF Next, Poll, Check

(* However many checks, polls and lost messages a stall lasts for, it is     *)
(* told to each administrator at most once (the _alerted flag).              *)
THEOREM OncePerStall == Spec => []ToldOncePerStall
  <1>1. Silence => ToldOncePerStall
    BY DEF Silence, ToldOncePerStall
  <1> QED
    BY <1>1, InitType, SilenceInit, FlagsStep, DataStep, SilenceStep, PTL DEF Spec

-----------------------------------------------------------------------------
(* No false alert.  The last poll is the highest since the head was          *)
(* remembered unless one went back.                                          *)
Watched ==
  /\ seen.at = checked /\ seen.best >= seen.at
  /\ lagged \/ polled = seen.best

LEMMA WatchedInit == Init => Watched
  BY DEF Init, Watched

LEMMA WatchedStep == Data /\ Flags /\ Watched /\ [Next]_vars => Watched'
  <1> SUFFICES ASSUME Data, Flags, Watched, [Next]_vars
               PROVE  Watched'
    OBVIOUS
  <1> USE DEF Watched, pollVars, checkVars, historyVars
  <1>1. CASE MineBlock \/ ProcessBlock \/ PollServed \/ PollFails
    BY <1>1 DEF MineBlock, ProcessBlock, PollServed, PollFails
  <1>2. CASE PollStored
    <2>1. ~lagged' => ~lagged /\ answer >= polled
      <3>1. ~lagged' => ~lagged /\ ~(answer < polled)
        BY <1>2, Zenon DEF PollStored, Flags
      <3> QED
        BY <3>1, StallAssumption DEF Data, NoAnswer
    <2>2. polled' = answer /\ checked' = checked
      BY <1>2 DEF PollStored
    <2>3. seen'.at = seen.at /\ seen'.best = IF answer > seen.best THEN answer ELSE seen.best
      BY <1>2 DEF PollStored, Data
    <2>4. answer \in Nat /\ seen.best \in Nat /\ seen.at \in Nat /\ polled \in Nat
      BY StallAssumption DEF Data, NoAnswer
    <2> QED
      BY <2>1, <2>2, <2>3, <2>4
  <1>3. CASE HeadAdvanced
    BY <1>3 DEF HeadAdvanced, Remembered, Data
  <1>4. CASE NothingToTell \/ StallFound \/ StallTold \/ UNCHANGED vars
    BY <1>4 DEF NothingToTell, StallFound, StallTold, vars
  <1>5. ASSUME NEW a \in Admins, AdminTold(a) \/ AdminNotTold(a)
        PROVE  Watched'
    BY <1>5 DEF AdminTold, AdminNotTold
  <1> QED
    BY <1>1, <1>2, <1>3, <1>4, <1>5 DEF Next, Poll, Check

(* An alert begins only if no poll since the head last advanced has seen a   *)
(* newer one, except where the last poll went back.                          *)
THEOREM AlertsAreTrue == Spec => NoFalseAlert
  <1> DEFINE Founded == StallFound => seen.best = seen.at \/ lagged
  <1>1. Data /\ Watched => Founded
    <2> SUFFICES ASSUME Data, Watched, StallFound, ~lagged
                 PROVE  seen.best = seen.at
      OBVIOUS
    <2>1. polled = seen.best /\ seen.at = checked /\ seen.best >= seen.at
      BY DEF Watched
    <2>2. polled =< checked
      BY DEF StallFound
    <2> QED
      BY <2>1, <2>2 DEF Data
  <1>2. Data /\ Watched /\ [Next]_vars => [Founded]_vars
    BY <1>1
  <1> HIDE DEF Founded
  <1>3. Founded <=> (StallFound => seen.best = seen.at \/ lagged)
    BY DEF Founded
  <1> QED
    BY <1>2, <1>3, InitType, WatchedInit, FlagsStep, DataStep, WatchedStep, PTL
    DEF Spec, NoFalseAlert
=============================================================================
