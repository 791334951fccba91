------------------------ MODULE AdminBroadcast_proofs ------------------------
(* That a broadcast reaches a chat at most once, goes to the operators shown *)
(* when it was confirmed and not after the admin has turned back, for any    *)
(* operators, chats, number of messages, menus, failed calls and crashes.    *)
(* That the delivery of a notification gives each chat its own.              *)
EXTENDS MCMessages, Sequences, FiniteSetTheorems, TLAPS

-----------------------------------------------------------------------------
(* The inductive invariant.  A crash may bring back a session whose preview  *)
(* was sent already, but not the state it was confirmed in; and every way    *)
(* back to such a state forgets the preview.                                 *)
Bounds == /\ prompts \in Nat /\ previews \in Nat /\ previews =< MaxPreviews
          /\ received \in [1..MaxPreviews -> [Chats -> Nat]]
          /\ running = [of |-> running.of, targets |-> running.targets,
                        cleared |-> running.cleared]

Entering == {"messageAll", "selectNo", "messageSelected"}

Unsent(p) == \A c \in Chats : received[p][c] = 0

(* A preview that could be confirmed now is the one that was shown.          *)
Live ==
  state \in Entering /\ session.preview # 0 =>
    /\ state # "selectNo" /\ session.preview \notin canceled
    /\ state = "messageSelected" => session.selected # {}
    /\ Unsent(session.preview)
    /\ \A k \in shown : k.preview = session.preview =>
         (k.kind = "selected" => k.ids = session.selected)

Untouched == \A p \in 1..MaxPreviews : p > previews => Unsent(p)

Copying ==
  ~Ready => /\ session.preview = 0
            /\ running.of.preview \notin canceled
            /\ running.targets \subseteq Audience(running.of)
            /\ \A c \in running.targets : received[running.of.preview][c] = 0

IInv == TypeOK /\ Bounds /\ Live /\ Untouched /\ Copying /\ AtMostOnce

LEMMA InvInit == Init => IInv
  <1> SUFFICES ASSUME Init PROVE IInv
    OBVIOUS
  <1>1. /\ state = "none" /\ session = NoSession /\ stored = NoSession
        /\ prompts = 0 /\ opened = {} /\ previews = 0 /\ shown = {} /\ canceled = {}
        /\ running = NoBroadcast
        /\ received = [p \in 1..MaxPreviews |-> [c \in Chats |-> 0]]
    BY DEF Init
  <1>2. NoSession \in Sessions
    BY <1>1 DEF NoSession, Sessions
  <1>3. TypeOK
    BY <1>1, <1>2 DEF TypeOK, States, Ready, NoBroadcast
  <1>4. Bounds
    BY <1>1, BroadcastAssumption DEF Bounds, NoBroadcast
  <1>5. Live /\ Copying
    BY <1>1 DEF Live, Copying, Ready, Entering
  <1>6. Untouched /\ AtMostOnce
    BY <1>1 DEF Untouched, Unsent, AtMostOnce
  <1> QED
    BY <1>3, <1>4, <1>5, <1>6 DEF IInv

-----------------------------------------------------------------------------
(* A handler that copies nothing changes the session, the messages and what  *)
(* the admin has been shown.                                                 *)
LEMMA SessionKeeps ==
  ASSUME IInv, Ready, SameRest, Live',
         state' \in States, session' \in Sessions',
         prompts' \in Nat, prompts =< prompts', opened' \subseteq 1..prompts',
         previews' \in Nat, previews =< previews', previews' =< MaxPreviews,
         canceled' \subseteq 1..previews',
         \A k \in shown' : \/ k \in shown
                           \/ /\ k.prompt \in 1..prompts' /\ k.preview \in 1..previews'
                              /\ k.ids # {} <=> k.kind = "selected"
  PROVE  IInv'
  <1>1. stored' = stored /\ running' = running /\ received' = received
    BY DEF SameRest
  <1>2. Ready' /\ running.targets = {}
    BY <1>1 DEF Ready, NoBroadcast
  <1>3. prompts \in Nat /\ previews \in Nat
    BY DEF IInv, Bounds
  <1>4. stored' \in Sessions'
    BY <1>1, <1>3 DEF IInv, TypeOK, Sessions
  <1>5. \A k \in shown' : /\ k.prompt \in 1..prompts' /\ k.preview \in 1..previews'
                          /\ k.ids # {} <=> k.kind = "selected"
    <2>1. \A k \in shown : /\ k.prompt \in 1..prompts /\ k.preview \in 1..previews
                           /\ k.ids # {} <=> k.kind = "selected"
      BY DEF IInv, TypeOK
    <2>2. 1..prompts \subseteq 1..prompts' /\ 1..previews \subseteq 1..previews'
      BY <1>3
    <2> QED
      BY <2>1, <2>2, Zenon
  <1>6. TypeOK'
    BY <1>1, <1>2, <1>4, <1>5 DEF TypeOK
  <1>7. Bounds'
    BY <1>1 DEF IInv, Bounds
  <1>8. Untouched' /\ AtMostOnce'
    BY <1>1, <1>3 DEF IInv, Untouched, Unsent, AtMostOnce
  <1>9. Copying'
    BY <1>2 DEF Copying
  <1> QED
    BY <1>6, <1>7, <1>8, <1>9 DEF IInv

(* So does one that leaves no preview behind, or no state to confirm it in.  *)
LEMMA QuietKeeps ==
  ASSUME IInv, Ready, SameRest, SamePreviews,
         state' \in States, session' \in Sessions',
         session'.preview = 0 \/ state' \notin Entering,
         prompts' \in Nat, prompts =< prompts', opened' \subseteq 1..prompts',
         canceled' \subseteq 1..previews
  PROVE  IInv'
  <1>1. previews' = previews /\ shown' = shown
    BY DEF SamePreviews
  <1>2. Live'
    BY DEF Live
  <1>3. previews \in Nat /\ previews =< MaxPreviews
    BY DEF IInv, Bounds
  <1> QED
    BY <1>1, <1>2, <1>3, SessionKeeps

(* A menu is opened on a message shown before.                               *)
LEMMA OpenKeeps ==
  ASSUME IInv, Ready, NEW m \in 1..prompts, NEW next \in States,
         NEW cleared \in SUBSET Operators, NEW done \in SUBSET Operators,
         OpenOn(m, next, cleared, done)
  PROVE  IInv'
  <1>1. /\ session \in Sessions /\ state \in States /\ opened \subseteq 1..prompts
        /\ canceled \subseteq 1..previews /\ prompts \in Nat /\ previews \in Nat
    BY DEF IInv, TypeOK, Bounds
  <1>2. SamePreviews /\ SameRest /\ prompts' = prompts /\ previews' = previews
    BY DEF OpenOn, SamePreviews
  <1>3. CASE /\ session' = [session EXCEPT !.preview = 0, !.selected = cleared]
             /\ UNCHANGED <<state, opened, canceled>>
    <2>0. session' = [prompt |-> session.prompt, selected |-> cleared, preview |-> 0]
      BY <1>1, <1>3 DEF Sessions
    <2>1. session' \in Sessions' /\ session'.preview = 0
      BY <1>1, <1>2, <2>0 DEF Sessions
    <2> QED
      BY <1>1, <1>2, <1>3, <2>1, QuietKeeps
  <1>4. CASE /\ session' = [prompt |-> m, selected |-> done, preview |-> 0]
             /\ state' = next /\ opened' = opened \cup {m} /\ canceled' = 1..previews
    <2>1. session' \in Sessions' /\ session'.preview = 0
      BY <1>1, <1>2, <1>4 DEF Sessions
    <2> QED
      BY <1>1, <1>2, <1>4, <2>1, QuietKeeps
  <1> QED
    BY <1>3, <1>4 DEF OpenOn

LEMMA MenuKeeps ==
  ASSUME IInv, NEW m \in 1..prompts, BroadcastMenu(m) \/ BroadcastAllPrompt(m) \/ BroadcastByNo(m)
  PROVE  IInv'
  <1>1. session.selected \in SUBSET Operators
    BY DEF IInv, TypeOK, Sessions
  <1>2. "broadcast" \in States /\ "messageAll" \in States /\ "selectNo" \in States
    BY DEF States
  <1>3. CASE BroadcastMenu(m)
    BY <1>1, <1>2, <1>3, OpenKeeps DEF BroadcastMenu
  <1>4. CASE BroadcastAllPrompt(m)
    BY <1>1, <1>2, <1>4, OpenKeeps DEF BroadcastAllPrompt
  <1>5. CASE BroadcastByNo(m)
    BY <1>1, <1>2, <1>5, OpenKeeps DEF BroadcastByNo
  <1> QED
    BY <1>3, <1>4, <1>5

LEMMA StartKeeps == ASSUME IInv, Start \/ StartOver PROVE IInv'
  <1>1. /\ Ready /\ SameRest /\ SamePreviews /\ state' = "start" /\ session' = session
        /\ opened' = opened /\ canceled' = canceled
        /\ prompts' = prompts \/ prompts' = prompts + 1
    BY DEF Start, StartOver
  <1>2. /\ session \in Sessions /\ opened \subseteq 1..prompts
        /\ canceled \subseteq 1..previews /\ prompts \in Nat /\ previews \in Nat
    BY DEF IInv, TypeOK, Bounds
  <1>3. session' \in Sessions'
    BY <1>1, <1>2 DEF SamePreviews, Sessions
  <1>4. state' \in States /\ state' \notin Entering
    BY <1>1 DEF States, Entering
  <1> QED
    BY <1>1, <1>2, <1>3, <1>4, QuietKeeps

-----------------------------------------------------------------------------
(* The prompt is edited or sent, so that it is a message that exists.        *)
LEMMA PromptKept ==
  ASSUME IInv, NEW m, Prompted(m)
  PROVE  /\ m \in 1..prompts' /\ prompts' \in Nat /\ prompts =< prompts'
         /\ opened' \subseteq 1..prompts'
  <1>1. /\ prompts \in Nat /\ opened \subseteq 1..prompts /\ session.prompt \in 0..prompts
    BY DEF IInv, TypeOK, Bounds, Sessions
  <1>2. CASE session.prompt # 0 /\ m = session.prompt /\ UNCHANGED <<prompts, opened>>
    BY <1>1, <1>2
  <1>3. CASE m = prompts + 1 /\ prompts' = m /\ opened' = opened \cup {m}
    <2>1. m \in 1..prompts' /\ prompts' \in Nat /\ prompts =< prompts'
      BY <1>1, <1>3
    <2>2. 1..prompts \subseteq 1..prompts'
      BY <1>1, <1>3
    <2> QED
      BY <1>1, <1>3, <2>1, <2>2
  <1> QED
    BY <1>2, <1>3 DEF Prompted

(* A handler of the two text states that leaves the preview as it is, where  *)
(* there is none, or deletes it.                                             *)
LEMMA TextKeeps ==
  ASSUME IInv, Ready, SameRest, SamePreviews, UNCHANGED canceled, state' \in States,
         session.preview = 0 \/ session'.preview = 0,
         NEW m, NEW selected \in SUBSET Operators, NEW preview \in {0, session.preview},
         \/ m = session.prompt /\ UNCHANGED <<prompts, opened>>
         \/ Prompted(m),
         session' = [prompt |-> m, selected |-> selected, preview |-> preview]
  PROVE  IInv'
  <1>1. /\ prompts \in Nat /\ opened \subseteq 1..prompts /\ session.prompt \in 0..prompts
        /\ canceled \subseteq 1..previews /\ previews \in Nat
    BY DEF IInv, TypeOK, Bounds, Sessions
  <1>2. /\ m \in 0..prompts' /\ prompts' \in Nat /\ prompts =< prompts'
        /\ opened' \subseteq 1..prompts'
    <2>1. CASE m = session.prompt /\ UNCHANGED <<prompts, opened>>
      BY <1>1, <2>1
    <2>2. CASE Prompted(m)
      <3>1. /\ m \in 1..prompts' /\ prompts' \in Nat /\ prompts =< prompts'
            /\ opened' \subseteq 1..prompts'
        BY <2>2, PromptKept
      <3> QED
        BY <3>1
    <2> QED
      BY <2>1, <2>2
  <1>3. preview = 0
    OBVIOUS
  <1>4. session' \in Sessions' /\ session'.preview = 0
    BY <1>1, <1>2, <1>3 DEF SamePreviews, Sessions
  <1> QED
    BY <1>1, <1>2, <1>4, QuietKeeps

LEMMA SessionRecord ==
  ASSUME IInv
  PROVE  /\ session = [prompt |-> session.prompt, selected |-> session.selected,
                       preview |-> session.preview]
         /\ session.selected \in SUBSET Operators
  BY DEF IInv, TypeOK, Sessions

LEMMA EnterKeeps == ASSUME IInv, NEW ids \in SUBSET Operators, EnterIds(ids) PROVE IInv'
  <1> DEFINE selected == IF ids = {} THEN session.selected ELSE ids
  <1>1. selected \in SUBSET Operators
    BY SessionRecord
  <1>2. Ready /\ SameRest /\ SamePreviews /\ UNCHANGED canceled /\ state = "selectNo"
    BY DEF EnterIds
  <1>3. session.preview = 0
    BY <1>2 DEF IInv, Live, Entering
  <1>4. state \in States /\ "messageSelected" \in States
    BY DEF IInv, TypeOK, States
  <1> HIDE DEF selected
  <1>5. CASE /\ session' = [session EXCEPT !.selected = selected]
             /\ UNCHANGED <<state, prompts, opened>>
    <2>1. session' = [prompt |-> session.prompt, selected |-> selected, preview |-> session.preview]
      BY <1>5, SessionRecord
    <2> QED
      BY <1>1, <1>2, <1>3, <1>4, <1>5, <2>1, TextKeeps
  <1>6. ASSUME NEW m \in 1..MaxPrompts, Prompted(m),
               session' = [session EXCEPT !.selected = selected, !.prompt = m],
               state' = IF ids = {} THEN state ELSE "messageSelected"
        PROVE  IInv'
    <2>1. session' = [prompt |-> m, selected |-> selected, preview |-> session.preview]
      BY <1>6, SessionRecord
    <2>2. state' \in States
      BY <1>4, <1>6
    <2> QED
      BY <1>1, <1>2, <1>3, <1>6, <2>1, <2>2, TextKeeps
  <1> QED
    BY <1>5, <1>6 DEF EnterIds, selected

LEMMA NothingKeeps == ASSUME IInv, NothingSelected PROVE IInv'
  <1>1. /\ Ready /\ SameRest /\ SamePreviews /\ UNCHANGED canceled
        /\ state = "messageSelected" /\ session.selected = {}
    BY DEF NothingSelected
  <1>2. session.preview = 0
    BY <1>1 DEF IInv, Live, Entering
  <1>3. "messageSelected" \in States /\ "selectNo" \in States
    BY DEF States
  <1>4. CASE UNCHANGED <<state, session, prompts, opened>>
    BY <1>1, <1>2, <1>3, <1>4, SessionRecord, TextKeeps
  <1>5. ASSUME NEW m \in 1..MaxPrompts, Prompted(m), state' = "selectNo",
               session' = [session EXCEPT !.prompt = m]
        PROVE  IInv'
    <2>1. session' = [prompt |-> m, selected |-> session.selected, preview |-> session.preview]
      BY <1>5, SessionRecord
    <2> QED
      BY <1>1, <1>2, <1>3, <1>5, <2>1, SessionRecord, TextKeeps
  <1> QED
    BY <1>4, <1>5 DEF NothingSelected

LEMMA PreviewFailsKeeps ==
  ASSUME IInv, Ready, SameRest, SamePreviews, UNCHANGED canceled, PreviewFails
  PROVE  IInv'
  <1>1. state \in States
    BY DEF IInv, TypeOK
  <1>2. CASE session' = [session EXCEPT !.preview = 0] /\ UNCHANGED <<state, prompts, opened>>
    <2>1. session' = [prompt |-> session.prompt, selected |-> session.selected, preview |-> 0]
      BY <1>2, SessionRecord
    <2> QED
      BY <1>1, <1>2, <2>1, SessionRecord, TextKeeps
  <1>3. ASSUME NEW m \in 1..MaxPrompts, Prompted(m), UNCHANGED state,
               session' = [session EXCEPT !.preview = 0, !.prompt = m]
        PROVE  IInv'
    <2>1. session' = [prompt |-> m, selected |-> session.selected, preview |-> 0]
      BY <1>3, SessionRecord
    <2> QED
      BY <1>1, <1>3, <2>1, SessionRecord, TextKeeps
  <1> QED
    BY <1>2, <1>3 DEF PreviewFails

(* A preview is shown: nobody has received it, and nobody was asked to       *)
(* confirm it before.                                                        *)
LEMMA PreviewKeeps ==
  ASSUME IInv, Ready, SameRest, UNCHANGED canceled, NEW kind, NEW ids,
         \/ kind = "all" /\ ids = {} /\ state = "messageAll"
         \/ /\ kind = "selected" /\ ids = session.selected /\ ids # {}
            /\ state = "messageSelected",
         Preview(kind, ids)
  PROVE  IInv'
  <1>1. /\ prompts \in Nat /\ opened \subseteq 1..prompts /\ session.prompt \in 0..prompts
        /\ canceled \subseteq 1..previews /\ previews \in Nat /\ previews =< MaxPreviews
        /\ MaxPreviews \in Nat /\ state \in States
    BY BroadcastAssumption DEF IInv, TypeOK, Bounds, Sessions
  <1>2. /\ previews' = previews + 1 /\ previews' =< MaxPreviews /\ previews' \in Nat
        /\ previews =< previews' /\ canceled' = canceled /\ canceled \subseteq 1..previews'
        /\ state' = state
    <2>1. previews < MaxPreviews /\ previews' = previews + 1 /\ state' = state
      BY DEF Preview
    <2>2. 1..previews \subseteq 1..(previews + 1)
      BY <1>1
    <2> QED
      BY <1>1, <2>1, <2>2
  <1>3. received' = received /\ running' = running /\ stored' = stored
    BY DEF SameRest
  <1>4. CASE /\ session' = [session EXCEPT !.preview = 0]
             /\ UNCHANGED <<shown, prompts, opened>>
    <2>1. session' = [prompt |-> session.prompt, selected |-> session.selected, preview |-> 0]
      BY <1>4, SessionRecord
    <2>2. session' \in Sessions' /\ session'.preview = 0
      BY <1>1, <1>2, <1>4, <2>1, SessionRecord DEF Sessions
    <2>3. Live'
      BY <2>2 DEF Live
    <2> QED
      BY <1>1, <1>2, <1>4, <2>2, <2>3, SessionKeeps
  <1>5. ASSUME NEW m \in 1..MaxPrompts, Prompted(m),
               shown' = shown \cup {Confirmation(kind, m, previews', ids)},
               \/ session' = [session EXCEPT !.prompt = m, !.preview = previews']
               \/ session' = [session EXCEPT !.preview = 0]
        PROVE  IInv'
    <2> DEFINE k0 == Confirmation(kind, m, previews', ids)
    <2>1. k0.kind = kind /\ k0.prompt = m /\ k0.preview = previews' /\ k0.ids = ids
      BY DEF Confirmation
    <2> HIDE DEF k0
    <2>2. m \in 1..prompts' /\ prompts' \in Nat /\ prompts =< prompts' /\ opened' \subseteq 1..prompts'
      BY <1>5, PromptKept
    <2>3. \A k \in shown' : \/ k \in shown
                            \/ /\ k.prompt \in 1..prompts' /\ k.preview \in 1..previews'
                               /\ k.ids # {} <=> k.kind = "selected"
      <3>1. /\ k0.prompt \in 1..prompts' /\ k0.preview \in 1..previews'
            /\ k0.ids # {} <=> k0.kind = "selected"
        BY <1>1, <1>2, <2>1, <2>2
      <3>2. \A k \in shown' : k \in shown \/ k = k0
        BY <1>5 DEF k0
      <3> QED
        BY <3>1, <3>2
    <2>4. CASE session' = [session EXCEPT !.preview = 0]
      <3>1. session' = [prompt |-> session.prompt, selected |-> session.selected, preview |-> 0]
        BY <2>4, SessionRecord
      <3>2. session' \in Sessions' /\ session'.preview = 0
        BY <1>1, <1>2, <2>2, <3>1, SessionRecord DEF Sessions
      <3>3. Live'
        BY <3>2 DEF Live
      <3> QED
        BY <1>1, <1>2, <2>2, <2>3, <3>2, <3>3, SessionKeeps
    <2>5. CASE session' = [session EXCEPT !.prompt = m, !.preview = previews']
      <3>1. session' = [prompt |-> m, selected |-> session.selected, preview |-> previews']
        BY <2>5, SessionRecord
      <3>2. session' \in Sessions'
        BY <1>1, <1>2, <2>2, <3>1, SessionRecord DEF Sessions
      <3>3. session'.preview \notin canceled' /\ Unsent(session.preview)'
        <4>1. previews' \in 1..MaxPreviews /\ previews' > previews
          BY <1>1, <1>2
        <4>2. session'.preview = previews'
          BY <3>1
        <4>3. \A c \in Chats : received[previews'][c] = 0
          BY <4>1 DEF IInv, Untouched, Unsent
        <4>4. previews' \notin canceled
          BY <1>1, <4>1
        <4> QED
          BY <1>2, <1>3, <4>2, <4>3, <4>4 DEF Unsent
      <3>4. \A k \in shown' : k.preview = session'.preview =>
              (k.kind = "selected" => k.ids = session'.selected)
        <4>1. \A k \in shown : k.preview # previews'
          <5>1. \A k \in shown : k.preview \in 1..previews
            BY DEF IInv, TypeOK
          <5> QED
            BY <1>1, <1>2, <5>1
        <4>2. k0.kind = "selected" => k0.ids = session.selected
          BY <2>1
        <4>3. \A k \in shown' : k \in shown \/ k = k0
          BY <1>5 DEF k0
        <4> QED
          BY <3>1, <4>1, <4>2, <4>3
      <3>5. Live'
        <4>1. state' # "selectNo" /\ (state' = "messageSelected" => session'.selected # {})
          BY <1>2, <3>1
        <4> QED
          BY <3>3, <3>4, <4>1 DEF Live
      <3> QED
        BY <1>1, <1>2, <2>2, <2>3, <3>2, <3>5, SessionKeeps
    <2> QED
      BY <1>5, <2>4, <2>5
  <1> QED
    BY <1>4, <1>5 DEF Preview

LEMMA MessageKeeps ==
  ASSUME IInv, BroadcastAllMessage \/ BroadcastSelectedMessage
  PROVE  IInv'
  <1>1. Ready /\ SameRest /\ UNCHANGED canceled
    BY DEF BroadcastAllMessage, BroadcastSelectedMessage
  <1>2. CASE PreviewFails /\ SamePreviews
    BY <1>1, <1>2, PreviewFailsKeeps
  <1>3. CASE state = "messageAll" /\ Preview("all", {})
    BY <1>1, <1>3, PreviewKeeps
  <1>4. CASE /\ state = "messageSelected" /\ session.selected # {}
             /\ Preview("selected", session.selected)
    BY <1>1, <1>4, PreviewKeeps
  <1> QED
    BY <1>2, <1>3, <1>4 DEF BroadcastAllMessage, BroadcastSelectedMessage

-----------------------------------------------------------------------------
(* A confirmation is accepted: its preview was not sent, and is forgotten.   *)
LEMMA ConsumeKeeps ==
  ASSUME IInv, NEW k \in shown, NEW targets \in SUBSET Chats, Ready, state \in Entering,
         targets \subseteq Audience(k), Consume(k, targets)
  PROVE  IInv'
  <1>1. /\ session.preview = k.preview /\ session' = [session EXCEPT !.preview = 0]
        /\ UNCHANGED <<state, stored, received, canceled, prompts, opened, previews, shown>>
        /\ \/ running' = [of |-> k, targets |-> targets,
                          cleared |-> k.kind = "selected" /\ targets # {}]
           \/ running' = running
    BY DEF Consume, Consumable, telegramVars
  <1>2. k.preview \in 1..previews /\ previews \in Nat /\ session.prompt \in 0..prompts
    BY DEF IInv, TypeOK, Bounds, Sessions
  <1>3. session.preview # 0 /\ k.preview \notin canceled /\ Unsent(k.preview)
    BY <1>1, <1>2 DEF IInv, Live
  <1>4. session' = [prompt |-> session.prompt, selected |-> session.selected, preview |-> 0]
    BY <1>1, SessionRecord
  <1>5. session' \in Sessions' /\ session'.preview = 0
    BY <1>1, <1>2, <1>4, SessionRecord DEF Sessions
  <1>6. Live'
    BY <1>5 DEF Live
  <1>7. Untouched' /\ AtMostOnce'
    BY <1>1 DEF IInv, Untouched, Unsent, AtMostOnce
  <1>8. CASE running' = running
    <2>1. TypeOK'
      BY <1>1, <1>5, <1>8 DEF IInv, TypeOK, Ready, Sessions
    <2>2. Bounds' /\ Copying'
      BY <1>1, <1>8 DEF IInv, Bounds, Copying, Ready
    <2> QED
      BY <1>6, <1>7, <2>1, <2>2 DEF IInv
  <1>9. CASE running' = [of |-> k, targets |-> targets,
                         cleared |-> k.kind = "selected" /\ targets # {}]
    <2>1. running'.of = k /\ running'.targets = targets
      BY <1>9
    <2>2. TypeOK'
      BY <1>1, <1>5, <2>1 DEF IInv, TypeOK, Sessions
    <2>3. Bounds'
      BY <1>1, <1>9 DEF IInv, Bounds
    <2>4. Copying'
      <3>1. Audience(running.of)' = Audience(k)
        BY <2>1 DEF Audience, Everyone
      <3>2. \A c \in targets : received[k.preview][c] = 0
        BY <1>3 DEF Unsent
      <3> QED
        BY <1>1, <1>3, <1>5, <2>1, <3>1, <3>2 DEF Copying
    <2> QED
      BY <1>6, <1>7, <2>2, <2>3, <2>4 DEF IInv
  <1> QED
    BY <1>1, <1>8, <1>9

(* The selection that is read from the session is the one that was shown.    *)
LEMMA ConfirmKeeps ==
  ASSUME IInv, NEW k \in shown, ConfirmAll(k) \/ ConfirmSelected(k)
  PROVE  IInv'
  <1>1. \A o \in Operators : Followers[o] \in SUBSET Chats
    BY BroadcastAssumption
  <1>2. CASE ConfirmAll(k)
    <2>1. Ready /\ state \in Entering /\ Consume(k, Everyone) /\ k.kind = "all"
      BY <1>2 DEF ConfirmAll, Entering
    <2>2. Everyone \in SUBSET Chats /\ Everyone \subseteq Audience(k)
      BY <1>1, <2>1 DEF Everyone, Audience
    <2> QED
      BY <2>1, <2>2, ConsumeKeeps
  <1>3. CASE ConfirmSelected(k)
    <2> DEFINE targets == UNION {Followers[o] : o \in session.selected}
    <2>1. /\ Ready /\ state \in Entering /\ state = "messageSelected"
          /\ Consume(k, targets) /\ k.kind = "selected"
      BY <1>3 DEF ConfirmSelected, Entering
    <2>2. session.preview = k.preview /\ k.preview # 0
      BY <2>1 DEF IInv, TypeOK, Bounds, Consume, Consumable
    <2>3. k.ids = session.selected
      BY <2>1, <2>2 DEF IInv, Live
    <2>4. targets \in SUBSET Chats
      BY <1>1, SessionRecord
    <2>5. targets \subseteq Audience(k)
      BY <2>1, <2>3 DEF Audience
    <2> QED
      BY <2>1, <2>4, <2>5, ConsumeKeeps
  <1> QED
    BY <1>2, <1>3

LEMMA CopyKeeps ==
  ASSUME IInv, NEW c \in Chats, NEW arrives \in BOOLEAN, Copy(c, arrives)
  PROVE  IInv'
  <1> DEFINE p == running.of.preview
  <1>1. /\ c \in running.targets
        /\ running' = [running EXCEPT !.targets = @ \ {c}]
        /\ UNCHANGED <<state, session, stored, canceled, prompts, opened, previews, shown>>
        /\ \/ received' = [received EXCEPT ![p][c] = @ + 1]
           \/ received' = received
    BY DEF Copy, telegramVars
  <1>2. ~Ready
    BY <1>1 DEF Ready, NoBroadcast
  <1>3. /\ running.of \in shown /\ p \in 1..previews /\ previews \in Nat
        /\ previews =< MaxPreviews /\ MaxPreviews \in Nat
        /\ received \in [1..MaxPreviews -> [Chats -> Nat]]
    BY <1>2, BroadcastAssumption DEF IInv, TypeOK, Bounds
  <1>4. /\ running' = [of |-> running.of, targets |-> running.targets \ {c},
                       cleared |-> running.cleared]
        /\ running'.of = running.of /\ running'.targets = running.targets \ {c}
    BY <1>1 DEF IInv, Bounds
  <1>5. /\ session.preview = 0 /\ p \notin canceled
        /\ running.targets \subseteq Audience(running.of)
        /\ \A d \in running.targets : received[p][d] = 0
    BY <1>2 DEF IInv, Copying
  <1>6. p \in 1..MaxPreviews
    BY <1>3
  <1>7. /\ received' \in [1..MaxPreviews -> [Chats -> Nat]]
        /\ \A q \in 1..MaxPreviews, d \in Chats :
             received'[q][d] = IF q = p /\ d = c THEN received'[p][c] ELSE received[q][d]
        /\ received'[p][c] \in {0, 1}
    <2>1. CASE received' = [received EXCEPT ![p][c] = @ + 1]
      <3>1. received' = [received EXCEPT ![p] = [received[p] EXCEPT ![c] = received[p][c] + 1]]
        BY <2>1
      <3>2. received[p] \in [Chats -> Nat] /\ received[p][c] = 0
        BY <1>1, <1>3, <1>5, <1>6
      <3>3. [received[p] EXCEPT ![c] = received[p][c] + 1] \in [Chats -> Nat]
        BY <3>2
      <3> QED
        BY <1>3, <1>6, <3>1, <3>2, <3>3
    <2>2. CASE received' = received
      BY <1>1, <1>3, <1>5, <1>6, <2>2
    <2> QED
      BY <1>1, <2>1, <2>2
  <1>8. TypeOK'
    BY <1>1, <1>3, <1>4 DEF IInv, TypeOK, Sessions
  <1>9. Bounds'
    BY <1>1, <1>4, <1>7 DEF IInv, Bounds
  <1>10. Live'
    BY <1>1, <1>5 DEF Live
  <1>11. Untouched'
    BY <1>1, <1>3, <1>7 DEF IInv, Untouched, Unsent
  <1>12. Copying'
    <2>1. Audience(running.of)' = Audience(running.of)
      BY <1>4 DEF Audience, Everyone
    <2>2. \A d \in running'.targets : received'[p][d] = 0
      BY <1>4, <1>5, <1>6, <1>7, <1>8 DEF TypeOK
    <2> QED
      BY <1>1, <1>4, <1>5, <2>1, <2>2 DEF Copying
  <1>13. AtMostOnce'
    BY <1>7 DEF IInv, AtMostOnce
  <1> QED
    BY <1>8, <1>9, <1>10, <1>11, <1>12, <1>13 DEF IInv

LEMMA ConcludeKeeps == ASSUME IInv, Conclude PROVE IInv'
  <1>1. /\ ~Ready /\ running' = NoBroadcast
        /\ session' = [session EXCEPT !.selected = IF running.cleared THEN {} ELSE @]
        /\ UNCHANGED <<state, stored, received, canceled, prompts, opened, previews, shown>>
    BY DEF Conclude, telegramVars
  <1>2. session.preview = 0
    BY <1>1 DEF IInv, Copying
  <1>3. session' = [prompt |-> session.prompt, preview |-> 0,
                    selected |-> IF running.cleared THEN {} ELSE session.selected]
    BY <1>1, <1>2, SessionRecord
  <1>4. session' \in Sessions' /\ session'.preview = 0
    BY <1>1, <1>2, <1>3 DEF IInv, TypeOK, Sessions
  <1>5. Ready' /\ running'.targets = {}
    BY <1>1 DEF Ready, NoBroadcast
  <1>6. TypeOK'
    BY <1>1, <1>4, <1>5 DEF IInv, TypeOK, Sessions
  <1>7. Bounds' /\ Live' /\ Copying'
    BY <1>1, <1>4, <1>5 DEF IInv, Bounds, Live, Copying, NoBroadcast
  <1>8. Untouched' /\ AtMostOnce'
    BY <1>1 DEF IInv, Untouched, Unsent, AtMostOnce
  <1> QED
    BY <1>6, <1>7, <1>8 DEF IInv

LEMMA PersistenceKeeps == ASSUME IInv, UpdatePersistence PROVE IInv'
  <1>1. /\ stored' = session
        /\ UNCHANGED <<state, session, running, received, canceled, prompts, opened, previews, shown>>
    BY DEF UpdatePersistence, telegramVars
  <1>2. TypeOK'
    BY <1>1 DEF IInv, TypeOK, Ready, Sessions
  <1>3. Bounds' /\ Live' /\ Untouched' /\ AtMostOnce'
    BY <1>1 DEF IInv, Bounds, Live, Untouched, Unsent, AtMostOnce
  <1>4. Copying'
    BY <1>1 DEF IInv, Copying, Ready, Audience, Everyone
  <1> QED
    BY <1>2, <1>3, <1>4 DEF IInv

LEMMA CrashKeeps == ASSUME IInv, Crash PROVE IInv'
  <1>1. /\ state' = "none" /\ session' = stored /\ running' = NoBroadcast
        /\ UNCHANGED <<stored, received, canceled, prompts, opened, previews, shown>>
    BY DEF Crash, telegramVars
  <1>2. Ready' /\ running'.targets = {}
    BY <1>1 DEF Ready, NoBroadcast
  <1>3. state' \in States /\ state' \notin Entering
    BY <1>1 DEF States, Entering
  <1>4. TypeOK'
    BY <1>1, <1>2, <1>3 DEF IInv, TypeOK, Sessions
  <1>5. Bounds' /\ Live' /\ Copying'
    BY <1>1, <1>2, <1>3 DEF IInv, Bounds, Live, Copying, NoBroadcast
  <1>6. Untouched' /\ AtMostOnce'
    BY <1>1 DEF IInv, Untouched, Unsent, AtMostOnce
  <1> QED
    BY <1>4, <1>5, <1>6 DEF IInv

-----------------------------------------------------------------------------
LEMMA InvStep == IInv /\ [Next]_vars => IInv'
  <1> SUFFICES ASSUME IInv, [Next]_vars PROVE IInv'
    OBVIOUS
  <1>1. CASE Start \/ StartOver
    BY <1>1, StartKeeps
  <1>2. CASE \E m \in 1..prompts : BroadcastMenu(m) \/ BroadcastAllPrompt(m) \/ BroadcastByNo(m)
    BY <1>2, MenuKeeps
  <1>3. CASE \E ids \in SUBSET Operators : EnterIds(ids)
    BY <1>3, EnterKeeps
  <1>4. CASE BroadcastAllMessage \/ BroadcastSelectedMessage
    BY <1>4, MessageKeeps
  <1>5. CASE NothingSelected
    BY <1>5, NothingKeeps
  <1>6. CASE \E k \in shown : ConfirmAll(k) \/ ConfirmSelected(k)
    BY <1>6, ConfirmKeeps
  <1>7. CASE \E c \in Chats, b \in BOOLEAN : Copy(c, b)
    BY <1>7, CopyKeeps
  <1>8. CASE Conclude
    BY <1>8, ConcludeKeeps
  <1>9. CASE UpdatePersistence
    BY <1>9, PersistenceKeeps
  <1>10. CASE Crash
    BY <1>10, CrashKeeps
  <1>11. CASE UNCHANGED vars
    <2>1. UNCHANGED <<state, session, stored, prompts, opened, previews, shown, running,
                      received, canceled>>
      BY <1>11 DEF vars, telegramVars
    <2>2. TypeOK' /\ Bounds'
      BY <2>1 DEF IInv, TypeOK, Bounds, Ready, Sessions
    <2>3. Live' /\ Untouched' /\ AtMostOnce'
      BY <2>1 DEF IInv, Live, Untouched, Unsent, AtMostOnce
    <2>4. Copying'
      BY <2>1 DEF IInv, Copying, Ready, Audience, Everyone
    <2> QED
      BY <2>2, <2>3, <2>4 DEF IInv
  <1> QED
    BY <1>1, <1>2, <1>3, <1>4, <1>5, <1>6, <1>7, <1>8, <1>9, <1>10, <1>11 DEF Next

LEMMA Inductive == Spec => []IInv
  BY InvInit, InvStep, PTL DEF Spec

(* The session names messages that exist (broadcast.py 38-159).              *)
THEOREM TypeCorrect == Spec => []TypeOK
  <1>1. IInv => TypeOK
    BY DEF IInv
  <1> QED
    BY Inductive, <1>1, PTL

(* No chat receives a broadcast twice, for any number of chats, of presses   *)
(* of a confirmation and of crashes between two copies (broadcast.py 71-88,  *)
(* 403-422).                                                                 *)
THEOREM SentAtMostOnce == Spec => []AtMostOnce
  <1>1. IInv => AtMostOnce
    BY DEF IInv
  <1> QED
    BY Inductive, <1>1, PTL

(* A broadcast goes to those that its confirmation was shown for             *)
(* (broadcast.py 340-400).                                                   *)
THEOREM SentWhereShown == Spec => []GoesWhereItWasShown
  <1>1. IInv => GoesWhereItWasShown
    BY DEF IInv, Copying, GoesWhereItWasShown
  <1> QED
    BY Inductive, <1>1, PTL

(* No confirmation shown before a return to a menu starts a broadcast        *)
(* (broadcast.py 91-159, 515-522).                                           *)
THEOREM TurningBackCancels == Spec => []BackCancels
  <1>1. IInv => BackCancels
    BY DEF IInv, Copying, BackCancels
  <1> QED
    BY Inductive, <1>1, PTL

-----------------------------------------------------------------------------
(* The delivery of a notification.  What was said to a chat, what waits for  *)
(* it in the queue and what its operators still have to say to it are, for a *)
(* chat that changes nothing, exactly what the event owes it.                *)

Messages == SUBSET Operators

Lists == {s \in Seq(Messages) : s # <<>> /\ Notifications!IsInjective(s)}

Said(c) == Notifications!Range(told[c])

Waiting(c) == UNION {Notifications!Range(x.messages) : x \in {y \in delivery.queue : y.chat = c}}

DeliveryType ==
  /\ known \in SUBSET Recipients /\ follows \in [Operators -> SUBSET Recipients]
  /\ delivery \in [event : Notifications!Events,
                   kind : {"none", "broadcast", "operators", "chats"},
                   actual : SUBSET Recipients, left : SUBSET Operators,
                   queue : SUBSET [chat : Recipients, messages : Lists]]
  /\ told \in [Recipients -> Seq(Messages)]
  /\ steady \in [Notifications!Audience -> SUBSET Recipients]
  /\ ever \in [Notifications!Audience -> SUBSET Recipients]
  /\ \A x, y \in delivery.queue : x.chat = y.chat => x = y

(* What was said, what waits and what is left to say have nothing in common. *)
SaidOnce == \A c \in Recipients :
  /\ Notifications!IsInjective(told[c])
  /\ Said(c) \cap Waiting(c) = {}
  /\ \A o \in delivery.left : {o} \notin Said(c) \cup Waiting(c)

(* The history brackets the subscriptions, and the chats of the plan.        *)
Bracketed ==
  /\ \A a \in Notifications!Audience : steady[a] \subseteq ever[a]
  /\ Notifications!Delivering =>
       /\ \A a \in Notifications!Audience :
            /\ steady[a] \subseteq Notifications!Members(a, known, follows)
            /\ Notifications!Members(a, known, follows) \subseteq ever[a]
       /\ steady[everyone] \subseteq delivery.actual
       /\ delivery.actual \subseteq ever[everyone]

Entitled == \A c \in Recipients : \A m \in Said(c) \cup Waiting(c) :
  c \in ever[everyone] /\ \A o \in m : c \in ever[o]

Quiet(c) == /\ \A a \in Notifications!Audience : c \in steady[a] <=> c \in ever[a]
            /\ c \in steady[everyone]

Ops(c) == {o \in Operators : c \in steady[o]}

(* What a chat that follows ops is owed of an event.                         *)
Owed(e, ops) ==
  LET mine == ops \cap Notifications!About(e)
  IN IF ~Notifications!Concerned(e, ops) THEN {}
     ELSE IF mine = {} THEN {Notifications!General}
     ELSE IF e.type = "figures" THEN {mine}
     ELSE {{o} : o \in mine}

AllIsSaid == \A c \in Recipients : Quiet(c) /\ delivery # Notifications!Done =>
  Said(c) \cup Waiting(c) \cup {{o} : o \in Ops(c) \cap delivery.left}
    = Owed(delivery.event, Ops(c))

DeliveryInv == DeliveryType /\ SaidOnce /\ Bracketed /\ Entitled /\ AllIsSaid

(* The instance has the standard operators under names of its own.           *)
LEMMA SameCount == \A S : Notifications!Cardinality(S) = Cardinality(S)
  BY DEF Cardinality, Notifications!Cardinality

LEMMA SameFinite == \A S : Notifications!IsFiniteSet(S) <=> IsFiniteSet(S)
  BY DEF IsFiniteSet, Notifications!IsFiniteSet

(* The library's enumeration of a finite set.                                *)
LEMMA SetToSeqIs ==
  ASSUME NEW S, IsFiniteSet(S)
  PROVE  /\ Notifications!SetToSeq(S) \in Seq(S)
         /\ Notifications!IsInjective(Notifications!SetToSeq(S))
         /\ Notifications!Range(Notifications!SetToSeq(S)) = S
  <1> DEFINE n == Cardinality(S)
             s == Notifications!SetToSeq(S)
  <1>1. n \in Nat /\ ExistsBijection(1..n, S)
    BY FS_CardinalityType
  <1>2. PICK b \in [1..n -> S] : IsInjective(b)
    BY <1>1 DEF ExistsBijection, Bijection, Injection
  <1>3. Notifications!IsInjective(b)
    BY <1>2 DEF IsInjective, Notifications!IsInjective
  <1>4. s \in [1..n -> S] /\ Notifications!IsInjective(s)
    BY <1>2, <1>3, SameCount DEF Notifications!SetToSeq
  <1>5. s \in Injection(1..n, S)
    BY <1>4 DEF Injection, IsInjective, Notifications!IsInjective
  <1>6. Cardinality(1..n) = n
    BY <1>1, FS_Interval
  <1>7. s \in Surjection(1..n, S)
    BY <1>5, <1>6, FS_Injection
  <1>8. Notifications!Range(s) = S
    BY <1>4, <1>7 DEF Surjection, Notifications!Range
  <1> QED
    BY <1>1, <1>4, <1>8

LEMMA HeadAndTail ==
  ASSUME NEW s \in Lists
  PROVE  /\ Head(s) \in Messages
         /\ Notifications!Range(s) = {Head(s)} \cup Notifications!Range(Tail(s))
         /\ Head(s) \notin Notifications!Range(Tail(s))
         /\ Len(s) = 1 => Notifications!Range(Tail(s)) = {}
         /\ Len(s) # 1 => Tail(s) \in Lists
  <1>1. /\ s \in Seq(Messages) /\ Len(s) \in Nat \ {0} /\ DOMAIN s = 1..Len(s)
        /\ Tail(s) \in Seq(Messages) /\ Len(Tail(s)) = Len(s) - 1 /\ Head(s) = s[1]
        /\ DOMAIN Tail(s) = 1..(Len(s) - 1)
        /\ \A i \in 1..(Len(s) - 1) : Tail(s)[i] = s[i + 1]
    BY DEF Lists
  <1>2. \A a, b \in DOMAIN s : s[a] = s[b] => a = b
    BY DEF Lists, Notifications!IsInjective
  <1>3. Notifications!Range(s) \subseteq {Head(s)} \cup Notifications!Range(Tail(s))
    <2> SUFFICES ASSUME NEW i \in DOMAIN s
                 PROVE  s[i] \in {Head(s)} \cup Notifications!Range(Tail(s))
      BY DEF Notifications!Range
    <2>1. CASE i = 1
      BY <1>1, <2>1
    <2>2. CASE i # 1
      <3>1. i - 1 \in 1..(Len(s) - 1) /\ (i - 1) + 1 = i
        BY <1>1, <2>2
      <3>2. Tail(s)[i - 1] = s[i] /\ i - 1 \in DOMAIN Tail(s)
        BY <1>1, <3>1
      <3> QED
        BY <3>2 DEF Notifications!Range
    <2> QED
      BY <2>1, <2>2
  <1>4. Notifications!Range(Tail(s)) \subseteq Notifications!Range(s)
    <2> SUFFICES ASSUME NEW i \in DOMAIN Tail(s)
                 PROVE  Tail(s)[i] \in Notifications!Range(s)
      BY DEF Notifications!Range
    <2>1. i + 1 \in DOMAIN s /\ Tail(s)[i] = s[i + 1]
      BY <1>1
    <2> QED
      BY <2>1 DEF Notifications!Range
  <1>5. Head(s) \in Notifications!Range(s) /\ Head(s) \in Messages
    BY <1>1 DEF Notifications!Range
  <1>6. ASSUME Head(s) \in Notifications!Range(Tail(s))
        PROVE  FALSE
    <2>1. PICK i \in DOMAIN Tail(s) : Tail(s)[i] = Head(s)
      BY <1>6 DEF Notifications!Range
    <2>2. i \in 1..(Len(s) - 1)
      BY <1>1, <2>1
    <2>3. 1 \in DOMAIN s /\ i + 1 \in DOMAIN s /\ s[1] = s[i + 1] /\ i + 1 # 1
      BY <1>1, <2>1, <2>2
    <2> QED
      BY <1>2, <2>3
  <1>7. ASSUME Len(s) = 1
        PROVE  Notifications!Range(Tail(s)) = {}
    <2>1. DOMAIN Tail(s) = {}
      BY <1>1, <1>7
    <2> QED
      BY <2>1 DEF Notifications!Range
  <1>8. ASSUME Len(s) # 1
        PROVE  Tail(s) \in Lists
    <2>1. Len(Tail(s)) # 0
      BY <1>1, <1>8
    <2>2. Tail(s) # <<>>
      <3>1. Len(<<>>) = 0
        OBVIOUS
      <3> QED
        BY <2>1, <3>1
    <2>3. ASSUME NEW a \in DOMAIN Tail(s), NEW b \in DOMAIN Tail(s), Tail(s)[a] = Tail(s)[b]
          PROVE  a = b
      <3>1. a + 1 \in DOMAIN s /\ b + 1 \in DOMAIN s /\ s[a + 1] = s[b + 1]
        BY <1>1, <2>3
      <3>2. a + 1 = b + 1
        BY <1>2, <3>1
      <3> QED
        BY <1>1, <3>2
    <2> QED
      BY <1>1, <2>2, <2>3 DEF Lists, Notifications!IsInjective
  <1> QED
    BY <1>3, <1>4, <1>5, <1>6, <1>7, <1>8

LEMMA OneMore ==
  ASSUME NEW s \in Seq(Messages), NEW m \in Messages
  PROVE  /\ Append(s, m) \in Seq(Messages)
         /\ Notifications!Range(Append(s, m)) = Notifications!Range(s) \cup {m}
         /\ Notifications!IsInjective(s) /\ m \notin Notifications!Range(s)
              => Notifications!IsInjective(Append(s, m))
  <1>1. /\ Append(s, m) \in Seq(Messages) /\ Len(s) \in Nat /\ DOMAIN s = 1..Len(s)
        /\ DOMAIN Append(s, m) = DOMAIN s \cup {Len(s) + 1}
        /\ Append(s, m)[Len(s) + 1] = m
        /\ \A i \in DOMAIN s : Append(s, m)[i] = s[i]
    OBVIOUS
  <1> QED
    BY <1>1, Zenon DEF Notifications!Range, Notifications!IsInjective

LEMMA OnlyOne ==
  ASSUME NEW m \in Messages
  PROVE  <<m>> \in Lists /\ Notifications!Range(<<m>>) = {m}
  <1>1. <<m>> \in Seq(Messages) /\ <<m>> # <<>> /\ DOMAIN <<m>> = {1} /\ <<m>>[1] = m
    OBVIOUS
  <1> QED
    BY <1>1, Zenon DEF Lists, Notifications!Range, Notifications!IsInjective

LEMMA EventShapes ==
  ASSUME NEW e \in Notifications!Events
  PROVE  \/ /\ e.type = "plain" /\ e.whom \in Notifications!Audience
         \/ /\ e.type = "figures" /\ e.about \subseteq Operators
         \/ /\ e.type = "report" /\ e.rewards \in BOOLEAN /\ e.fetched \in BOOLEAN
            /\ e.listed \subseteq Operators /\ e.about \subseteq e.listed
            /\ e.fetched \/ e.listed = {}
  BY DEF Notifications!Events, Notifications!Plain, Notifications!Figures, Notifications!Report

(* What a chat gets that follows some of the operators of a plan by chat.    *)
LEMMA RenderIs ==
  ASSUME NEW e \in Notifications!Events, e.type # "plain",
         NEW ops \in SUBSET Operators
  PROVE  /\ Notifications!Render(e, ops) \in Lists
         /\ Notifications!Range(Notifications!Render(e, ops))
              = IF e.type = "figures" THEN {ops}
                ELSE IF ops \cap e.about = {} THEN {Notifications!General}
                ELSE {{o} : o \in ops \cap e.about}
  <1>1. CASE e.type = "figures"
    BY <1>1, OnlyOne DEF Notifications!Render, Messages
  <1>2. CASE e.type # "figures" /\ ops \cap e.about = {}
    <2>1. Notifications!General \in Messages
      BY DEF Notifications!General, Messages
    <2> QED
      BY <1>2, <2>1, OnlyOne DEF Notifications!Render
  <1>3. CASE e.type # "figures" /\ ops \cap e.about # {}
    <2> DEFINE X == ops \cap e.about
               S == {{o} : o \in X}
               f == [o \in X |-> {o}]
    <2>1. IsFiniteSet(X)
      <3>1. X \in SUBSET Operators /\ IsFiniteSet(Operators)
        BY PartsAssumption, SameFinite DEF Notifications!DeliveryAssumption
      <3> QED
        BY <3>1, FS_Subset
    <2>2. f \in Surjection(X, S)
      BY DEF Surjection
    <2>3. IsFiniteSet(S)
      <3> HIDE DEF X, S, f
      <3> QED
        BY <2>1, <2>2, FS_Surjection
    <2>4. Notifications!Render(e, ops) = Notifications!SetToSeq(S)
      BY <1>3 DEF Notifications!Render
    <2>5. /\ Notifications!SetToSeq(S) \in Seq(S)
          /\ Notifications!IsInjective(Notifications!SetToSeq(S))
          /\ Notifications!Range(Notifications!SetToSeq(S)) = S
      BY <2>3, SetToSeqIs
    <2>6. S \subseteq Messages /\ S # {}
      BY <1>3 DEF Messages
    <2>7. Notifications!SetToSeq(S) # <<>>
      <3>1. Notifications!Range(<<>>) = {}
        BY DEF Notifications!Range
      <3> QED
        BY <2>5, <2>6, <3>1
    <2>8. Notifications!SetToSeq(S) \in Seq(Messages)
      <3> HIDE DEF S
      <3> QED
        BY <2>5, <2>6
    <2> QED
      BY <1>3, <2>4, <2>5, <2>7, <2>8 DEF Lists
  <1> QED
    BY <1>1, <1>2, <1>3


(* The plan of an event owes a chat what the chat is owed of the event.      *)
LEMMA PlanOwes ==
  ASSUME NEW e \in Notifications!Events, NEW ops \in SUBSET Operators
  PROVE  LET plan == Notifications!PlanOf(e)
         IN \/ plan.kind = "none" /\ Owed(e, ops) = {}
            \/ /\ plan.kind = "operators" /\ plan.to \subseteq Operators
               /\ Owed(e, ops) = {{o} : o \in ops \cap plan.to}
            \/ /\ plan.kind = "broadcast" /\ plan.to \subseteq Notifications!Audience
               /\ Owed(e, ops) = IF (ops \cup {everyone}) \cap plan.to = {} THEN {}
                                 ELSE {Notifications!General}
            \/ /\ plan.kind = "chats" /\ plan.to \subseteq Operators /\ e.type # "plain"
               /\ Owed(e, ops) = IF ops \cap plan.to = {} THEN {}
                                 ELSE Notifications!Range(Notifications!Render(e, ops \cap plan.to))
  <1> DEFINE plan == Notifications!PlanOf(e)
  <1>1. CASE e.type = "plain"
    <2>1. e.whom \in Notifications!Audience
      BY <1>1, EventShapes
    <2>2. plan.kind = "broadcast" /\ plan.to = {e.whom}
      BY <1>1 DEF Notifications!PlanOf, Notifications!Broadcast
    <2>3. Notifications!About(e) = {}
      BY <1>1 DEF Notifications!About
    <2>4. Notifications!Concerned(e, ops) <=> e.whom \in ops \cup {everyone}
      BY <1>1 DEF Notifications!Concerned
    <2> QED
      BY <2>1, <2>2, <2>3, <2>4 DEF Owed
  <1>2. CASE e.type = "figures"
    <2>1. e.about \subseteq Operators
      BY <1>2, EventShapes
    <2>2. Notifications!About(e) = e.about
      BY <1>2 DEF Notifications!About
    <2>3. Notifications!Concerned(e, ops) <=> ops \cap e.about # {}
      BY <1>2 DEF Notifications!Concerned
    <2>4. Owed(e, ops) = IF ops \cap e.about = {} THEN {} ELSE {ops \cap e.about}
      BY <1>2, <2>2, <2>3 DEF Owed
    <2>5. CASE e.about = {}
      BY <1>2, <2>4, <2>5 DEF Notifications!PlanOf, Notifications!Nothing
    <2>6. CASE e.about # {}
      <3>1. plan.kind = "chats" /\ plan.to = e.about
        BY <1>2, <2>6 DEF Notifications!PlanOf, Notifications!PerChat
      <3>2. Notifications!Range(Notifications!Render(e, ops \cap e.about)) = {ops \cap e.about}
        BY <1>2, RenderIs
      <3> QED
        BY <1>2, <2>1, <2>4, <3>1, <3>2
    <2> QED
      BY <2>5, <2>6
  <1>3. CASE e.type = "report"
    <2>1. /\ e.rewards \in BOOLEAN /\ e.fetched \in BOOLEAN
          /\ e.listed \subseteq Operators /\ e.about \subseteq e.listed
          /\ e.fetched \/ e.listed = {}
      BY <1>3, EventShapes
    <2>2. Notifications!About(e) = e.about
      BY <1>3 DEF Notifications!About
    <2>3. Notifications!Concerned(e, ops)
            <=> \/ ops \cap e.about # {}
                \/ e.rewards /\ (e.listed = {} \/ ops \cap e.listed # {})
      BY <1>3 DEF Notifications!Concerned
    <2>4. plan = Notifications!ReportPlan(e)
      BY <1>3 DEF Notifications!PlanOf
    <2>5. CASE ~e.rewards
      <3>1. Owed(e, ops) = {{o} : o \in ops \cap e.about}
        BY <1>3, <2>2, <2>3, <2>5 DEF Owed
      <3>2. CASE e.about = {}
        <4>1. plan.kind = "none"
          BY <2>4, <2>5, <3>2 DEF Notifications!ReportPlan, Notifications!Nothing
        <4>2. Owed(e, ops) = {}
          BY <3>1, <3>2
        <4> QED
          BY <4>1, <4>2
      <3>3. CASE e.about # {}
        <4>1. plan.kind = "operators" /\ plan.to = e.about
          BY <2>4, <2>5, <3>3 DEF Notifications!ReportPlan, Notifications!PerOperator
        <4> QED
          BY <2>1, <3>1, <4>1
      <3> QED
        BY <3>2, <3>3
    <2>6. CASE e.rewards /\ e.about # {} /\ e.fetched
      <3>1. plan.kind = "chats" /\ plan.to = e.listed
        BY <2>1, <2>4, <2>6 DEF Notifications!ReportPlan, Notifications!PerChat
      <3> DEFINE mine == ops \cap e.listed
      <3>2. mine \cap e.about = ops \cap e.about /\ e.listed # {}
        BY <2>1, <2>6
      <3>3. Notifications!Range(Notifications!Render(e, mine))
              = IF ops \cap e.about = {} THEN {Notifications!General}
                ELSE {{o} : o \in ops \cap e.about}
        <4>1. e.type # "plain" /\ e.type # "figures" /\ mine \in SUBSET Operators
          BY <1>3
        <4>2. Notifications!Range(Notifications!Render(e, mine))
                = IF mine \cap e.about = {} THEN {Notifications!General}
                  ELSE {{o} : o \in mine \cap e.about}
          BY <4>1, RenderIs
        <4> QED
          BY <3>2, <4>2
      <3>4. Notifications!Concerned(e, ops) <=> mine # {}
        BY <2>1, <2>3, <2>6, <3>2
      <3>5. Owed(e, ops) = IF mine = {} THEN {}
                           ELSE IF ops \cap e.about = {} THEN {Notifications!General}
                           ELSE {{o} : o \in ops \cap e.about}
        BY <1>3, <2>2, <3>4 DEF Owed
      <3> QED
        BY <1>3, <2>1, <3>1, <3>3, <3>5
    <2>7. CASE e.rewards /\ ~(e.about # {} /\ e.fetched)
      <3>1. e.about = {}
        BY <2>1, <2>7
      <3>2. Owed(e, ops) = IF e.listed = {} \/ ops \cap e.listed # {}
                           THEN {Notifications!General} ELSE {}
        BY <2>2, <2>3, <2>7, <3>1 DEF Owed
      <3>3. CASE e.listed = {}
        <4>1. plan.kind = "broadcast" /\ plan.to = {everyone}
          BY <2>1, <2>4, <2>7, <3>1, <3>3 DEF Notifications!ReportPlan, Notifications!Broadcast
        <4> QED
          BY <3>2, <3>3, <4>1 DEF Notifications!Audience
      <3>4. CASE e.listed # {}
        <4>1. plan.kind = "broadcast" /\ plan.to = e.listed
          BY <2>1, <2>4, <2>7, <3>1, <3>4 DEF Notifications!ReportPlan, Notifications!Broadcast
        <4>2. everyone \notin e.listed
          BY <2>1, PartsAssumption DEF Notifications!DeliveryAssumption
        <4> QED
          BY <2>1, <3>2, <3>4, <4>1, <4>2 DEF Notifications!Audience
      <3> QED
        BY <3>3, <3>4
    <2> QED
      BY <2>1, <2>5, <2>6, <2>7
  <1> QED
    BY <1>1, <1>2, <1>3, EventShapes

(* A queue with an entry for each of some chats.                             *)
Entries(T, F) == {Notifications!Entry(d, F[d]) : d \in T}

LEMMA EntriesAre ==
  ASSUME NEW T \in SUBSET Recipients, NEW F \in [T -> Lists]
  PROVE  /\ Entries(T, F) \in SUBSET [chat : Recipients, messages : Lists]
         /\ \A x, y \in Entries(T, F) : x.chat = y.chat => x = y
         /\ \A c \in Recipients :
              UNION {Notifications!Range(x.messages) : x \in {y \in Entries(T, F) : y.chat = c}}
                = IF c \in T THEN Notifications!Range(F[c]) ELSE {}
  <1>1. \A d \in T : /\ Notifications!Entry(d, F[d]).chat = d
                     /\ Notifications!Entry(d, F[d]).messages = F[d]
                     /\ Notifications!Entry(d, F[d]) \in [chat : Recipients, messages : Lists]
    BY DEF Notifications!Entry
  <1>2. \A x \in Entries(T, F) : x.chat \in T /\ x = Notifications!Entry(x.chat, F[x.chat])
                                 /\ x.messages = F[x.chat]
    BY <1>1 DEF Entries
  <1>3. Entries(T, F) \in SUBSET [chat : Recipients, messages : Lists]
    BY <1>1 DEF Entries
  <1>4. \A x, y \in Entries(T, F) : x.chat = y.chat => x = y
    BY <1>2
  <1>5. ASSUME NEW c \in Recipients
        PROVE  UNION {Notifications!Range(x.messages) : x \in {y \in Entries(T, F) : y.chat = c}}
                 = IF c \in T THEN Notifications!Range(F[c]) ELSE {}
    <2>1. CASE c \in T
      <3>1. {y \in Entries(T, F) : y.chat = c} = {Notifications!Entry(c, F[c])}
        BY <1>1, <1>2, <2>1 DEF Entries
      <3> QED
        BY <1>1, <2>1, <3>1
    <2>2. CASE c \notin T
      <3>1. {y \in Entries(T, F) : y.chat = c} = {}
        BY <1>2, <2>2
      <3> QED
        BY <2>2, <3>1
    <2> QED
      BY <2>1, <2>2
  <1> QED
    BY <1>3, <1>4, <1>5


Following(c) == {o \in Operators : c \in follows[o]}

(* What a delivery starts with.                                              *)
LEMMA StartOfDelivery ==
  ASSUME DeliveryType, NEW e \in Notifications!Events, Notifications!HandleEventLog(e)
  PROVE  \E T \in SUBSET known : \E F \in [T -> Lists] :
           /\ delivery'.event = e /\ delivery'.actual = known
           /\ delivery'.queue = Entries(T, F)
           /\ delivery'.left \subseteq Operators /\ (T # {} => delivery'.left = {})
           /\ delivery' \in [event : {e}, kind : {"none", "broadcast", "operators", "chats"},
                             actual : SUBSET Recipients, left : SUBSET Operators,
                             queue : {Entries(T, F)}]
           /\ \A c \in T : \A m \in Notifications!Range(F[c]) : m \subseteq Following(c)
           /\ \A c \in known :
                (IF c \in T THEN Notifications!Range(F[c]) ELSE {})
                    \cup {{o} : o \in Following(c) \cap delivery'.left}
                  = Owed(e, Following(c))
  <1> DEFINE plan == Notifications!PlanOf(e)
             left == IF plan.kind = "operators" THEN plan.to ELSE {}
             queue == CASE plan.kind = "broadcast" ->
                             {Notifications!Entry(c, <<Notifications!General>>) :
                                c \in Notifications!Targets(plan.to)}
                        [] plan.kind = "chats" -> Notifications!ByChat(e, plan.to)
                        [] OTHER -> {}
             started(T, F) ==
               /\ T \in SUBSET known /\ F \in [T -> Lists]
               /\ queue = Entries(T, F) /\ left \subseteq Operators /\ (T # {} => left = {})
               /\ \A c \in T : \A m \in Notifications!Range(F[c]) : m \subseteq Following(c)
               /\ \A c \in known :
                    (IF c \in T THEN Notifications!Range(F[c]) ELSE {})
                        \cup {{o} : o \in Following(c) \cap left}
                      = Owed(e, Following(c))
  <1>1. delivery' = [event |-> e, kind |-> plan.kind, actual |-> known, left |-> left,
                     queue |-> queue]
    BY DEF Notifications!HandleEventLog
  <1>2. known \in SUBSET Recipients /\ \A c : Following(c) \in SUBSET Operators
    BY DEF DeliveryType, Following
  <1>3. \A ops \in SUBSET Operators :
          \/ plan.kind = "none" /\ Owed(e, ops) = {}
          \/ /\ plan.kind = "operators" /\ plan.to \subseteq Operators
             /\ Owed(e, ops) = {{o} : o \in ops \cap plan.to}
          \/ /\ plan.kind = "broadcast" /\ plan.to \subseteq Notifications!Audience
             /\ Owed(e, ops) = IF (ops \cup {everyone}) \cap plan.to = {} THEN {}
                               ELSE {Notifications!General}
          \/ /\ plan.kind = "chats" /\ plan.to \subseteq Operators /\ e.type # "plain"
             /\ Owed(e, ops) = IF ops \cap plan.to = {} THEN {}
                               ELSE Notifications!Range(Notifications!Render(e, ops \cap plan.to))
    BY PlanOwes
  <1> HIDE DEF plan
  <1>4. \A to : \A c : c \in Notifications!Targets(to)
                 <=> c \in known /\ \E a \in to : c \in Notifications!Members(a, known, follows)
    <2> SUFFICES ASSUME NEW to, NEW c
                 PROVE  c \in Notifications!Targets(to)
                          <=> /\ c \in known
                              /\ \E a \in to : c \in Notifications!Members(a, known, follows)
      OBVIOUS
    <2> DEFINE members(a) == Notifications!Members(a, known, follows)
    <2>1. Notifications!Targets(to) = (UNION {members(a) : a \in to}) \cap known
      BY DEF Notifications!Targets
    <2> HIDE DEF members
    <2>2. c \in Notifications!Targets(to) <=> c \in known /\ \E a \in to : c \in members(a)
      BY <2>1
    <2> QED
      BY <2>2 DEF members
  <1>5. ASSUME plan.kind \in {"none", "operators"}
        PROVE  \E T, F : started(T, F)
    <2> DEFINE T == {}
               F == [c \in T |-> <<>>]
    <2>1. queue = {} /\ Entries(T, F) = {}
      BY <1>5 DEF Entries
    <2>2. F \in [T -> Lists]
      OBVIOUS
    <2>3. plan.kind = "operators" => plan.to \subseteq Operators
      BY <1>3
    <2>4. \A c \in known :
            {{o} : o \in Following(c) \cap left} = Owed(e, Following(c))
      <3>1. CASE plan.kind = "none"
        <4>1. left = {} /\ \A c : Owed(e, Following(c)) = {}
          BY <1>2, <1>3, <3>1
        <4> QED
          BY <4>1
      <3>2. CASE plan.kind = "operators"
        <4>1. left = plan.to /\ \A c : Owed(e, Following(c)) = {{o} : o \in Following(c) \cap plan.to}
          BY <1>2, <1>3, <3>2
        <4> QED
          BY <4>1
      <3> QED
        BY <1>5, <3>1, <3>2
    <2>5. started(T, F)
      <3> HIDE DEF F
      <3> QED
        BY <2>1, <2>2, <2>3, <2>4
    <2> QED
      BY <2>5
  <1>6. ASSUME plan.kind = "broadcast"
        PROVE  \E T, F : started(T, F)
    <2> DEFINE T == Notifications!Targets(plan.to)
               F == [c \in T |-> <<Notifications!General>>]
    <2>0. Notifications!General \in Messages /\ Notifications!General = {}
      BY DEF Notifications!General, Messages
    <2>1. F \in [T -> Lists] /\ \A c \in T : Notifications!Range(F[c]) = {Notifications!General}
      BY <2>0, OnlyOne
    <2>2. queue = Entries(T, F)
      BY <1>6 DEF Entries
    <2>3. left = {}
      BY <1>6
    <2>4. plan.to \subseteq Notifications!Audience
      BY <1>3, <1>6
    <2>5. \A c \in known : c \in T <=> (Following(c) \cup {everyone}) \cap plan.to # {}
      BY <1>4, <2>4 DEF Notifications!Members, Notifications!Audience, Following
    <2>6. T \subseteq known
      BY <1>4
    <2>7. \A c : Owed(e, Following(c))
                   = IF (Following(c) \cup {everyone}) \cap plan.to = {} THEN {}
                     ELSE {Notifications!General}
      BY <1>2, <1>3, <1>6
    <2>8. started(T, F)
      <3> HIDE DEF F, T, queue
      <3>1. \A c \in known :
              (IF c \in T THEN Notifications!Range(F[c]) ELSE {})
                  \cup {{o} : o \in Following(c) \cap left}
                = Owed(e, Following(c))
        <4> SUFFICES ASSUME NEW c \in known
                     PROVE  (IF c \in T THEN Notifications!Range(F[c]) ELSE {})
                              = Owed(e, Following(c))
          BY <2>3
        <4> QED
          BY <2>1, <2>5, <2>7
      <3>2. \A c \in T : \A m \in Notifications!Range(F[c]) : m \subseteq Following(c)
        BY <2>0, <2>1
      <3> QED
        BY <2>1, <2>2, <2>3, <2>6, <3>1, <3>2
    <2> QED
      BY <2>8
  <1>7. ASSUME plan.kind = "chats"
        PROVE  \E T, F : started(T, F)
    <2> DEFINE T == Notifications!Targets(plan.to)
               F == [c \in T |-> Notifications!Render(e, Following(c) \cap plan.to)]
    <2>0. plan.to \subseteq Operators /\ e.type # "plain"
          /\ \A c : Owed(e, Following(c)) =
                      IF Following(c) \cap plan.to = {} THEN {}
                      ELSE Notifications!Range(Notifications!Render(e, Following(c) \cap plan.to))
      BY <1>2, <1>3, <1>7
    <2>1. F \in [T -> Lists]
      <3>1. \A c : Following(c) \cap plan.to \in SUBSET Operators
        BY <1>2
      <3> QED
        BY <2>0, <3>1, RenderIs
    <2>2. queue = Entries(T, F)
      <3>1. queue = Notifications!ByChat(e, plan.to)
        BY <1>7
      <3>2. \A c : Notifications!Following(c) = Following(c)
        BY DEF Notifications!Following, Following
      <3> QED
        BY <3>1, <3>2 DEF Entries, Notifications!ByChat
    <2>3. left = {}
      BY <1>7
    <2>4. everyone \notin plan.to
      BY <2>0, PartsAssumption DEF Notifications!DeliveryAssumption
    <2>5. \A c \in known : c \in T <=> Following(c) \cap plan.to # {}
      BY <1>4, <2>0, <2>4 DEF Notifications!Members, Following
    <2>6. T \subseteq known
      BY <1>4
    <2>7. \A c \in T : Notifications!Range(F[c]) = Owed(e, Following(c))
      BY <2>0, <2>5, <2>6
    <2>8. \A c \in T : \A m \in Notifications!Range(F[c]) : m \subseteq Following(c)
      <3> SUFFICES ASSUME NEW c \in T, NEW m \in Notifications!Range(F[c])
                   PROVE  m \subseteq Following(c)
        OBVIOUS
      <3> DEFINE ops == Following(c) \cap plan.to
      <3>1. ops \in SUBSET Operators
        BY <1>2
      <3>2. m \in IF e.type = "figures" THEN {ops}
                  ELSE IF ops \cap e.about = {} THEN {Notifications!General}
                  ELSE {{o} : o \in ops \cap e.about}
        <4>1. F[c] = Notifications!Render(e, ops)
          OBVIOUS
        <4> HIDE DEF F, ops
        <4> QED
          BY <2>0, <3>1, <4>1, RenderIs
      <3> QED
        BY <3>2 DEF Notifications!General
    <2>9. started(T, F)
      <3> HIDE DEF F, T, queue
      <3>1. \A c \in known :
              (IF c \in T THEN Notifications!Range(F[c]) ELSE {})
                  \cup {{o} : o \in Following(c) \cap left}
                = Owed(e, Following(c))
        <4> SUFFICES ASSUME NEW c \in known
                     PROVE  (IF c \in T THEN Notifications!Range(F[c]) ELSE {})
                              = Owed(e, Following(c))
          BY <2>3
        <4> QED
          BY <2>0, <2>5, <2>7
      <3> QED
        BY <2>1, <2>2, <2>3, <2>6, <2>8, <3>1
    <2> QED
      BY <2>9
  <1>8. plan.kind \in {"none", "operators", "broadcast", "chats"}
    BY <1>2, <1>3
  <1>9. PICK T, F : started(T, F)
    BY <1>5, <1>6, <1>7, <1>8
  <1> HIDE DEF left, queue
  <1>10. /\ delivery'.event = e /\ delivery'.actual = known /\ delivery'.left = left
         /\ delivery'.queue = queue
         /\ delivery' \in [event : {e}, kind : {"none", "broadcast", "operators", "chats"},
                           actual : SUBSET Recipients, left : SUBSET Operators,
                           queue : {Entries(T, F)}]
    BY <1>1, <1>2, <1>8, <1>9
  <1> QED
    BY <1>9, <1>10


LEMMA HandleKeeps ==
  ASSUME DeliveryInv, NEW e \in Notifications!Events, Notifications!HandleEventLog(e)
  PROVE  DeliveryInv'
  <1>1. PICK T \in SUBSET known : \E F \in [T -> Lists] :
           /\ delivery'.event = e /\ delivery'.actual = known
           /\ delivery'.queue = Entries(T, F)
           /\ delivery'.left \subseteq Operators /\ (T # {} => delivery'.left = {})
           /\ delivery' \in [event : {e}, kind : {"none", "broadcast", "operators", "chats"},
                             actual : SUBSET Recipients, left : SUBSET Operators,
                             queue : {Entries(T, F)}]
           /\ \A c \in T : \A m \in Notifications!Range(F[c]) : m \subseteq Following(c)
           /\ \A c \in known :
                (IF c \in T THEN Notifications!Range(F[c]) ELSE {})
                    \cup {{o} : o \in Following(c) \cap delivery'.left}
                  = Owed(e, Following(c))
    BY StartOfDelivery DEF DeliveryInv
  <1>2. PICK F \in [T -> Lists] :
           /\ delivery'.event = e /\ delivery'.actual = known
           /\ delivery'.queue = Entries(T, F)
           /\ delivery'.left \subseteq Operators /\ (T # {} => delivery'.left = {})
           /\ delivery' \in [event : {e}, kind : {"none", "broadcast", "operators", "chats"},
                             actual : SUBSET Recipients, left : SUBSET Operators,
                             queue : {Entries(T, F)}]
           /\ \A c \in T : \A m \in Notifications!Range(F[c]) : m \subseteq Following(c)
           /\ \A c \in known :
                (IF c \in T THEN Notifications!Range(F[c]) ELSE {})
                    \cup {{o} : o \in Following(c) \cap delivery'.left}
                  = Owed(e, Following(c))
    BY <1>1
  <1>3. /\ known' = known /\ follows' = follows /\ told' = [c \in Recipients |-> <<>>]
        /\ steady' = [a \in Notifications!Audience |-> Notifications!Members(a, known, follows)]
        /\ ever' = steady'
    BY DEF Notifications!HandleEventLog, Notifications!subscriptions
  <1>4. known \in SUBSET Recipients /\ follows \in [Operators -> SUBSET Recipients]
    BY DEF DeliveryInv, DeliveryType
  <1>5. \A a \in Notifications!Audience :
          Notifications!Members(a, known, follows) \in SUBSET Recipients
    BY <1>4 DEF Notifications!Members, Notifications!Audience
  <1>6. /\ everyone \in Notifications!Audience /\ steady'[everyone] = known
        /\ \A o \in Operators : o \in Notifications!Audience /\ steady'[o] = follows[o]
    <2>1. everyone \notin Operators
      BY PartsAssumption DEF Notifications!DeliveryAssumption
    <2> QED
      BY <1>3, <2>1 DEF Notifications!Audience, Notifications!Members
  <1>7. T \in SUBSET Recipients
    BY <1>1, <1>4
  <1>8. \A c \in Recipients :
          /\ Said(c)' = {}
          /\ Waiting(c)' = IF c \in T THEN Notifications!Range(F[c]) ELSE {}
    <2>1. \A c \in Recipients : told'[c] = <<>>
      BY <1>3
    <2>2. Notifications!Range(<<>>) = {}
      BY DEF Notifications!Range
    <2>3. \A c \in Recipients :
            UNION {Notifications!Range(x.messages) : x \in {y \in Entries(T, F) : y.chat = c}}
              = IF c \in T THEN Notifications!Range(F[c]) ELSE {}
      BY <1>7, EntriesAre
    <2>4. \A c \in Recipients :
            Waiting(c)' = UNION {Notifications!Range(x.messages) :
                                   x \in {y \in Entries(T, F) : y.chat = c}}
      BY <1>2 DEF Waiting
    <2> QED
      BY <2>1, <2>2, <2>3, <2>4 DEF Said
  <1>9. DeliveryType'
    <2>1. /\ Entries(T, F) \in SUBSET [chat : Recipients, messages : Lists]
          /\ \A x, y \in Entries(T, F) : x.chat = y.chat => x = y
      BY <1>7, EntriesAre
    <2>2. delivery' \in [event : Notifications!Events,
                         kind : {"none", "broadcast", "operators", "chats"},
                         actual : SUBSET Recipients, left : SUBSET Operators,
                         queue : SUBSET [chat : Recipients, messages : Lists]]
      BY <1>2, <2>1
    <2>3. told' \in [Recipients -> Seq(Messages)]
      BY <1>3
    <2>4. steady' \in [Notifications!Audience -> SUBSET Recipients] /\ ever' = steady'
      BY <1>3, <1>5
    <2> QED
      BY <1>2, <1>3, <1>4, <2>1, <2>2, <2>3, <2>4 DEF DeliveryType
  <1>10. SaidOnce'
    <2>1. \A c \in Recipients : Notifications!IsInjective(told'[c])
      BY <1>3 DEF Notifications!IsInjective
    <2>2. \A c \in Recipients : Waiting(c)' # {} => delivery'.left = {}
      BY <1>2, <1>8
    <2> QED
      BY <1>8, <2>1, <2>2 DEF SaidOnce
  <1>11. Bracketed'
    BY <1>2, <1>3, <1>6 DEF Bracketed
  <1>12. Entitled'
    <2> SUFFICES ASSUME NEW c \in Recipients, NEW m \in Said(c)' \cup Waiting(c)'
                 PROVE  c \in ever'[everyone] /\ \A o \in m : c \in ever'[o]
      BY DEF Entitled
    <2>1. c \in T /\ m \in Notifications!Range(F[c])
      BY <1>8
    <2>2. m \subseteq Following(c)
      BY <1>2, <2>1
    <2> QED
      BY <1>1, <1>3, <1>6, <2>1, <2>2 DEF Following
  <1>13. AllIsSaid'
    <2> SUFFICES ASSUME NEW c \in Recipients, Quiet(c)'
                 PROVE  Said(c)' \cup Waiting(c)' \cup {{o} : o \in Ops(c)' \cap delivery'.left}
                          = Owed(e, Ops(c)')
      BY <1>2 DEF AllIsSaid, Owed
    <2>1. c \in known
      BY <1>6 DEF Quiet
    <2>2. Ops(c)' = Following(c)
      BY <1>6 DEF Ops, Following
    <2> QED
      BY <1>2, <1>8, <2>1, <2>2
  <1> QED
    BY <1>9, <1>10, <1>11, <1>12, <1>13 DEF DeliveryInv

(* A chat's own messages wait in one entry.                                  *)
LEMMA WaitingIs ==
  ASSUME DeliveryType, NEW x \in delivery.queue
  PROVE  /\ x.chat \in Recipients /\ x.messages \in Lists
         /\ x = Notifications!Entry(x.chat, x.messages)
         /\ Waiting(x.chat) = Notifications!Range(x.messages)
  <1>1. x \in [chat : Recipients, messages : Lists]
    BY DEF DeliveryType
  <1>2. {y \in delivery.queue : y.chat = x.chat} = {x}
    BY DEF DeliveryType
  <1>3. Waiting(x.chat) = Notifications!Range(x.messages)
    BY <1>2 DEF Waiting
  <1> QED
    BY <1>1, <1>3 DEF Notifications!Entry

LEMMA SendKeeps ==
  ASSUME DeliveryInv, NEW x, Notifications!Send(x)
  PROVE  DeliveryInv'
  <1> DEFINE d == x.chat
             m == Head(x.messages)
             rest == Tail(x.messages)
             new == Notifications!Entry(d, rest)
  <1>0. DeliveryType /\ x \in delivery.queue
    BY DEF DeliveryInv, Notifications!Send
  <1>1. /\ d \in Recipients /\ x.messages \in Lists
        /\ Waiting(d) = Notifications!Range(x.messages)
    BY <1>0, WaitingIs
  <1>2. /\ m \in Messages
        /\ Notifications!Range(x.messages) = {m} \cup Notifications!Range(rest)
        /\ m \notin Notifications!Range(rest)
        /\ Len(x.messages) = 1 => Notifications!Range(rest) = {}
        /\ Len(x.messages) # 1 => rest \in Lists
    BY <1>1, HeadAndTail
  <1>3. /\ told' = [told EXCEPT ![d] = Append(told[d], m)]
        /\ delivery' = [delivery EXCEPT !.queue = (delivery.queue \ {x}) \cup Notifications!Remaining(x)]
        /\ UNCHANGED <<known, follows, steady, ever>>
    BY DEF Notifications!Send, Notifications!subscriptions, Notifications!history
  <1>4. /\ delivery' \in [event : Notifications!Events,
                          kind : {"none", "broadcast", "operators", "chats"},
                          actual : SUBSET Recipients, left : SUBSET Operators,
                          queue : {(delivery.queue \ {x}) \cup Notifications!Remaining(x)}]
        /\ delivery'.event = delivery.event /\ delivery'.actual = delivery.actual
        /\ delivery'.left = delivery.left
    BY <1>0, <1>3 DEF DeliveryType
  <1>5. \/ Len(x.messages) = 1 /\ delivery'.queue = delivery.queue \ {x}
        \/ /\ Len(x.messages) # 1 /\ delivery'.queue = (delivery.queue \ {x}) \cup {new}
           /\ new.chat = d /\ new.messages = rest
           /\ new \in [chat : Recipients, messages : Lists]
    BY <1>1, <1>2, <1>4 DEF Notifications!Remaining, Notifications!Entry
  <1>6. \A y \in delivery.queue \ {x} : y.chat # d
    BY <1>0 DEF DeliveryType
  <1>7. /\ delivery'.queue \in SUBSET [chat : Recipients, messages : Lists]
        /\ \A y, z \in delivery'.queue : y.chat = z.chat => y = z
    <2>1. /\ delivery.queue \in SUBSET [chat : Recipients, messages : Lists]
          /\ \A y, z \in delivery.queue : y.chat = z.chat => y = z
      BY <1>0 DEF DeliveryType
    <2> HIDE DEF new, d
    <2> QED
      BY <1>5, <1>6, <2>1
  <1>8. /\ Waiting(d)' = Notifications!Range(rest)
        /\ \A c \in Recipients \ {d} : Waiting(c)' = Waiting(c)
    <2>1. CASE Len(x.messages) = 1
      <3>1. delivery'.queue = delivery.queue \ {x}
        BY <1>5, <2>1
      <3>2. {y \in delivery'.queue : y.chat = d} = {}
        BY <1>6, <3>1
      <3>3. \A c \in Recipients \ {d} :
              {y \in delivery'.queue : y.chat = c} = {y \in delivery.queue : y.chat = c}
        BY <3>1
      <3>4. Waiting(d)' = {}
        <4> HIDE DEF d
        <4> QED
          BY <3>2 DEF Waiting
      <3> HIDE DEF d
      <3> QED
        BY <1>2, <2>1, <3>3, <3>4 DEF Waiting
    <2>2. CASE Len(x.messages) # 1
      <3>1. delivery'.queue = (delivery.queue \ {x}) \cup {new} /\ new.chat = d /\ new.messages = rest
        BY <1>5, <2>2
      <3> HIDE DEF new
      <3>2. {y \in delivery'.queue : y.chat = d} = {new}
        BY <1>6, <3>1
      <3>3. \A c \in Recipients \ {d} :
              {y \in delivery'.queue : y.chat = c} = {y \in delivery.queue : y.chat = c}
        BY <3>1
      <3>4. Waiting(d)' = Notifications!Range(rest)
        <4>1. Waiting(d)' = UNION {Notifications!Range(y.messages) : y \in {new}}
          <5> HIDE DEF d
          <5> QED
            BY <3>2 DEF Waiting
        <4> QED
          BY <3>1, <4>1
      <3> HIDE DEF d
      <3> QED
        BY <3>3, <3>4 DEF Waiting
    <2> QED
      BY <2>1, <2>2
  <1>9. m \notin Said(d) /\ Notifications!IsInjective(told[d]) /\ told[d] \in Seq(Messages)
    BY <1>0, <1>1, <1>2 DEF DeliveryInv, DeliveryType, SaidOnce
  <1>10. /\ told'[d] = Append(told[d], m) /\ told' \in [Recipients -> Seq(Messages)]
         /\ Said(d)' = Said(d) \cup {m} /\ Notifications!IsInjective(told'[d])
         /\ \A c \in Recipients \ {d} : told'[c] = told[c] /\ Said(c)' = Said(c)
    <2>1. /\ Append(told[d], m) \in Seq(Messages)
          /\ Notifications!Range(Append(told[d], m)) = Notifications!Range(told[d]) \cup {m}
          /\ Notifications!IsInjective(Append(told[d], m))
      BY <1>2, <1>9, OneMore DEF Said
    <2>2. /\ told'[d] = Append(told[d], m)
          /\ \A c \in Recipients \ {d} : told'[c] = told[c]
          /\ told' \in [Recipients -> Seq(Messages)]
      <3> HIDE DEF d, m
      <3> QED
        BY <1>0, <1>1, <1>3, <2>1 DEF DeliveryType
    <2> HIDE DEF d, m
    <2> QED
      BY <2>1, <2>2 DEF Said
  <1>11. \A c \in Recipients : Said(c)' \cup Waiting(c)' = Said(c) \cup Waiting(c)
    <2>1. Said(d)' \cup Waiting(d)' = Said(d) \cup Waiting(d)
      BY <1>1, <1>2, <1>8, <1>10
    <2>2. \A c \in Recipients \ {d} : Said(c)' \cup Waiting(c)' = Said(c) \cup Waiting(c)
      BY <1>8, <1>10
    <2> HIDE DEF d
    <2> QED
      BY <2>1, <2>2
  <1>12. DeliveryType'
    BY <1>0, <1>3, <1>4, <1>7, <1>10 DEF DeliveryType
  <1>13. SaidOnce'
    <2>1. \A c \in Recipients :
            Notifications!IsInjective(told'[c]) /\ Said(c)' \cap Waiting(c)' = {}
      <3>1. Said(d)' \cap Waiting(d)' = {}
        BY <1>1, <1>2, <1>8, <1>10 DEF DeliveryInv, SaidOnce
      <3>2. \A c \in Recipients \ {d} :
              Notifications!IsInjective(told'[c]) /\ Said(c)' \cap Waiting(c)' = {}
        BY <1>8, <1>10 DEF DeliveryInv, SaidOnce
      <3> HIDE DEF d
      <3> QED
        BY <1>10, <3>1, <3>2
    <2> QED
      BY <1>4, <1>11, <2>1 DEF DeliveryInv, SaidOnce
  <1>14. Bracketed'
    <2>1. Notifications!Delivering
      BY <1>0 DEF Notifications!Delivering
    <2> QED
      BY <1>3, <1>4, <2>1 DEF DeliveryInv, Bracketed
  <1>15. Entitled'
    BY <1>3, <1>11 DEF DeliveryInv, Entitled
  <1>16. AllIsSaid'
    <2> SUFFICES ASSUME NEW c \in Recipients, Quiet(c)'
                 PROVE  Said(c)' \cup Waiting(c)' \cup {{o} : o \in Ops(c)' \cap delivery'.left}
                          = Owed(delivery'.event, Ops(c)')
      BY DEF AllIsSaid, Owed
    <2>1. Quiet(c) /\ Ops(c)' = Ops(c)
      BY <1>3 DEF Quiet, Ops
    <2>2. delivery # Notifications!Done
      BY <1>0 DEF Notifications!Done
    <2> QED
      BY <1>4, <1>11, <2>1, <2>2 DEF DeliveryInv, AllIsSaid
  <1> QED
    BY <1>12, <1>13, <1>14, <1>15, <1>16 DEF DeliveryInv


LEMMA OperatorKeeps ==
  ASSUME DeliveryInv, NEW o \in Operators, Notifications!DeliverToOperator(o)
  PROVE  DeliveryInv'
  <1> DEFINE T == follows[o] \cap delivery.actual
             F == [c \in T |-> <<{o}>>]
             left == delivery.left \ {o}
  <1>0. DeliveryType /\ delivery.queue = {} /\ o \in delivery.left
    BY DEF DeliveryInv, Notifications!DeliverToOperator
  <1>1. /\ UNCHANGED <<known, follows, told, steady, ever>>
        /\ delivery' = [delivery EXCEPT !.left = left,
                          !.queue = {Notifications!Entry(c, <<{o}>>) : c \in T}]
    BY DEF Notifications!DeliverToOperator, Notifications!subscriptions, Notifications!history
  <1>2. T \in SUBSET Recipients
    BY <1>0 DEF DeliveryType
  <1>3. {o} \in Messages
    BY DEF Messages
  <1>4. F \in [T -> Lists] /\ \A c \in T : Notifications!Range(F[c]) = {{o}}
    BY <1>3, OnlyOne
  <1>5. {Notifications!Entry(c, <<{o}>>) : c \in T} = Entries(T, F)
    BY DEF Entries
  <1>6. /\ delivery'.event = delivery.event /\ delivery'.actual = delivery.actual
        /\ delivery'.left = left /\ delivery'.queue = Entries(T, F)
        /\ delivery' \in [event : Notifications!Events,
                          kind : {"none", "broadcast", "operators", "chats"},
                          actual : SUBSET Recipients, left : SUBSET Operators,
                          queue : {Entries(T, F)}]
    <2> HIDE DEF F, T
    <2> QED
      BY <1>0, <1>1, <1>5 DEF DeliveryType
  <1>7. /\ Entries(T, F) \in SUBSET [chat : Recipients, messages : Lists]
        /\ \A x, y \in Entries(T, F) : x.chat = y.chat => x = y
        /\ \A c \in Recipients :
             UNION {Notifications!Range(x.messages) : x \in {y \in Entries(T, F) : y.chat = c}}
               = IF c \in T THEN {{o}} ELSE {}
    <2> HIDE DEF F, T
    <2> QED
      BY <1>2, <1>4, EntriesAre
  <1>8. \A c \in Recipients : /\ Said(c)' = Said(c) /\ Waiting(c) = {}
                              /\ Waiting(c)' = IF c \in T THEN {{o}} ELSE {}
    <2>1. \A c \in Recipients :
            Waiting(c)' = UNION {Notifications!Range(x.messages) :
                                   x \in {y \in Entries(T, F) : y.chat = c}}
      <3> HIDE DEF F, T
      <3> QED
        BY <1>6 DEF Waiting
    <2>2. \A c \in Recipients : Waiting(c) = {}
      BY <1>0 DEF Waiting
    <2>3. \A c \in Recipients : Said(c)' = Said(c)
      BY <1>1 DEF Said
    <2> HIDE DEF F, T
    <2> QED
      BY <1>7, <2>1, <2>2, <2>3
  <1> HIDE DEF F
  <1>9. DeliveryType'
    <2>1. delivery' \in [event : Notifications!Events,
                         kind : {"none", "broadcast", "operators", "chats"},
                         actual : SUBSET Recipients, left : SUBSET Operators,
                         queue : SUBSET [chat : Recipients, messages : Lists]]
      BY <1>6, <1>7
    <2> QED
      BY <1>0, <1>1, <1>6, <1>7, <2>1 DEF DeliveryType
  <1>10. SaidOnce'
    <2>1. \A c \in Recipients : {o} \notin Said(c)
      BY <1>0 DEF DeliveryInv, SaidOnce
    <2>2. \A c \in Recipients : Notifications!IsInjective(told'[c])
      BY <1>1 DEF DeliveryInv, SaidOnce
    <2>3. \A p \in left : {p} # {o} /\ \A c \in Recipients : {p} \notin Said(c)
      BY DEF DeliveryInv, SaidOnce
    <2>4. \A c \in Recipients : Said(c)' \cap Waiting(c)' = {}
      BY <1>8, <2>1
    <2>5. \A c \in Recipients : \A p \in left : {p} \notin Said(c)' \cup Waiting(c)'
      <3> SUFFICES ASSUME NEW c \in Recipients, NEW p \in left
                   PROVE  {p} \notin Said(c)' \cup Waiting(c)'
        OBVIOUS
      <3>1. {p} # {o} /\ {p} \notin Said(c)
        BY <2>3
      <3>2. Said(c)' \cup Waiting(c)' \subseteq Said(c) \cup {{o}}
        BY <1>8
      <3> QED
        BY <3>1, <3>2
    <2> HIDE DEF left
    <2> QED
      BY <1>6, <2>2, <2>4, <2>5 DEF SaidOnce
  <1>11. Notifications!Delivering
    BY <1>0 DEF Notifications!Delivering
  <1>12. Bracketed'
    BY <1>1, <1>6, <1>11 DEF DeliveryInv, Bracketed
  <1>13. o \in Notifications!Audience /\ Notifications!Members(o, known, follows) = follows[o]
    <2>1. o # everyone
      BY PartsAssumption DEF Notifications!DeliveryAssumption
    <2> QED
      BY <2>1 DEF Notifications!Audience, Notifications!Members
  <1>14. Entitled'
    <2> SUFFICES ASSUME NEW c \in Recipients, NEW m \in Said(c)' \cup Waiting(c)'
                 PROVE  c \in ever[everyone] /\ \A p \in m : c \in ever[p]
      BY <1>1 DEF Entitled
    <2>1. CASE m \in Said(c)
      BY <2>1 DEF DeliveryInv, Entitled
    <2>2. CASE m = {o} /\ c \in T
      BY <1>11, <1>13, <2>2 DEF DeliveryInv, Bracketed
    <2> QED
      BY <1>8, <2>1, <2>2
  <1>15. AllIsSaid'
    <2> SUFFICES ASSUME NEW c \in Recipients, Quiet(c)'
                 PROVE  Said(c)' \cup Waiting(c)' \cup {{p} : p \in Ops(c)' \cap delivery'.left}
                          = Owed(delivery'.event, Ops(c)')
      BY DEF AllIsSaid, Owed
    <2>1. Quiet(c) /\ Ops(c)' = Ops(c)
      BY <1>1 DEF Quiet, Ops
    <2>2. delivery # Notifications!Done
      BY <1>0 DEF Notifications!Done
    <2>3. Said(c) \cup {{p} : p \in Ops(c) \cap delivery.left} = Owed(delivery.event, Ops(c))
      BY <1>8, <2>1, <2>2 DEF DeliveryInv, AllIsSaid
    <2>4. c \in T <=> o \in Ops(c)
      BY <1>11, <1>13, <2>1 DEF DeliveryInv, Bracketed, Quiet, Ops
    <2>5. {{p} : p \in Ops(c) \cap delivery.left}
            = (IF c \in T THEN {{o}} ELSE {}) \cup {{p} : p \in Ops(c) \cap left}
      BY <1>0, <2>4
    <2> QED
      BY <1>6, <1>8, <2>1, <2>3, <2>5
  <1> QED
    BY <1>9, <1>10, <1>12, <1>14, <1>15 DEF DeliveryInv

LEMMA ChangeKeeps ==
  ASSUME DeliveryInv, NEW k \in SUBSET Recipients, NEW f \in [Operators -> SUBSET Recipients],
         Notifications!Change(k, f)
  PROVE  DeliveryInv'
  <1>0. DeliveryType /\ Notifications!Delivering /\ delivery # Notifications!Done
    BY DEF DeliveryInv, Notifications!Change, Notifications!Delivering, Notifications!Done
  <1>1. /\ known' = k /\ follows' = f /\ UNCHANGED <<delivery, told>>
        /\ steady' = [a \in Notifications!Audience |->
                        steady[a] \cap Notifications!Members(a, k, f)]
        /\ ever' = [a \in Notifications!Audience |-> ever[a] \cup Notifications!Members(a, k, f)]
    BY DEF Notifications!Change
  <1>2. /\ \A a \in Notifications!Audience :
             /\ steady'[a] = steady[a] \cap Notifications!Members(a, k, f)
             /\ ever'[a] = ever[a] \cup Notifications!Members(a, k, f)
             /\ Notifications!Members(a, k, f) \in SUBSET Recipients
             /\ steady[a] \in SUBSET Recipients /\ ever[a] \in SUBSET Recipients
        /\ everyone \in Notifications!Audience /\ Operators \subseteq Notifications!Audience
    BY <1>0, <1>1 DEF DeliveryType, Notifications!Members, Notifications!Audience
  <1>3. \A c \in Recipients : Said(c)' = Said(c) /\ Waiting(c)' = Waiting(c)
    BY <1>1 DEF Said, Waiting
  <1>4. DeliveryType'
    <2>1. /\ steady' \in [Notifications!Audience -> SUBSET Recipients]
          /\ ever' \in [Notifications!Audience -> SUBSET Recipients]
      BY <1>1, <1>2
    <2> QED
      BY <1>0, <1>1, <2>1 DEF DeliveryType
  <1>5. SaidOnce'
    BY <1>1, <1>3 DEF DeliveryInv, SaidOnce
  <1>6. Bracketed'
    <2>1. \A a \in Notifications!Audience : steady[a] \subseteq ever[a]
      BY DEF DeliveryInv, Bracketed
    <2>2. steady[everyone] \subseteq delivery.actual /\ delivery.actual \subseteq ever[everyone]
      BY <1>0 DEF DeliveryInv, Bracketed
    <2>3. \A a \in Notifications!Audience :
            /\ steady'[a] \subseteq ever'[a]
            /\ steady'[a] \subseteq Notifications!Members(a, k, f)
            /\ Notifications!Members(a, k, f) \subseteq ever'[a]
      BY <1>2, <2>1
    <2>4. steady'[everyone] \subseteq delivery.actual /\ delivery.actual \subseteq ever'[everyone]
      BY <1>2, <2>2
    <2> QED
      BY <1>1, <2>3, <2>4 DEF Bracketed
  <1>7. Entitled'
    <2> SUFFICES ASSUME NEW c \in Recipients, NEW m \in Said(c) \cup Waiting(c)
                 PROVE  c \in ever'[everyone] /\ \A o \in m : c \in ever'[o]
      BY <1>3 DEF Entitled
    <2>1. c \in ever[everyone] /\ \A o \in m : c \in ever[o]
      BY DEF DeliveryInv, Entitled
    <2>2. m \subseteq Operators
      <3>1. Said(c) \subseteq Messages
        BY <1>0 DEF DeliveryType, Said, Notifications!Range
      <3>2. Waiting(c) \subseteq Messages
        BY <1>0 DEF DeliveryType, Waiting, Lists, Notifications!Range
      <3> QED
        BY <3>1, <3>2 DEF Messages
    <2> QED
      BY <1>2, <2>1, <2>2
  <1>8. AllIsSaid'
    <2> SUFFICES ASSUME NEW c \in Recipients, Quiet(c)'
                 PROVE  Said(c)' \cup Waiting(c)' \cup {{o} : o \in Ops(c)' \cap delivery'.left}
                          = Owed(delivery'.event, Ops(c)')
      BY DEF AllIsSaid, Owed
    <2>1. \A a \in Notifications!Audience : steady[a] \subseteq ever[a]
      BY DEF DeliveryInv, Bracketed
    <2>2. Quiet(c)
      BY <1>2, <2>1 DEF Quiet
    <2>3. \A o \in Operators : c \in steady'[o] <=> c \in steady[o]
      BY <1>2, <2>1, <2>2 DEF Quiet
    <2>4. Ops(c)' = Ops(c)
      BY <2>3 DEF Ops
    <2> QED
      BY <1>0, <1>1, <1>3, <2>2, <2>4 DEF DeliveryInv, AllIsSaid
  <1> QED
    BY <1>4, <1>5, <1>6, <1>7, <1>8 DEF DeliveryInv


LEMMA DeliveryInvInit == Notifications!Init => DeliveryInv
  <1> SUFFICES ASSUME Notifications!Init
               PROVE  DeliveryInv
    OBVIOUS
  <1>1. /\ known \in SUBSET Recipients /\ follows \in [Operators -> SUBSET Recipients]
        /\ delivery = Notifications!Done /\ told = [c \in Recipients |-> <<>>]
        /\ steady = [a \in Notifications!Audience |-> {}] /\ ever = steady
    BY DEF Notifications!Init
  <1>2. /\ delivery.queue = {} /\ delivery.left = {}
        /\ delivery \in [event : Notifications!Events,
                         kind : {"none", "broadcast", "operators", "chats"},
                         actual : SUBSET Recipients, left : SUBSET Operators,
                         queue : SUBSET [chat : Recipients, messages : Lists]]
    <2>1. [type |-> "plain", whom |-> everyone] \in Notifications!Events
      BY DEF Notifications!Events, Notifications!Plain, Notifications!Audience
    <2> QED
      BY <1>1, <2>1 DEF Notifications!Done
  <1>3. \A c \in Recipients : told[c] = <<>> /\ Said(c) = {} /\ Waiting(c) = {}
    BY <1>1, <1>2 DEF Said, Waiting, Notifications!Range
  <1>4. DeliveryType
    BY <1>1, <1>2 DEF DeliveryType
  <1>5. SaidOnce
    BY <1>2, <1>3 DEF SaidOnce, Notifications!IsInjective
  <1>6. Bracketed
    BY <1>1, <1>2 DEF Bracketed, Notifications!Delivering
  <1>7. Entitled /\ AllIsSaid
    BY <1>1, <1>3 DEF Entitled, AllIsSaid
  <1> QED
    BY <1>4, <1>5, <1>6, <1>7 DEF DeliveryInv

LEMMA DeliveryInvStep ==
  DeliveryInv /\ [Notifications!Next]_(Notifications!vars) => DeliveryInv'
  <1> SUFFICES ASSUME DeliveryInv, [Notifications!Next]_(Notifications!vars)
               PROVE  DeliveryInv'
    OBVIOUS
  <1>1. known \in SUBSET Recipients /\ follows \in [Operators -> SUBSET Recipients]
    BY DEF DeliveryInv, DeliveryType
  <1>2. ASSUME NEW e \in Notifications!Events, Notifications!HandleEventLog(e)
        PROVE  DeliveryInv'
    BY <1>2, HandleKeeps
  <1>3. ASSUME NEW o \in Operators, Notifications!DeliverToOperator(o)
        PROVE  DeliveryInv'
    BY <1>3, OperatorKeeps
  <1>4. ASSUME NEW x \in delivery.queue, Notifications!Send(x)
        PROVE  DeliveryInv'
    BY <1>4, SendKeeps
  <1>5. ASSUME NEW c \in Recipients, Notifications!Join(c) \/ Notifications!Leave(c)
        PROVE  DeliveryInv'
    <2>1. \E k \in SUBSET Recipients : Notifications!Change(k, follows)
      <3>1. known \cup {c} \in SUBSET Recipients /\ known \ {c} \in SUBSET Recipients
        BY <1>1
      <3> QED
        BY <1>5, <3>1 DEF Notifications!Join, Notifications!Leave
    <2> QED
      BY <1>1, <2>1, ChangeKeeps
  <1>6. ASSUME NEW c \in Recipients, NEW o \in Operators,
               Notifications!Subscribe(c, o) \/ Notifications!Unsubscribe(c, o)
        PROVE  DeliveryInv'
    <2>1. \E f \in [Operators -> SUBSET Recipients] : Notifications!Change(known, f)
      <3>1. /\ [follows EXCEPT ![o] = follows[o] \cup {c}] \in [Operators -> SUBSET Recipients]
            /\ [follows EXCEPT ![o] = follows[o] \ {c}] \in [Operators -> SUBSET Recipients]
        BY <1>1
      <3> QED
        BY <1>6, <3>1 DEF Notifications!Subscribe, Notifications!Unsubscribe
    <2> QED
      BY <1>1, <2>1, ChangeKeeps
  <1>7. ASSUME NEW c \in Recipients, NEW new \in Recipients, Notifications!MigrateChatId(c, new)
        PROVE  DeliveryInv'
    <2>1. \A chats \in SUBSET Recipients :
            Notifications!Moved(chats, c, new) \in SUBSET Recipients
      BY DEF Notifications!Moved
    <2>2. [o \in Operators |-> Notifications!Moved(follows[o], c, new)]
            \in [Operators -> SUBSET Recipients]
      BY <1>1, <2>1
    <2>3. Notifications!Change(Notifications!Moved(known, c, new),
                               [o \in Operators |-> Notifications!Moved(follows[o], c, new)])
      BY <1>7 DEF Notifications!MigrateChatId
    <2> QED
      BY <1>1, <2>1, <2>2, <2>3, ChangeKeeps
  <1>8. CASE UNCHANGED Notifications!vars
    <2>1. UNCHANGED <<known, follows, delivery, told, steady, ever>>
      BY <1>8 DEF Notifications!vars, Notifications!subscriptions, Notifications!history
    <2>2. \A c : /\ Said(c)' = Said(c) /\ Waiting(c)' = Waiting(c)
                 /\ Quiet(c)' = Quiet(c) /\ Ops(c)' = Ops(c)
      BY <2>1 DEF Said, Waiting, Quiet, Ops
    <2>3. DeliveryType' /\ SaidOnce' /\ Bracketed' /\ Entitled'
      BY <2>1, <2>2
      DEF DeliveryInv, DeliveryType, SaidOnce, Bracketed, Entitled, Notifications!Delivering
    <2>4. AllIsSaid'
      <3> SUFFICES ASSUME NEW c \in Recipients, Quiet(c), delivery # Notifications!Done
                   PROVE  Said(c) \cup Waiting(c) \cup {{o} : o \in Ops(c) \cap delivery.left}
                            = Owed(delivery.event, Ops(c))
        BY <2>1, <2>2 DEF AllIsSaid, Owed
      <3> QED
        BY DEF DeliveryInv, AllIsSaid
    <2> QED
      BY <2>3, <2>4 DEF DeliveryInv
  <1> QED
    BY <1>2, <1>3, <1>4, <1>5, <1>6, <1>7, <1>8 DEF Notifications!Next

(* What a chat is owed: its operators each once, or the general message.     *)
TellsEach(messages, mine, concerned) ==
  /\ messages # {} <=> concerned
  /\ \A m \in messages : m \subseteq mine
  /\ \A o \in mine : \E m \in messages : o \in m /\ \A n \in messages : o \in n => n = m
  /\ Notifications!General \in messages => messages = {Notifications!General} /\ mine = {}

LEMMA OwedIs ==
  ASSUME NEW e, NEW ops \in SUBSET Operators, NEW mine, mine = ops \cap Notifications!About(e),
         mine # {} => Notifications!Concerned(e, ops)
  PROVE  TellsEach(Owed(e, ops), mine, Notifications!Concerned(e, ops))
  <1>1. Notifications!General = {}
    BY DEF Notifications!General
  <1>2. CASE ~Notifications!Concerned(e, ops)
    BY <1>2 DEF Owed, TellsEach
  <1>3. CASE Notifications!Concerned(e, ops) /\ mine = {}
    <2>1. Owed(e, ops) = {Notifications!General}
      BY <1>3 DEF Owed
    <2> QED
      BY <1>1, <1>3, <2>1 DEF TellsEach
  <1>4. CASE Notifications!Concerned(e, ops) /\ mine # {} /\ e.type = "figures"
    <2>1. Owed(e, ops) = {mine}
      BY <1>4 DEF Owed
    <2> QED
      BY <1>1, <1>4, <2>1 DEF TellsEach
  <1>5. CASE Notifications!Concerned(e, ops) /\ mine # {} /\ e.type # "figures"
    <2>1. Owed(e, ops) = {{o} : o \in mine}
      BY <1>5 DEF Owed
    <2>2. \A o \in mine : {o} \in Owed(e, ops) /\ \A n \in Owed(e, ops) : o \in n => n = {o}
      BY <2>1
    <2>3. \A o \in mine : \E m \in Owed(e, ops) :
            o \in m /\ \A n \in Owed(e, ops) : o \in n => n = m
      <3> SUFFICES ASSUME NEW o \in mine
                   PROVE  \E m \in Owed(e, ops) :
                            o \in m /\ \A n \in Owed(e, ops) : o \in n => n = m
        OBVIOUS
      <3>1. o \in {o} /\ {o} \in Owed(e, ops) /\ \A n \in Owed(e, ops) : o \in n => n = {o}
        BY <2>2
      <3> QED
        BY <3>1
    <2>4. \A m \in Owed(e, ops) : m \subseteq mine /\ m # {}
      BY <2>1
    <2>5. Owed(e, ops) # {}
      BY <1>5, <2>2
    <2> QED
      BY <1>1, <1>5, <2>3, <2>4, <2>5 DEF TellsEach
  <1> QED
    BY <1>2, <1>3, <1>4, <1>5

LEMMA OwedIsTold ==
  ASSUME DeliveryInv
  PROVE  Notifications!QuietChatIsTold
  <1> SUFFICES ASSUME ~Notifications!Delivering, NEW c \in Recipients,
                      \A a \in Notifications!Audience : c \in steady[a] <=> c \in ever[a],
                      c \in steady[everyone], delivery # Notifications!Done
               PROVE  LET ops == {o \in Operators : c \in steady[o]}
                          mine == ops \cap Notifications!About(delivery.event)
                          times(o) == Notifications!Cardinality(
                                        {i \in DOMAIN told[c] : o \in told[c][i]})
                      IN /\ \A o \in Operators : times(o) = IF o \in mine THEN 1 ELSE 0
                         /\ (told[c] # <<>>) <=> Notifications!Concerned(delivery.event, ops)
                         /\ Notifications!Contains(told[c], Notifications!General)
                              => Len(told[c]) = 1 /\ mine = {}
    BY DEF Notifications!QuietChatIsTold
  <1> DEFINE ops == Ops(c)
             mine == ops \cap Notifications!About(delivery.event)
             s == told[c]
  <1>1. s \in Seq(Messages) /\ Notifications!IsInjective(s)
        /\ delivery.event \in Notifications!Events
    BY DEF DeliveryInv, DeliveryType, SaidOnce
  <1>2. Notifications!Range(s) = Owed(delivery.event, ops)
    <2>1. Waiting(c) = {} /\ delivery.left = {}
      BY DEF Notifications!Delivering, Waiting
    <2>2. Quiet(c)
      BY DEF Quiet
    <2>3. Said(c) = Owed(delivery.event, ops)
      BY <2>1, <2>2 DEF DeliveryInv, AllIsSaid
    <2> QED
      BY <2>3 DEF Said
  <1>3. ops \in SUBSET Operators /\ ops = {o \in Operators : c \in steady[o]}
    BY DEF Ops
  <1>4. mine # {} => Notifications!Concerned(delivery.event, ops)
    BY <1>1, EventShapes DEF Notifications!About, Notifications!Concerned
  <1>5. /\ Notifications!Range(s) # {} <=> Notifications!Concerned(delivery.event, ops)
        /\ \A m \in Notifications!Range(s) : m \subseteq mine
        /\ \A o \in mine : \E m \in Notifications!Range(s) :
             o \in m /\ \A n \in Notifications!Range(s) : o \in n => n = m
        /\ Notifications!General \in Notifications!Range(s) =>
             Notifications!Range(s) = {Notifications!General} /\ mine = {}
    <2>1. mine = ops \cap Notifications!About(delivery.event)
      OBVIOUS
    <2> DEFINE owed == Owed(delivery.event, ops)
    <2> HIDE DEF mine, ops
    <2>2. TellsEach(owed, mine, Notifications!Concerned(delivery.event, ops))
      BY <1>3, <1>4, <2>1, OwedIs
    <2> HIDE DEF owed
    <2>3. Notifications!Range(s) = owed
      BY <1>2 DEF owed
    <2> QED
      BY <2>2, <2>3 DEF TellsEach
  <1>6. \A i \in DOMAIN s : s[i] \in Notifications!Range(s)
    BY DEF Notifications!Range
  <1>7. \A i, j \in DOMAIN s : s[i] = s[j] => i = j
    BY <1>1 DEF Notifications!IsInjective
  <1>8. \A m \in Notifications!Range(s) : \E i \in DOMAIN s : s[i] = m
    BY DEF Notifications!Range
  <1>9. ASSUME NEW o \in Operators
        PROVE  Notifications!Cardinality({i \in DOMAIN s : o \in s[i]})
                 = IF o \in mine THEN 1 ELSE 0
    <2> DEFINE at == {i \in DOMAIN s : o \in s[i]}
    <2>1. CASE o \in mine
      <3>1. PICK m \in Notifications!Range(s) :
              o \in m /\ \A n \in Notifications!Range(s) : o \in n => n = m
        BY <1>5, <2>1
      <3>2. PICK i \in DOMAIN s : s[i] = m
        BY <1>8
      <3>3. at = {i}
        BY <1>6, <1>7, <3>1, <3>2
      <3>4. Cardinality({i}) = 1
        BY FS_Singleton
      <3> QED
        BY <2>1, <3>3, <3>4, SameCount
    <2>2. CASE o \notin mine
      <3>1. at = {}
        BY <1>5, <1>6, <2>2
      <3> QED
        BY <2>2, <3>1, FS_EmptySet, SameCount
    <2> QED
      BY <2>1, <2>2
  <1>10. (s # <<>>) <=> Notifications!Range(s) # {}
    <2>1. s # <<>> => 1 \in DOMAIN s
      BY <1>1
    <2>2. s = <<>> => DOMAIN s = {}
      BY <1>1
    <2> QED
      BY <1>6, <1>8, <2>1, <2>2
  <1>11. ASSUME Notifications!Contains(s, Notifications!General)
         PROVE  Len(s) = 1 /\ mine = {}
    <2>1. /\ Notifications!General \in Notifications!Range(s)
          /\ Len(s) \in Nat \ {0} /\ DOMAIN s = 1..Len(s)
      <3>1. PICK i \in 1..Len(s) : s[i] = Notifications!General
        BY <1>11 DEF Notifications!Contains
      <3>2. Len(s) \in Nat /\ DOMAIN s = 1..Len(s)
        BY <1>1
      <3> QED
        BY <1>6, <3>1, <3>2
    <2>2. Notifications!Range(s) = {Notifications!General} /\ mine = {}
      BY <1>5, <2>1
    <2>3. 1 \in DOMAIN s /\ Len(s) \in DOMAIN s
      BY <2>1
    <2>4. s[1] = s[Len(s)]
      BY <1>6, <2>2, <2>3
    <2> QED
      BY <1>7, <2>2, <2>3, <2>4
  <1> QED
    BY <1>3, <1>5, <1>9, <1>10, <1>11

(* Whatever the chats do while a notification is delivered, one that changes *)
(* nothing gets what concerns it once and nothing else, and no chat gets a   *)
(* message twice or one it was at no moment entitled to                      *)
(* (telegram_adapters.py 71-141, base_events.py 302-359, storage.py          *)
(* 259-270).                                                                 *)
THEOREM EachChatItsOwn == Notifications!Spec => []ChatsGetTheirOwn
  <1>1. DeliveryInv => ChatsGetTheirOwn
    <2> SUFFICES ASSUME DeliveryInv
                 PROVE  ChatsGetTheirOwn
      OBVIOUS
    <2>1. Notifications!TypeOK
      <3>1. \A x \in delivery.queue : x.chat \in Recipients /\ x.messages # <<>>
        BY DEF DeliveryInv, DeliveryType, Lists
      <3> QED
        BY <3>1 DEF DeliveryInv, DeliveryType, Bracketed, Notifications!TypeOK
    <2>2. Notifications!NoMessageTwice
      BY DEF DeliveryInv, SaidOnce, Notifications!NoMessageTwice
    <2>3. Notifications!StrangersAreNotTold
      <3>1. \A c \in Recipients : \A i \in DOMAIN told[c] : told[c][i] \in Said(c)
        BY DEF Said, Notifications!Range
      <3> QED
        BY <3>1 DEF DeliveryInv, Entitled, Notifications!StrangersAreNotTold
    <2> QED
      BY <2>1, <2>2, <2>3, OwedIsTold DEF ChatsGetTheirOwn
  <1> QED
    BY <1>1, DeliveryInvInit, DeliveryInvStep, PTL DEF Notifications!Spec
=============================================================================
