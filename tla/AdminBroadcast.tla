--------------------------- MODULE AdminBroadcast ---------------------------
(***************************************************************************)
(* An admin's broadcast: choose all subscribers or some operators, enter a *)
(* message, see it copied back as a preview under a prompt that asks for   *)
(* the confirmation, confirm.  The bot keeps a session (the prompt, the    *)
(* selected operators, the preview) beside the state of the conversation;  *)
(* any Telegram call may raise and leave the two apart, any button shown   *)
(* before may be pressed, also twice, and the process may die and restart  *)
(* with a session that was written earlier.                                *)
(***************************************************************************)
EXTENDS Naturals, FiniteSets

CONSTANTS
  Operators, Chats,
  Followers,    \* the active chats that follow an operator
  MaxPreviews,  \* bound: messages entered
  MaxPrompts,   \* bound: menu and prompt messages sent
  MaxCrashes    \* bound

ASSUME BroadcastAssumption ==
  /\ Followers \in [Operators -> SUBSET Chats]
  /\ MaxPreviews \in Nat /\ MaxPrompts \in Nat /\ MaxCrashes \in Nat

VARIABLES
  state,    \* of the conversation
  session,  \* user_data
  stored,   \* user_data in the persistence file
  prompts,  \* menu messages sent; they are numbered from 1
  opened,   \* those that have shown the broadcast menu
  previews, \* previews copied; they are numbered from 1
  shown,    \* confirmations shown so far
  running,  \* the confirmed broadcast that is being copied
  received, \* how often each preview was copied to each chat
  canceled, \* previews the admin has turned his back on
  crashes

telegramVars == <<prompts, opened, previews, shown>>
vars == <<state, session, stored, telegramVars, running, received, canceled, crashes>>

NoSession == [prompt |-> 0, selected |-> {}, preview |-> 0]

Confirmation(kind, m, p, ids) == [kind |-> kind, prompt |-> m, preview |-> p, ids |-> ids]
NoBroadcast == [of |-> Confirmation("none", 0, 0, {}), targets |-> {}, cleared |-> FALSE]
States == {"none", "start", "broadcast", "messageAll", "selectNo", "messageSelected"}
Everyone == UNION {Followers[o] : o \in Operators}

Init ==
  /\ state = "none" /\ session = NoSession /\ stored = NoSession
  /\ prompts = 0 /\ opened = {} /\ previews = 0 /\ shown = {}
  /\ running = NoBroadcast
  /\ received = [p \in 1..MaxPreviews |-> [c \in Chats |-> 0]]
  /\ canceled = {} /\ crashes = 0

-----------------------------------------------------------------------------
(* Menus.  The call that edits the message comes last: when it raises, the   *)
(* conversation stays where it was, with a session that has moved.           *)

Ready == running = NoBroadcast
SamePreviews == UNCHANGED <<previews, shown>>
SameRest == UNCHANGED <<stored, running, received, crashes>>

(* /start sends a menu of its own and leaves the session alone.              *)
Start ==
  /\ Ready /\ prompts < MaxPrompts
  /\ prompts' = prompts + 1 /\ state' = "start"
  /\ SamePreviews /\ SameRest /\ UNCHANGED <<session, opened, canceled>>

(* Mutant: the preview survives the menu.                                    *)
MutantOpenOn(m, next, cleared, done) ==
  /\ session' = [session EXCEPT !.prompt = m, !.selected = done]
  /\ state' = next
  /\ opened' = opened \cup {m}
  /\ canceled' = 1..previews
  /\ SamePreviews /\ SameRest /\ UNCHANGED prompts

(* A menu is opened on message m: the preview is deleted first.  cleared is  *)
(* the selection kept when the edit raises, done the one kept otherwise.     *)
OpenOn(m, next, cleared, done) ==
  \/ /\ session' = [session EXCEPT !.preview = 0, !.selected = cleared]
     /\ SamePreviews /\ SameRest /\ UNCHANGED <<state, prompts, opened, canceled>>
  \/ /\ session' = [prompt |-> m, selected |-> done, preview |-> 0]
     /\ state' = next
     /\ opened' = opened \cup {m}
     /\ canceled' = 1..previews
     /\ SamePreviews /\ SameRest /\ UNCHANGED prompts

BroadcastMenu(m) ==
  /\ Ready
  /\ \/ state = "start"
     \/ state \in {"messageAll", "selectNo"} /\ m \in opened
  /\ OpenOn(m, "broadcast", session.selected, {})

BroadcastAllPrompt(m) ==
  /\ Ready /\ state = "broadcast" /\ m \in opened
  /\ OpenOn(m, "messageAll", session.selected, session.selected)

BroadcastByNo(m) ==
  /\ Ready /\ state \in {"broadcast", "messageSelected"} /\ m \in opened
  /\ OpenOn(m, "selectNo", {}, {})

StartOver ==
  /\ Ready /\ state = "broadcast" /\ state' = "start"
  /\ SamePreviews /\ SameRest /\ UNCHANGED <<session, prompts, opened, canceled>>

-----------------------------------------------------------------------------
(* Entering operators and messages.                                          *)

(* _edit_broadcast_prompt_message: the prompt is edited, or a new one sent   *)
(* when there is none or it cannot be edited.  m is its number.              *)
Prompted(m) == \/ session.prompt # 0 /\ m = session.prompt /\ UNCHANGED <<prompts, opened>>
               \/ /\ prompts < MaxPrompts /\ m = prompts + 1
                  /\ prompts' = m /\ opened' = opened \cup {m}

EnterIds(ids) ==
  /\ Ready /\ state = "selectNo"
  /\ LET selected == IF ids = {} THEN session.selected ELSE ids
     IN \/ /\ session' = [session EXCEPT !.selected = selected]
           /\ UNCHANGED <<state, prompts, opened>>
        \/ \E m \in 1..MaxPrompts :
             /\ Prompted(m)
             /\ session' = [session EXCEPT !.selected = selected, !.prompt = m]
             /\ state' = IF ids = {} THEN state ELSE "messageSelected"
  /\ SamePreviews /\ SameRest /\ UNCHANGED canceled

(* The message cannot be copied: the prompt says so, or that raises too.     *)
PreviewFails ==
  \/ /\ session' = [session EXCEPT !.preview = 0]
     /\ UNCHANGED <<state, prompts, opened>>
  \/ \E m \in 1..MaxPrompts :
       /\ Prompted(m)
       /\ session' = [session EXCEPT !.preview = 0, !.prompt = m]
       /\ UNCHANGED state

(* The message is copied, the prompt asks for confirmation, and the preview  *)
(* is kept last: the call may raise after the button has been shown.         *)
Preview(kind, ids) ==
  /\ previews < MaxPreviews /\ previews' = previews + 1
  /\ \/ \E m \in 1..MaxPrompts :
          /\ Prompted(m)
          /\ shown' = shown \cup {Confirmation(kind, m, previews', ids)}
          /\ \/ session' = [session EXCEPT !.prompt = m, !.preview = previews']
             \/ session' = [session EXCEPT !.preview = 0]
     \/ /\ session' = [session EXCEPT !.preview = 0]
        /\ UNCHANGED <<shown, prompts, opened>>
  /\ UNCHANGED state

BroadcastAllMessage ==
  /\ Ready /\ state = "messageAll"
  /\ \/ PreviewFails /\ SamePreviews
     \/ Preview("all", {})
  /\ SameRest /\ UNCHANGED canceled

BroadcastSelectedMessage ==
  /\ Ready /\ state = "messageSelected" /\ session.selected # {}
  /\ \/ PreviewFails /\ SamePreviews
     \/ Preview("selected", session.selected)
  /\ SameRest /\ UNCHANGED canceled

NothingSelected ==
  /\ Ready /\ state = "messageSelected" /\ session.selected = {}
  /\ \/ UNCHANGED <<state, session, prompts, opened>>
     \/ \E m \in 1..MaxPrompts :
          /\ Prompted(m) /\ state' = "selectNo"
          /\ session' = [session EXCEPT !.prompt = m]
  /\ SamePreviews /\ SameRest /\ UNCHANGED canceled

-----------------------------------------------------------------------------
(* Confirming.                                                               *)

(* Mutant: any preview will do.                                              *)
MutantConsumable(k) == session.prompt = k.prompt /\ session.preview # 0

Consumable(k) == session.prompt = k.prompt /\ session.preview = k.preview

(* Mutant: the preview is kept.                                              *)
MutantConsume(k, targets) ==
  /\ Consumable(k)
  /\ running' = [of |-> k, targets |-> targets,
                 cleared |-> k.kind = "selected" /\ targets # {}]
  /\ UNCHANGED <<state, session, stored, telegramVars, received, canceled, crashes>>

(* consume_preview, then query.answer, which may raise.  The selection is to *)
(* be cleared after the copies if there is anybody to send to.               *)
Consume(k, targets) ==
  /\ Consumable(k)
  /\ session' = [session EXCEPT !.preview = 0]
  /\ \/ running' = [of |-> k, targets |-> targets,
                    cleared |-> k.kind = "selected" /\ targets # {}]
     \/ UNCHANGED running
  /\ UNCHANGED <<state, stored, telegramVars, received, canceled, crashes>>

ConfirmAll(k) == /\ Ready /\ state = "messageAll" /\ k.kind = "all"
                 /\ Consume(k, Everyone)

ConfirmSelected(k) ==
  /\ Ready /\ state = "messageSelected" /\ k.kind = "selected"
  /\ session.selected # {}
  /\ Consume(k, UNION {Followers[o] : o \in session.selected})

(* One copy_message of the loop, which fails or arrives.                     *)
Copy(c, arrives) ==
  /\ c \in running.targets
  /\ running' = [running EXCEPT !.targets = @ \ {c}]
  /\ received' = IF arrives THEN [received EXCEPT ![running.of.preview][c] = @ + 1]
                 ELSE received
  /\ UNCHANGED <<state, session, stored, telegramVars, canceled, crashes>>

(* The loop is over; the result is shown on the prompt, which stays.         *)
Conclude ==
  /\ ~Ready /\ running.targets = {}
  /\ session' = [session EXCEPT !.selected = IF running.cleared THEN {} ELSE @]
  /\ running' = NoBroadcast
  /\ UNCHANGED <<state, stored, telegramVars, received, canceled, crashes>>

-----------------------------------------------------------------------------

UpdatePersistence ==
  /\ stored' = session
  /\ UNCHANGED <<state, session, telegramVars, running, received, canceled, crashes>>

Crash ==
  /\ crashes < MaxCrashes /\ crashes' = crashes + 1
  /\ session' = stored /\ state' = "none" /\ running' = NoBroadcast
  /\ UNCHANGED <<stored, telegramVars, received, canceled>>

Next ==
  \/ Start \/ StartOver
  \/ \E m \in 1..prompts : BroadcastMenu(m) \/ BroadcastAllPrompt(m) \/ BroadcastByNo(m)
  \/ \E ids \in SUBSET Operators : EnterIds(ids)
  \/ BroadcastAllMessage \/ BroadcastSelectedMessage \/ NothingSelected
  \/ \E k \in shown : ConfirmAll(k) \/ ConfirmSelected(k)
  \/ \E c \in Chats, b \in BOOLEAN : Copy(c, b)
  \/ Conclude
  \/ UpdatePersistence \/ Crash

Spec == Init /\ [][Next]_vars

-----------------------------------------------------------------------------
(* Properties.                                                               *)

Sessions == [prompt : 0..prompts, selected : SUBSET Operators, preview : 0..previews]

(* The session, in memory and in the file, names messages that exist.        *)
TypeOK ==
  /\ state \in States
  /\ session \in Sessions /\ stored \in Sessions
  /\ opened \subseteq 1..prompts /\ canceled \subseteq 1..previews
  /\ \A k \in shown : /\ k.prompt \in 1..prompts /\ k.preview \in 1..previews
                      /\ k.ids # {} <=> k.kind = "selected"
  /\ Ready \/ running.of \in shown
  /\ running.targets \subseteq Chats

(* No chat gets a message twice, however often and wherever its confirmation *)
(* is pressed, whatever call fails, and if the process dies between two      *)
(* copies and starts with an older session (broadcast.py 71-88, 403-422).    *)
AtMostOnce == \A p \in 1..MaxPreviews, c \in Chats : received[p][c] <= 1

Audience(k) == IF k.kind = "all" THEN Everyone ELSE UNION {Followers[o] : o \in k.ids}

(* A broadcast goes to the operators that were named when the admin was      *)
(* asked to confirm it, although the confirmation carries only the preview   *)
(* and the selection is read from the session (broadcast.py 340-400).        *)
GoesWhereItWasShown == ~Ready => running.targets \subseteq Audience(running.of)

(* Once the admin has gone back to a broadcast menu, no confirmation he was  *)
(* shown before works any more (broadcast.py 91-159, 515-522).               *)
BackCancels == ~Ready => running.of.preview \notin canceled
=============================================================================
