-------------------------- MODULE ChatSubscriptions --------------------------
(***************************************************************************)
(* Which chat follows which node operator, kept twice: in the data of the  *)
(* chat and in the bot-wide index that notifications are addressed by.     *)
(* Updates are handled one at a time, but a handler is suspended while it  *)
(* asks the chain or Telegram, and the persistence task may write then: it *)
(* writes the bot data always and the data of a chat once the handler has  *)
(* returned and marked it.  Telegram announces the upgrade of a group to a *)
(* supergroup in both chats, in any order and possibly again.              *)
(***************************************************************************)
EXTENDS FiniteSets, Sequences

CONSTANTS
  Users, Groups, Supers, \* private chats; groups; the supergroups they become
  Upgrade,               \* the supergroup of a group
  Operators,             \* ids the module knows
  Unknown,               \* an id that is not an operator
  Talks                  \* <<chat, user>>: the conversations with the bot

Chats == Users \cup Groups \cup Supers
NoTalk == <<>>

ASSUME ChatsAssumption ==
  /\ Users \cap Groups = {} /\ Users \cap Supers = {} /\ Groups \cap Supers = {}
  /\ Upgrade \in [Groups -> Supers]
  /\ \A g, h \in Groups : Upgrade[g] = Upgrade[h] => g = h
  /\ Unknown \notin Operators
  /\ \A t \in Talks : t[1] \in Chats /\ t # NoTalk

VARIABLES
  index,    \* bot_data["no_ids_to_chats"]
  actual,   \* bot_data user_ids, group_ids and channel_ids
  known,    \* keys of application.chat_data
  follows,  \* chat_data[chat]["node_operators"]
  marked,   \* chats whose data the next write takes
  dropped,  \* chats whose data the next write deletes
  conv,     \* state of each conversation
  handler,  \* the suspended handler
  disk,     \* persistence.pkl
  upgraded, \* groups Telegram has upgraded
  heard     \* groups of which an announcement was handled

botVars == <<index, actual>>
chatVars == <<known, follows, marked, dropped>>
telegramVars == <<upgraded, heard>>
vars == <<botVars, chatVars, conv, handler, disk, telegramVars>>

(* "menu" is every state that is none of the two; what an admin enters in    *)
(* the other states, in a private chat only, is the matter of AdminBroadcast.*)
States == {"none", "menu", "follow", "unfollow"}
Ids == Operators \cup {Unknown}
Steps == {"idle", "validating", "answering", "replying"}
Idle == [step |-> "idle", talk |-> NoTalk, ids |-> {}, next |-> "none"]
Announcements == Groups \X {"to", "from"}

Stored(i, a, k, f) == [index |-> i, actual |-> a, known |-> k, follows |-> f]
NoFollows == [c \in Chats |-> {}]
NoIndex == [o \in Operators |-> {}]

Init ==
  /\ index = NoIndex /\ actual = {}
  /\ known = {} /\ follows = NoFollows
  /\ marked = {} /\ dropped = {}
  /\ conv = [t \in Talks |-> "none"]
  /\ handler = Idle
  /\ disk = Stored(NoIndex, {}, {}, NoFollows)
  /\ upgraded = {} /\ heard = {}

-----------------------------------------------------------------------------
(* Handlers of a conversation.                                               *)

(* A group is closed by its upgrade, its supergroup opened.                  *)
Open(c) == /\ c \in Groups => c \notin upgraded
           /\ c \in Supers => \E g \in upgraded : Upgrade[g] = c

(* An update of a conversation reaches its handler: the context touches the  *)
(* data of the chat, and the handler runs to its first suspension.           *)
Enter(t, step, ids, next) ==
  /\ handler = Idle /\ Open(t[1])
  /\ known' = known \cup {t[1]}
  /\ handler' = [step |-> step, talk |-> t, ids |-> ids, next |-> next]
  /\ UNCHANGED <<index, follows, marked, dropped, conv, disk, telegramVars>>

AddUserIfRequired(c) == IF c \in Users THEN actual \cup {c} ELSE actual

Start(t) == /\ Enter(t, "replying", {}, "menu")
            /\ actual' = AddUserIfRequired(t[1])

Navigate(t, next) ==
  /\ \/ conv[t] = "menu" /\ next # "none"
     \/ conv[t] # "none" /\ next = "menu"
  /\ Enter(t, "replying", {}, next)
  /\ UNCHANGED actual

FollowMessage(t, ids) ==
  /\ conv[t] = "follow"
  /\ Enter(t, "validating", ids, "follow")
  /\ UNCHANGED actual

Subscribed(i, ids, c) == [o \in Operators |-> IF o \in ids THEN i[o] \cup {c} ELSE i[o]]

(* All ids are valid, or nothing is changed.                                 *)
Follow ==
  /\ handler.step = "validating"
  /\ handler' = [handler EXCEPT !.step = "replying"]
  /\ LET c == handler.talk[1]
         valid == IF handler.ids \subseteq Operators THEN handler.ids ELSE {}
     IN /\ index' = Subscribed(index, valid, c)
        /\ follows' = [follows EXCEPT ![c] = @ \cup valid]
  /\ UNCHANGED <<actual, known, marked, dropped, conv, disk, telegramVars>>

UnfollowMessage(t, ids) ==
  /\ conv[t] = "unfollow"
  /\ Enter(t, "answering", ids, "unfollow")
  /\ UNCHANGED actual

Unsubscribed(i, ids, c) == [o \in Operators |-> IF o \in ids THEN i[o] \ {c} ELSE i[o]]

(* Mutant: the index forgets every id that was entered.                      *)
MutantUnfollow ==
  /\ handler.step = "answering"
  /\ handler' = [handler EXCEPT !.step = "replying"]
  /\ LET c == handler.talk[1]
         followed == IF handler.ids \subseteq follows[c] THEN handler.ids ELSE {}
     IN /\ follows' = [follows EXCEPT ![c] = @ \ followed]
        /\ index' = Unsubscribed(index, handler.ids, c)
  /\ UNCHANGED <<actual, known, marked, dropped, conv, disk, telegramVars>>

(* All ids are followed by the chat, or nothing is changed.                  *)
Unfollow ==
  /\ handler.step = "answering"
  /\ handler' = [handler EXCEPT !.step = "replying"]
  /\ LET c == handler.talk[1]
         followed == IF handler.ids \subseteq follows[c] THEN handler.ids ELSE {}
     IN /\ follows' = [follows EXCEPT ![c] = @ \ followed]
        /\ index' = Unsubscribed(index, followed, c)
  /\ UNCHANGED <<actual, known, marked, dropped, conv, disk, telegramVars>>

(* The last Telegram call answers or raises.  The conversation moves only if *)
(* it answered; the chat is marked for the next write in both cases.         *)
Return(answered) ==
  /\ handler.step = "replying"
  /\ conv' = IF answered THEN [conv EXCEPT ![handler.talk] = handler.next] ELSE conv
  /\ marked' = marked \cup {handler.talk[1]}
  /\ handler' = Idle
  /\ UNCHANGED <<botVars, known, follows, dropped, disk, telegramVars>>

-----------------------------------------------------------------------------
(* Membership, and the upgrade of a group.                                   *)

TrackChats(c, isMember) ==
  /\ handler = Idle /\ Open(c)
  /\ actual' = IF isMember THEN actual \cup {c} ELSE actual \ {c}
  /\ known' = known \cup {c}
  /\ marked' = marked \cup {c}
  /\ UNCHANGED <<index, follows, dropped, conv, handler, disk, telegramVars>>

TelegramUpgrades(g) ==
  /\ g \notin upgraded
  /\ upgraded' = upgraded \cup {g}
  /\ UNCHANGED <<botVars, chatVars, conv, handler, disk, heard>>

ChatOf(a) == IF a[2] = "to" THEN a[1] ELSE Upgrade[a[1]]

(* Mutant: the new id is added and the old one kept.                         *)
MutantCopied(chats, old, new) == IF old \in chats THEN chats \cup {new} ELSE chats

Renamed(chats, old, new) == IF old \in chats THEN (chats \ {old}) \cup {new} ELSE chats

(* Mutants: what the new chat followed already is overwritten; the new chat  *)
(* is not marked.                                                            *)
MutantMigrateOverwrites(old, new, c) ==
  LET keys == known \cup {c}
  IN IF old \in keys
     THEN /\ follows' = [follows EXCEPT ![new] = follows[old], ![old] = {}]
          /\ known' = (keys \ {old}) \cup {new}
          /\ dropped' = dropped \cup {old}
          /\ marked' = marked \cup {new, c}
     ELSE /\ known' = keys /\ marked' = marked \cup {c}
          /\ UNCHANGED <<follows, dropped>>
MutantMigrateUnmarked(old, new, c) ==
  LET keys == known \cup {c}
  IN IF old \in keys
     THEN /\ follows' = [follows EXCEPT ![new] = @ \cup follows[old], ![old] = {}]
          /\ known' = (keys \ {old}) \cup {new}
          /\ dropped' = dropped \cup {old}
          /\ marked' = marked \cup {c}
     ELSE /\ known' = keys /\ marked' = marked \cup {c}
          /\ UNCHANGED <<follows, dropped>>

(* _migrate_chat_subscriptions: the data of the old chat, if it has any, is  *)
(* moved to the new chat or merged into what the new chat has.  The chat of  *)
(* the update is marked when the handler has returned.                       *)
MigrateChatSubscriptions(old, new, c) ==
  LET keys == known \cup {c}
  IN IF old \in keys
     THEN /\ follows' = [follows EXCEPT ![new] = @ \cup follows[old], ![old] = {}]
          /\ known' = (keys \ {old}) \cup {new}
          /\ dropped' = dropped \cup {old}
          /\ marked' = marked \cup {new, c}
     ELSE /\ known' = keys /\ marked' = marked \cup {c}
          /\ UNCHANGED <<follows, dropped>>

(* BotStorage.migrate_chat_id, then the subscriptions of the new chat again. *)
MigrateIndex(old, new) ==
  /\ index' = LET moved == [o \in Operators |-> Renamed(index[o], old, new)]
              IN Subscribed(moved, IF new \in known' THEN follows'[new] ELSE {}, new)
  /\ actual' = Renamed(actual, old, new)

ChatMigration(a) ==
  LET old == a[1]
      new == Upgrade[a[1]]
  IN /\ handler = Idle /\ old \in upgraded
     /\ MigrateChatSubscriptions(old, new, ChatOf(a))
     /\ MigrateIndex(old, new)
     /\ heard' = heard \cup {old}
     /\ UNCHANGED <<conv, handler, disk, upgraded>>

-----------------------------------------------------------------------------
(* Persistence, restarts and crashes.                                        *)

Updated == marked \ dropped

(* A write of the pieces in p: "bot" is the bot data, a chat the data of it. *)
Written(p) ==
  LET upd == Updated \cap p
      del == dropped \cap p
  IN [index |-> IF "bot" \in p THEN index ELSE disk.index,
      actual |-> IF "bot" \in p THEN actual ELSE disk.actual,
      known |-> (disk.known \cup upd) \ del,
      follows |-> [c \in Chats |-> IF c \in del THEN {}
                                    ELSE IF c \in upd THEN follows[c] ELSE disk.follows[c]]]

Pieces == {"bot"} \cup marked \cup dropped

UpdatePersistence ==
  /\ disk' = Written(Pieces)
  /\ marked' = {} /\ dropped' = {}
  /\ UNCHANGED <<botVars, known, follows, conv, handler, telegramVars>>

(* The process ends after it has written the pieces in p, and starts again.  *)
(* Conversations are not persisted.                                          *)
Reboot(p) ==
  /\ disk' = Written(p)
  /\ index' = disk'.index /\ actual' = disk'.actual
  /\ known' = disk'.known /\ follows' = disk'.follows
  /\ marked' = {} /\ dropped' = {}
  /\ conv' = [t \in Talks |-> "none"]
  /\ handler' = Idle
  /\ UNCHANGED telegramVars

Stop == handler = Idle /\ Reboot(Pieces)

Crash == \E p \in SUBSET Pieces : Reboot(p)

Converse(t) ==
  \/ Start(t)
  \/ \E s \in States : Navigate(t, s)
  \/ \E ids \in SUBSET Ids \ {{}} : FollowMessage(t, ids) \/ UnfollowMessage(t, ids)

Next ==
  \/ \E t \in Talks : Converse(t)
  \/ Follow \/ Unfollow
  \/ \E b \in BOOLEAN : Return(b)
  \/ \E c \in Chats, b \in BOOLEAN : TrackChats(c, b)
  \/ \E g \in Groups : TelegramUpgrades(g)
  \/ \E a \in Announcements : ChatMigration(a)
  \/ UpdatePersistence
  \/ Stop

Spec == Init /\ [][Next]_vars
CrashSpec == Init /\ [][Next \/ Crash]_vars

(* A process that is killed between two writes.                              *)
KillSpec == Init /\ [][Next \/ Reboot({})]_vars

-----------------------------------------------------------------------------
(* Properties.                                                               *)

Subscriptions == [Chats -> SUBSET Operators]
Index == [Operators -> SUBSET Chats]

(* Each variable holds what the code keeps in it; chat data that does not    *)
(* exist follows nothing.                                                    *)
TypeOK ==
  /\ index \in Index /\ actual \subseteq Chats
  /\ follows \in Subscriptions /\ known \subseteq Chats
  /\ marked \subseteq Chats /\ dropped \subseteq Chats
  /\ conv \in [Talks -> States]
  /\ handler \in [step : Steps, talk : Talks \cup {NoTalk}, ids : SUBSET Ids, next : States]
  /\ disk \in [index : Index, actual : SUBSET Chats, known : SUBSET Chats,
               follows : Subscriptions]
  /\ upgraded \subseteq Groups /\ heard \subseteq upgraded
  /\ \A c \in Chats \ known : follows[c] = {}

Agree(i, f) == \A c \in Chats, o \in Operators : c \in i[o] <=> o \in f[c]

(* The index and the data of the chats say the same, whatever the order of   *)
(* commands, failed replies, upgrades and regular restarts (start.py         *)
(* 313-496, tracking.py 12-68): a chat can unfollow whatever it is notified  *)
(* of, and is notified of whatever it is shown to follow.                    *)
IndexAgrees == Agree(index, follows)

Pending(c) == c \in marked \cup dropped \/ (handler # Idle /\ handler.talk[1] = c)

(* What a chat follows and the file does not say is due to be written: the   *)
(* chat is marked, or dropped, or its handler has yet to return.  So no      *)
(* change of a chat's data is left to be lost by a later stop (tracking.py   *)
(* 22-33), even after a crash in the middle of a write.                      *)
ChangesAreWritten == \A c \in Chats : disk.follows[c] = follows[c] \/ Pending(c)

(* When an announcement of an upgrade was handled, in either chat and with   *)
(* its twin still to come or already handled, no trace of the old chat is    *)
(* left to address a notification to (tracking.py 36-68, storage.py          *)
(* 195-210, 285-303, 621-627).                                               *)
OldChatForgotten == \A g \in heard :
  g \notin actual /\ follows[g] = {} /\ \A o \in Operators : g \notin index[o]

Families == Users \cup Groups
FamilyOf(f) == {f} \cup (IF f \in Groups THEN {Upgrade[f]} ELSE {})

Asked ==
  IF handler.step \in {"validating", "answering"}
  THEN [kind |-> IF handler.step = "validating" THEN "follow" ELSE "unfollow",
        family |-> CHOOSE f \in Families : handler.talk[1] \in FamilyOf(f),
        ids |-> handler.ids]
  ELSE [kind |-> "none"]

Wanted == [f \in Families |-> UNION {follows[c] : c \in FamilyOf(f)}]

(* What a chat follows changes by the answer to its own commands only: the   *)
(* upgrade of its group, announcements in any order and any number, writes   *)
(* and restarts do not show (tracking.py 12-68).                             *)
Ledger == INSTANCE SubscriptionLedger WITH wanted <- Wanted, command <- Asked
KeepsLedger == Ledger!Spec
=============================================================================
