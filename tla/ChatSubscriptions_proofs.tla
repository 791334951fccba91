----------------------- MODULE ChatSubscriptions_proofs -----------------------
(* That the index and the data of the chats agree, that every change is due  *)
(* to be written and that an upgraded chat is forgotten, for any chats,      *)
(* operators and conversations, between regular restarts; what the cached    *)
(* operators and labels keep; and what the menus show.                       *)
EXTENDS MCChats, WellFoundedInduction, Naturals, FiniteSetTheorems, FunctionTheorems,
        SequenceTheorems, TLAPS

-----------------------------------------------------------------------------
(* The inductive invariant.  A chat whose data was dropped is an upgraded    *)
(* group, which no handler works on; the chat of the suspended handler has   *)
(* data; and the file has no follows for chats that it does not know.        *)
HandlerChat ==
  handler # Idle => /\ handler.talk \in Talks
                    /\ handler.talk[1] \in known
                    /\ handler.talk[1] \notin dropped \cup heard

DroppedChats == dropped \subseteq upgraded /\ \A c \in dropped : follows[c] = {}

DiskKnown == \A c \in Chats \ disk.known : disk.follows[c] = {}

IInv == TypeOK /\ HandlerChat /\ DroppedChats /\ DiskKnown /\ ChangesAreWritten

(* What a crash in the middle of a write may break, as the pieces in the     *)
(* file are then of different moments.                                       *)
Agreed == IndexAgrees /\ OldChatForgotten

LEMMA InvInit == Init => IInv /\ Agreed
  BY ChatsAssumption
  DEF Init, IInv, Agreed, TypeOK, HandlerChat, DroppedChats, DiskKnown, IndexAgrees, Agree,
      ChangesAreWritten, OldChatForgotten, Idle, Stored, NoFollows, NoIndex, Subscriptions,
      Index, States, Steps, Pending, NoTalk

(* An update enters its handler.                                             *)
LEMMA EnterKeeps ==
  ASSUME IInv, NEW t \in Talks, NEW step \in Steps \ {"idle"}, NEW ids \in SUBSET Ids,
         NEW next \in States, Enter(t, step, ids, next),
         actual' = actual \/ actual' = AddUserIfRequired(t[1])
  PROVE  IInv' /\ (Agreed => Agreed')
  <1>1. /\ t[1] \in Chats /\ t # NoTalk
        /\ t[1] \in Groups => t[1] \notin upgraded
    BY ChatsAssumption DEF Enter, Open
  <1>2. /\ handler = Idle /\ known' = known \cup {t[1]}
        /\ handler' = [step |-> step, talk |-> t, ids |-> ids, next |-> next]
        /\ UNCHANGED <<index, follows, marked, dropped, conv, disk, telegramVars>>
    BY DEF Enter
  <1>3. actual' \subseteq actual \cup (Users \cap {t[1]})
    BY DEF AddUserIfRequired
  <1>4. dropped \subseteq upgraded /\ heard \subseteq upgraded /\ upgraded \subseteq Groups
    BY DEF IInv, DroppedChats, TypeOK
  <1>5. TypeOK'
    <2>1. handler' \in [step : Steps, talk : Talks \cup {NoTalk}, ids : SUBSET Ids, next : States]
      BY <1>2
    <2>2. actual' \subseteq Chats /\ known' \subseteq Chats
      BY <1>1, <1>2, <1>3 DEF IInv, TypeOK
    <2>3. \A c \in Chats \ known' : follows'[c] = {}
      BY <1>2 DEF IInv, TypeOK
    <2> QED
      BY <1>2, <2>1, <2>2, <2>3 DEF IInv, TypeOK, telegramVars
  <1>6. HandlerChat'
    BY <1>1, <1>2, <1>4 DEF HandlerChat, telegramVars
  <1>7. DroppedChats' /\ DiskKnown'
    BY <1>2 DEF IInv, DroppedChats, DiskKnown, telegramVars
  <1>8. ChangesAreWritten'
    BY <1>2 DEF IInv, ChangesAreWritten, Pending
  <1>9. ASSUME Agreed PROVE Agreed'
    BY <1>2, <1>3, <1>4, <1>9, ChatsAssumption
    DEF Agreed, IndexAgrees, Agree, OldChatForgotten, telegramVars
  <1> QED
    BY <1>5, <1>6, <1>7, <1>8, <1>9 DEF IInv

LEMMA ConverseKeeps == ASSUME IInv, NEW t \in Talks, Converse(t) PROVE IInv' /\ (Agreed => Agreed')
  <1>1. CASE Start(t)
    <2>1. Enter(t, "replying", {}, "menu") /\ actual' = AddUserIfRequired(t[1])
      BY <1>1 DEF Start
    <2> QED
      BY <2>1, EnterKeeps DEF Steps, States
  <1>2. ASSUME NEW next \in States, Navigate(t, next)
        PROVE  IInv' /\ (Agreed => Agreed')
    <2>1. Enter(t, "replying", {}, next) /\ actual' = actual
      BY <1>2 DEF Navigate
    <2> QED
      BY <2>1, EnterKeeps DEF Steps
  <1>3. ASSUME NEW ids \in SUBSET Ids, FollowMessage(t, ids)
        PROVE  IInv' /\ (Agreed => Agreed')
    <2>1. Enter(t, "validating", ids, "follow") /\ actual' = actual
      BY <1>3 DEF FollowMessage
    <2> QED
      BY <2>1, EnterKeeps DEF Steps, States
  <1>4. ASSUME NEW ids \in SUBSET Ids, UnfollowMessage(t, ids)
        PROVE  IInv' /\ (Agreed => Agreed')
    <2>1. Enter(t, "answering", ids, "unfollow") /\ actual' = actual
      BY <1>4 DEF UnfollowMessage
    <2> QED
      BY <2>1, EnterKeeps DEF Steps, States
  <1> QED
    BY <1>1, <1>2, <1>3, <1>4 DEF Converse

(* The handler changes what its chat follows, in both places alike.          *)
LEMMA ChangeKeeps ==
  ASSUME IInv, handler # Idle,
         handler' = [handler EXCEPT !.step = "replying"],
         index' \in Index, follows' \in Subscriptions, IndexAgrees => IndexAgrees',
         \A d \in Chats : d # handler.talk[1] => follows'[d] = follows[d],
         UNCHANGED <<actual, known, marked, dropped, conv, disk, telegramVars>>
  PROVE  IInv' /\ (Agreed => Agreed')
  <1> DEFINE c == handler.talk[1]
  <1>1. /\ handler.talk \in Talks /\ handler.talk # NoTalk /\ c \in Chats
        /\ c \in known /\ c \notin dropped /\ c \notin heard
    BY ChatsAssumption DEF IInv, HandlerChat
  <1>2. handler'.talk = handler.talk /\ handler' # Idle
    BY <1>1 DEF IInv, TypeOK, Idle
  <1>3. TypeOK'
    <2>1. handler' \in [step : Steps, talk : Talks \cup {NoTalk}, ids : SUBSET Ids, next : States]
      BY DEF IInv, TypeOK, Steps
    <2>2. \A d \in Chats \ known : follows'[d] = {}
      BY <1>1 DEF IInv, TypeOK
    <2> QED
      BY <2>1, <2>2 DEF IInv, TypeOK, telegramVars
  <1>4. HandlerChat'
    BY <1>1, <1>2 DEF HandlerChat, telegramVars
  <1>5. dropped \subseteq Chats /\ heard \subseteq Chats
    BY DEF IInv, TypeOK, Chats
  <1>6. DroppedChats' /\ DiskKnown'
    BY <1>1, <1>5 DEF IInv, DroppedChats, DiskKnown, telegramVars
  <1>7. ChangesAreWritten'
    <2>1. \A d \in Chats : Pending(d) => Pending(d)'
      BY <1>2 DEF Pending
    <2>2. Pending(c)'
      BY <1>2 DEF Pending
    <2>3. \A d \in Chats : d = c \/ follows'[d] = follows[d]
      OBVIOUS
    <2> QED
      BY <2>1, <2>2, <2>3 DEF IInv, ChangesAreWritten
  <1>8. ASSUME Agreed PROVE Agreed'
    <2>0. IndexAgrees'
      BY <1>8 DEF Agreed
    <2>1. \A g \in heard : g \notin actual /\ follows[g] = {} /\ g # c /\ g \in Chats
      BY <1>1, <1>5, <1>8 DEF Agreed, OldChatForgotten
    <2>2. \A g \in heard : follows'[g] = {}
      BY <2>1
    <2>3. \A g \in heard, o \in Operators : g \notin index'[o]
      BY <2>0, <2>1, <2>2 DEF IndexAgrees, Agree
    <2>4. actual' = actual /\ heard' = heard
      BY DEF telegramVars
    <2> QED
      BY <2>0, <2>1, <2>2, <2>3, <2>4 DEF Agreed, OldChatForgotten
  <1> QED
    BY <1>3, <1>4, <1>6, <1>7, <1>8 DEF IInv

LEMMA FollowKeeps == ASSUME IInv, Follow \/ Unfollow PROVE IInv' /\ (Agreed => Agreed')
  <1> DEFINE c == handler.talk[1]
             valid == IF handler.ids \subseteq Operators THEN handler.ids ELSE {}
             ended == IF handler.ids \subseteq follows[c] THEN handler.ids ELSE {}
  <1>1. /\ handler # Idle
        /\ handler' = [handler EXCEPT !.step = "replying"]
        /\ UNCHANGED <<actual, known, marked, dropped, conv, disk, telegramVars>>
    BY DEF Follow, Unfollow, Idle
  <1>2. c \in Chats
    BY <1>1, ChatsAssumption DEF IInv, HandlerChat
  <1>3. index \in Index /\ follows \in Subscriptions
    BY DEF IInv, TypeOK
  <1>4. CASE Follow
    <2>1. valid \in SUBSET Operators
      OBVIOUS
    <2>2. index' = Subscribed(index, valid, c) /\ follows' = [follows EXCEPT ![c] = @ \cup valid]
      BY <1>4 DEF Follow
    <2>3. index' \in Index /\ follows' \in Subscriptions
      BY <1>2, <1>3, <2>1, <2>2 DEF Subscribed, Index, Subscriptions
    <2> HIDE DEF valid
    <2>4. \A o \in Operators : index'[o] = IF o \in valid THEN index[o] \cup {c} ELSE index[o]
      BY <2>2 DEF Subscribed
    <2>5. /\ \A d \in Chats : d # c => follows'[d] = follows[d]
          /\ follows'[c] = follows[c] \cup valid
      BY <1>2, <1>3, <2>2 DEF Subscriptions
    <2>6. \A d \in Chats, o \in Operators :
            d \in index'[o] <=> d \in index[o] \/ (d = c /\ o \in valid)
      BY <2>4
    <2>7. \A d \in Chats, o \in Operators :
            o \in follows'[d] <=> o \in follows[d] \/ (d = c /\ o \in valid)
      BY <2>5
    <2>8. IndexAgrees => IndexAgrees'
      BY <2>6, <2>7 DEF IndexAgrees, Agree
    <2> QED
      BY <1>1, <2>3, <2>5, <2>8, ChangeKeeps
  <1>5. CASE Unfollow
    <2>1. ended \in SUBSET Operators
      BY <1>2, <1>3 DEF Subscriptions
    <2>2. index' = Unsubscribed(index, ended, c) /\ follows' = [follows EXCEPT ![c] = @ \ ended]
      BY <1>5 DEF Unfollow
    <2>3. index' \in Index /\ follows' \in Subscriptions
      BY <1>2, <1>3, <2>1, <2>2 DEF Unsubscribed, Index, Subscriptions
    <2> HIDE DEF ended
    <2>4. \A o \in Operators : index'[o] = IF o \in ended THEN index[o] \ {c} ELSE index[o]
      BY <2>2 DEF Unsubscribed
    <2>5. /\ \A d \in Chats : d # c => follows'[d] = follows[d]
          /\ follows'[c] = follows[c] \ ended
      BY <1>2, <1>3, <2>2 DEF Subscriptions
    <2>6. \A d \in Chats, o \in Operators :
            d \in index'[o] <=> d \in index[o] /\ ~(d = c /\ o \in ended)
      BY <2>4
    <2>7. \A d \in Chats, o \in Operators :
            o \in follows'[d] <=> o \in follows[d] /\ ~(d = c /\ o \in ended)
      BY <2>5
    <2>8. IndexAgrees => IndexAgrees'
      BY <2>6, <2>7 DEF IndexAgrees, Agree
    <2> QED
      BY <1>1, <2>3, <2>5, <2>8, ChangeKeeps
  <1> QED
    BY <1>4, <1>5

(* The handler returns, and the change is marked.                            *)
LEMMA ReturnKeeps == ASSUME IInv, NEW answered \in BOOLEAN, Return(answered) PROVE IInv' /\ (Agreed => Agreed')
  <1>1. handler # Idle /\ handler.talk \in Talks /\ handler.talk[1] \in Chats
    BY ChatsAssumption DEF Return, Idle, IInv, HandlerChat
  <1>2. /\ marked' = marked \cup {handler.talk[1]} /\ handler' = Idle
        /\ UNCHANGED <<botVars, known, follows, dropped, disk, telegramVars>>
    BY DEF Return
  <1>3. TypeOK'
    <2>1. conv' \in [Talks -> States]
      BY <1>1 DEF Return, IInv, TypeOK
    <2>2. Idle \in [step : Steps, talk : Talks \cup {NoTalk}, ids : SUBSET Ids, next : States]
      BY DEF Idle, Steps, States
    <2> QED
      BY <1>1, <1>2, <2>1, <2>2 DEF IInv, TypeOK, botVars, telegramVars
  <1>4. HandlerChat' /\ DroppedChats' /\ DiskKnown'
    BY <1>2 DEF IInv, HandlerChat, DroppedChats, DiskKnown, botVars, telegramVars
  <1>5. ChangesAreWritten'
    BY <1>2 DEF IInv, ChangesAreWritten, Pending, Idle
  <1>6. Agreed => Agreed'
    BY <1>2 DEF Agreed, IndexAgrees, Agree, OldChatForgotten, botVars, telegramVars
  <1> QED
    BY <1>3, <1>4, <1>5, <1>6 DEF IInv

(* A member joins or leaves.                                                 *)
LEMMA TrackKeeps ==
  ASSUME IInv, NEW c \in Chats, NEW isMember \in BOOLEAN, TrackChats(c, isMember)
  PROVE  IInv' /\ (Agreed => Agreed')
  <1>1. /\ handler = Idle /\ handler' = handler
        /\ c \in Groups => c \notin upgraded
        /\ known' = known \cup {c} /\ marked' = marked \cup {c}
        /\ UNCHANGED <<index, follows, dropped, conv, disk, telegramVars>>
    BY DEF TrackChats, Open
  <1>2. actual' \subseteq actual \cup {c}
    BY DEF TrackChats
  <1>3. TypeOK'
    <2>1. actual' \subseteq Chats /\ known' \subseteq Chats /\ marked' \subseteq Chats
      BY <1>1, <1>2 DEF IInv, TypeOK
    <2>2. \A d \in Chats \ known' : follows'[d] = {}
      BY <1>1 DEF IInv, TypeOK
    <2> QED
      BY <1>1, <2>1, <2>2 DEF IInv, TypeOK, telegramVars
  <1>4. HandlerChat' /\ DroppedChats' /\ DiskKnown'
    BY <1>1 DEF IInv, HandlerChat, DroppedChats, DiskKnown, telegramVars
  <1>5. ChangesAreWritten'
    BY <1>1 DEF IInv, ChangesAreWritten, Pending
  <1>6. ASSUME Agreed PROVE Agreed'
    <2>1. \A g \in heard : g # c
      BY <1>1 DEF IInv, TypeOK
    <2> QED
      BY <1>1, <1>2, <1>6, <2>1 DEF Agreed, IndexAgrees, Agree, OldChatForgotten, telegramVars
  <1> QED
    BY <1>3, <1>4, <1>5, <1>6 DEF IInv

LEMMA UpgradeKeeps == ASSUME IInv, NEW g \in Groups, TelegramUpgrades(g) PROVE IInv' /\ (Agreed => Agreed')
  <1>1. /\ upgraded' = upgraded \cup {g} /\ heard' = heard
        /\ UNCHANGED <<botVars, chatVars, conv, handler, disk>>
    BY DEF TelegramUpgrades
  <1>2. TypeOK'
    BY <1>1 DEF IInv, TypeOK, botVars, chatVars
  <1>3. HandlerChat' /\ DroppedChats' /\ DiskKnown'
    BY <1>1 DEF IInv, HandlerChat, DroppedChats, DiskKnown, chatVars
  <1>4. Agreed => Agreed'
    BY <1>1 DEF Agreed, IndexAgrees, Agree, OldChatForgotten, botVars, chatVars
  <1>5. ChangesAreWritten'
    BY <1>1 DEF IInv, ChangesAreWritten, Pending, chatVars
  <1> QED
    BY <1>2, <1>3, <1>4, <1>5 DEF IInv

-----------------------------------------------------------------------------
(* The upgrade of a group is announced.  What the old chat follows is moved  *)
(* to the new one, also if its data does not exist: then it follows nothing. *)
LEMMA MovedFollows ==
  ASSUME IInv, NEW a \in Announcements, ChatMigration(a)
  PROVE  /\ a[1] \in Groups /\ Upgrade[a[1]] \in Supers /\ a[1] # Upgrade[a[1]]
         /\ follows' = [follows EXCEPT ![Upgrade[a[1]]] = @ \cup follows[a[1]], ![a[1]] = {}]
         /\ known' \subseteq Chats
         /\ \A d \in Chats \ known' : d \notin known \/ d = a[1]
         /\ follows[a[1]] # {} => Upgrade[a[1]] \in known'
         /\ dropped \subseteq dropped' /\ dropped' \subseteq dropped \cup {a[1]}
         /\ marked \subseteq marked' /\ marked' \subseteq Chats
         /\ follows[a[1]] # {} => a[1] \in dropped' /\ Upgrade[a[1]] \in marked'
  <1> DEFINE old == a[1]
             new == Upgrade[a[1]]
             keys == known \cup {ChatOf(a)}
  <1>1. old \in Groups /\ new \in Supers /\ old # new /\ old \in Chats /\ new \in Chats
    BY ChatsAssumption DEF Announcements, Chats
  <1>2. ChatOf(a) \in {old, new}
    BY DEF ChatOf
  <1>3. follows \in Subscriptions /\ known \subseteq Chats /\ marked \subseteq Chats
        /\ \A d \in Chats \ known : follows[d] = {}
    BY DEF IInv, TypeOK
  <1>4. CASE old \in keys
    <2>1. /\ follows' = [follows EXCEPT ![new] = @ \cup follows[old], ![old] = {}]
          /\ known' = (keys \ {old}) \cup {new}
          /\ dropped' = dropped \cup {old}
          /\ marked' = marked \cup {new, ChatOf(a)}
      BY <1>4 DEF ChatMigration, MigrateChatSubscriptions
    <2> QED
      BY <1>1, <1>2, <1>3, <2>1
  <1>5. CASE old \notin keys
    <2>1. /\ follows' = follows /\ known' = keys /\ dropped' = dropped
          /\ marked' = marked \cup {ChatOf(a)}
      BY <1>5 DEF ChatMigration, MigrateChatSubscriptions
    <2>2. follows[old] = {}
      BY <1>1, <1>3, <1>5
    <2>3. follows = [follows EXCEPT ![new] = @ \cup follows[old], ![old] = {}]
      BY <1>1, <1>3, <2>2 DEF Subscriptions
    <2> QED
      BY <1>1, <1>2, <1>3, <2>1, <2>2, <2>3
  <1> QED
    BY <1>4, <1>5

LEMMA MigrationKeeps == ASSUME IInv, NEW a \in Announcements, ChatMigration(a) PROVE IInv' /\ (Agreed => Agreed')
  <1> DEFINE old == a[1]
             new == Upgrade[a[1]]
  <1>1. /\ old \in Groups /\ new \in Supers /\ old # new
        /\ old \in Chats /\ new \in Chats /\ new \notin Groups
    BY MovedFollows, ChatsAssumption DEF Chats
  <1>2. /\ handler = Idle /\ handler' = Idle /\ old \in upgraded
        /\ heard' = heard \cup {old} /\ upgraded' = upgraded
        /\ conv' = conv /\ disk' = disk
        /\ actual' = Renamed(actual, old, new)
    BY DEF ChatMigration, MigrateIndex
  <1>3. /\ index \in Index /\ follows \in Subscriptions
        /\ \A d \in Chats \ known : follows[d] = {}
    BY DEF IInv, TypeOK
  <1>4. /\ follows' \in Subscriptions
        /\ follows'[old] = {} /\ follows'[new] = follows[new] \cup follows[old]
        /\ \A d \in Chats : d # old /\ d # new => follows'[d] = follows[d]
    <2>1. follows' = [follows EXCEPT ![new] = @ \cup follows[old], ![old] = {}]
      BY MovedFollows
    <2> QED
      BY <1>1, <1>3, <2>1 DEF Subscriptions
  <1>5. /\ known' \subseteq Chats /\ dropped' \subseteq dropped \cup {old}
        /\ marked' \subseteq Chats /\ marked \subseteq marked' /\ dropped \subseteq dropped'
        /\ \A d \in Chats \ known' : d \notin known \/ d = old
        /\ follows[old] # {} => new \in known' /\ old \in dropped' /\ new \in marked'
    BY MovedFollows
  <1>6. \A d \in Chats \ known' : follows'[d] = {}
    <2>1. new \notin known' => follows'[new] = {}
      <3>1. ASSUME new \notin known' PROVE follows'[new] = {}
        <4>1. follows[old] = {} /\ new \notin known
          BY <1>1, <1>5, <3>1
        <4> QED
          BY <1>1, <1>3, <1>4, <4>1
      <3> QED
        BY <3>1
    <2> QED
      BY <1>1, <1>3, <1>4, <1>5, <2>1
  <1>7. \A o \in Operators :
          index'[o] = IF o \in follows'[new] THEN Renamed(index[o], old, new) \cup {new}
                                             ELSE Renamed(index[o], old, new)
    <2>1. (IF new \in known' THEN follows'[new] ELSE {}) = follows'[new]
      BY <1>1, <1>6
    <2>2. index' = Subscribed([o \in Operators |-> Renamed(index[o], old, new)],
                              IF new \in known' THEN follows'[new] ELSE {}, new)
      BY DEF ChatMigration, MigrateIndex
    <2>3. index' = Subscribed([o \in Operators |-> Renamed(index[o], old, new)],
                              follows'[new], new)
      BY <2>1, <2>2
    <2> QED
      BY <2>3 DEF Subscribed
  <1>8. \A o \in Operators : /\ Renamed(index[o], old, new) \subseteq Chats
                             /\ old \notin Renamed(index[o], old, new)
                             /\ new \in Renamed(index[o], old, new)
                                  <=> (old \in index[o] \/ new \in index[o])
                             /\ \A d \in Chats : d # old /\ d # new =>
                                  (d \in Renamed(index[o], old, new) <=> d \in index[o])
    BY <1>1, <1>3 DEF Renamed, Index
  <1>9. \A o \in Operators :
          /\ index'[o] \subseteq Chats
          /\ \A d \in Chats : d # old /\ d # new => (d \in index'[o] <=> d \in index[o])
          /\ old \notin index'[o]
          /\ new \in index'[o] <=> (old \in index[o] \/ new \in index[o] \/ o \in follows'[new])
    <2> TAKE o \in Operators
    <2> DEFINE r == Renamed(index[o], old, new)
    <2>1. /\ r \subseteq Chats /\ old \notin r
          /\ new \in r <=> (old \in index[o] \/ new \in index[o])
          /\ \A d \in Chats : d # old /\ d # new => (d \in r <=> d \in index[o])
      BY <1>8
    <2> HIDE DEF r
    <2>2. CASE o \in follows'[new]
      <3>1. index'[o] = r \cup {new}
        BY <1>7, <2>2 DEF r
      <3> QED
        BY <1>1, <2>1, <2>2, <3>1
    <2>3. CASE o \notin follows'[new]
      <3>1. index'[o] = r
        BY <1>7, <2>3 DEF r
      <3> QED
        BY <1>1, <2>1, <2>3, <3>1
    <2> QED
      BY <2>2, <2>3
  <1>10. index' \in Index
    <2>1. index' = [o \in Operators |-> index'[o]]
      BY DEF ChatMigration, MigrateIndex, Subscribed
    <2> QED
      BY <1>9, <2>1 DEF Index
  <1>11. actual' \subseteq Chats /\ old \notin actual' /\ actual' \subseteq actual \cup {new}
    BY <1>1, <1>2 DEF Renamed, IInv, TypeOK
  <1>12. TypeOK'
    <2>1. dropped' \subseteq Chats /\ heard' \subseteq upgraded'
      BY <1>1, <1>2, <1>5 DEF IInv, TypeOK
    <2>2. conv' \in [Talks -> States] /\ upgraded' \subseteq Groups
          /\ handler' \in [step : Steps, talk : Talks \cup {NoTalk}, ids : SUBSET Ids, next : States]
          /\ disk' \in [index : Index, actual : SUBSET Chats, known : SUBSET Chats,
                         follows : Subscriptions]
      BY <1>2 DEF IInv, TypeOK
    <2> QED
      BY <1>4, <1>5, <1>6, <1>10, <1>11, <2>1, <2>2 DEF TypeOK
  <1>13. HandlerChat' /\ DiskKnown'
    BY <1>2 DEF HandlerChat, DiskKnown, IInv
  <1>14. DroppedChats'
    <2>1. \A d \in dropped : d \in Groups /\ d \in upgraded /\ d \in Chats /\ follows[d] = {}
      BY DEF IInv, DroppedChats, TypeOK, Chats
    <2>2. \A d \in dropped : d # new /\ follows'[d] = {}
      BY <1>1, <1>4, <2>1
    <2> QED
      BY <1>2, <1>4, <1>5, <2>1, <2>2 DEF DroppedChats
  <1>15. ChangesAreWritten'
    <2>1. \A d \in Chats : disk.follows[d] = follows[d] \/ d \in marked \cup dropped
      BY <1>2 DEF IInv, ChangesAreWritten, Pending
    <2>2. \A d \in Chats : d \notin marked' \cup dropped' => follows'[d] = follows[d]
      <3>1. old \notin dropped' => follows'[old] = follows[old]
        BY <1>4, <1>5
      <3>2. new \notin marked' => follows'[new] = follows[new]
        BY <1>4, <1>5
      <3> QED
        BY <1>4, <3>1, <3>2
    <2> QED
      BY <1>2, <1>5, <2>1, <2>2 DEF ChangesAreWritten, Pending
  <1>16. ASSUME Agreed PROVE Agreed'
    <2>0. \A d \in Chats, o \in Operators : d \in index[o] <=> o \in follows[d]
      BY <1>16 DEF Agreed, IndexAgrees, Agree
    <2>1. \A o \in Operators : old \in index'[o] <=> o \in follows'[old]
      BY <1>4, <1>9
    <2>2. \A o \in Operators : new \in index'[o] <=> o \in follows'[new]
      BY <1>1, <1>4, <1>9, <2>0
    <2>3. \A d \in Chats, o \in Operators :
            d # old /\ d # new => (d \in index'[o] <=> o \in follows'[d])
      BY <1>4, <1>9, <2>0
    <2>4. \A d \in Chats, o \in Operators : d \in index'[o] <=> o \in follows'[d]
      BY <2>1, <2>2, <2>3
    <2>5. \A g \in heard : g \in Chats /\ g \in Groups /\ g \notin actual /\ follows[g] = {}
      BY <1>16 DEF IInv, TypeOK, Agreed, OldChatForgotten, Chats
    <2>6. \A g \in heard' : g \in Chats /\ g \notin actual' /\ follows'[g] = {}
      BY <1>1, <1>2, <1>4, <1>11, <2>5
    <2>7. \A g \in heard', o \in Operators : g \notin index'[o]
      BY <2>4, <2>6
    <2> QED
      BY <2>4, <2>6, <2>7 DEF Agreed, IndexAgrees, Agree, OldChatForgotten
  <1> QED
    BY <1>12, <1>13, <1>14, <1>15, <1>16 DEF IInv

-----------------------------------------------------------------------------
(* A write of everything that is due makes the file what the memory is.      *)
LEMMA WrittenPieces ==
  ASSUME IInv
  PROVE  LET w == Written(Pieces) IN
         /\ w \in [index : Index, actual : SUBSET Chats, known : SUBSET Chats,
                   follows : Subscriptions]
         /\ w.index = index /\ w.actual = actual
         /\ \A c \in Chats \ w.known : w.follows[c] = {}
         /\ \A c \in Chats : w.follows[c] = follows[c]
                              \/ (handler # Idle /\ handler.talk[1] = c)
  <1> DEFINE upd == marked \ dropped
             fol == [c \in Chats |-> IF c \in dropped THEN {}
                                     ELSE IF c \in upd THEN follows[c] ELSE disk.follows[c]]
             kn == (disk.known \cup upd) \ dropped
  <1>1. Written(Pieces) = [index |-> index, actual |-> actual, known |-> kn, follows |-> fol]
    <2>1. Updated \cap Pieces = upd /\ dropped \cap Pieces = dropped /\ "bot" \in Pieces
      BY DEF Updated, Pieces
    <2> QED
      BY <2>1 DEF Written
  <1>2. /\ index \in Index /\ actual \subseteq Chats /\ follows \in Subscriptions
        /\ marked \subseteq Chats /\ disk.known \subseteq Chats
        /\ disk.follows \in Subscriptions
    BY DEF IInv, TypeOK
  <1>3. \A c \in Chats : /\ c \in dropped => fol[c] = {}
                         /\ c \notin dropped /\ c \in marked => fol[c] = follows[c]
                         /\ c \notin dropped /\ c \notin marked => fol[c] = disk.follows[c]
    OBVIOUS
  <1>4. fol \in Subscriptions
    BY <1>2 DEF Subscriptions
  <1> HIDE DEF fol
  <1>5. kn \subseteq Chats
    BY <1>2
  <1>6. \A c \in Chats \ kn : fol[c] = {}
    BY <1>3 DEF IInv, DiskKnown
  <1>7. \A c \in Chats : fol[c] = follows[c] \/ (handler # Idle /\ handler.talk[1] = c)
    BY <1>3 DEF IInv, DroppedChats, ChangesAreWritten, Pending
  <1> HIDE DEF kn
  <1> QED
    BY <1>1, <1>2, <1>4, <1>5, <1>6, <1>7

LEMMA WriteKeeps == ASSUME IInv, UpdatePersistence PROVE IInv' /\ (Agreed => Agreed')
  <1>1. /\ disk' = Written(Pieces) /\ marked' = {} /\ dropped' = {}
        /\ UNCHANGED <<botVars, known, follows, conv, handler, telegramVars>>
    BY DEF UpdatePersistence
  <1>2. /\ disk' \in [index : Index, actual : SUBSET Chats, known : SUBSET Chats,
                      follows : Subscriptions]
        /\ \A c \in Chats \ disk'.known : disk'.follows[c] = {}
        /\ \A c \in Chats : disk'.follows[c] = follows[c]
                             \/ (handler # Idle /\ handler.talk[1] = c)
    BY <1>1, WrittenPieces
  <1>3. TypeOK'
    BY <1>1, <1>2 DEF IInv, TypeOK, botVars, telegramVars
  <1>4. HandlerChat'
    BY <1>1 DEF IInv, HandlerChat, telegramVars
  <1>5. DroppedChats' /\ DiskKnown'
    BY <1>1, <1>2 DEF DroppedChats, DiskKnown
  <1>6. Agreed => Agreed'
    BY <1>1 DEF Agreed, IndexAgrees, Agree, OldChatForgotten, botVars, telegramVars
  <1>7. ChangesAreWritten'
    BY <1>1, <1>2 DEF ChangesAreWritten, Pending
  <1> QED
    BY <1>3, <1>4, <1>5, <1>6, <1>7 DEF IInv

LEMMA StopKeeps == ASSUME IInv, Stop PROVE IInv' /\ (Agreed => Agreed')
  <1>1. /\ handler = Idle /\ handler' = Idle /\ disk' = Written(Pieces)
        /\ index' = disk'.index /\ actual' = disk'.actual
        /\ known' = disk'.known /\ follows' = disk'.follows
        /\ marked' = {} /\ dropped' = {} /\ conv' = [t \in Talks |-> "none"]
        /\ upgraded' = upgraded /\ heard' = heard
    BY DEF Stop, Reboot, telegramVars
  <1>2. /\ disk' \in [index : Index, actual : SUBSET Chats, known : SUBSET Chats,
                      follows : Subscriptions]
        /\ disk'.index = index /\ disk'.actual = actual
        /\ \A c \in Chats \ disk'.known : disk'.follows[c] = {}
        /\ \A c \in Chats : disk'.follows[c] = follows[c]
    BY <1>1, WrittenPieces
  <1>3. disk'.follows = follows
    BY <1>2 DEF IInv, TypeOK, Subscriptions
  <1>4. index' = index /\ actual' = actual /\ follows' = follows
    BY <1>1, <1>2, <1>3
  <1>5. TypeOK'
    <2>1. conv' \in [Talks -> States]
      BY <1>1 DEF States
    <2>2. handler' \in [step : Steps, talk : Talks \cup {NoTalk}, ids : SUBSET Ids, next : States]
      BY <1>1 DEF Idle, Steps, States
    <2> QED
      BY <1>1, <1>2, <2>1, <2>2 DEF IInv, TypeOK
  <1>6. HandlerChat' /\ DroppedChats' /\ DiskKnown'
    BY <1>1, <1>2 DEF HandlerChat, DroppedChats, DiskKnown
  <1>7. Agreed => Agreed'
    BY <1>1, <1>4 DEF Agreed, IndexAgrees, Agree, OldChatForgotten
  <1>8. ChangesAreWritten'
    BY <1>1 DEF ChangesAreWritten
  <1> QED
    BY <1>5, <1>6, <1>7, <1>8 DEF IInv

-----------------------------------------------------------------------------
(* A crash between any two pieces of a write.                                *)
LEMMA WrittenSome ==
  ASSUME IInv, NEW p \in SUBSET Pieces
  PROVE  LET w == Written(p) IN
         /\ w \in [index : Index, actual : SUBSET Chats, known : SUBSET Chats,
                   follows : Subscriptions]
         /\ \A c \in Chats \ w.known : w.follows[c] = {}
  <1> DEFINE upd == Updated \cap p
             del == dropped \cap p
             fol == [c \in Chats |-> IF c \in del THEN {}
                                     ELSE IF c \in upd THEN follows[c] ELSE disk.follows[c]]
             kn == (disk.known \cup upd) \ del
             ind == IF "bot" \in p THEN index ELSE disk.index
             act == IF "bot" \in p THEN actual ELSE disk.actual
  <1>1. Written(p) = [index |-> ind, actual |-> act, known |-> kn, follows |-> fol]
    BY DEF Written
  <1>2. /\ index \in Index /\ actual \subseteq Chats /\ follows \in Subscriptions
        /\ marked \subseteq Chats /\ disk.index \in Index /\ disk.actual \subseteq Chats
        /\ disk.known \subseteq Chats /\ disk.follows \in Subscriptions
    BY DEF IInv, TypeOK
  <1>3. ind \in Index /\ act \subseteq Chats
    BY <1>2
  <1>4. fol \in Subscriptions
    BY <1>2 DEF Subscriptions
  <1>5. kn \subseteq Chats
    BY <1>2 DEF Updated
  <1>6. \A c \in Chats \ kn : fol[c] = {}
    BY DEF IInv, DiskKnown
  <1> HIDE DEF ind, act, kn, fol
  <1> QED
    BY <1>1, <1>3, <1>4, <1>5, <1>6

LEMMA CrashKeeps == ASSUME IInv, Crash PROVE IInv'
  <1>1. PICK p \in SUBSET Pieces : Reboot(p)
    BY DEF Crash
  <1>2. /\ handler' = Idle /\ disk' = Written(p)
        /\ index' = disk'.index /\ actual' = disk'.actual
        /\ known' = disk'.known /\ follows' = disk'.follows
        /\ marked' = {} /\ dropped' = {} /\ conv' = [t \in Talks |-> "none"]
        /\ upgraded' = upgraded /\ heard' = heard
    BY <1>1 DEF Reboot, telegramVars
  <1>3. /\ disk' \in [index : Index, actual : SUBSET Chats, known : SUBSET Chats,
                      follows : Subscriptions]
        /\ \A c \in Chats \ disk'.known : disk'.follows[c] = {}
    BY <1>2, WrittenSome
  <1>4. TypeOK'
    <2>1. conv' \in [Talks -> States]
      BY <1>2 DEF States
    <2>2. handler' \in [step : Steps, talk : Talks \cup {NoTalk}, ids : SUBSET Ids, next : States]
      BY <1>2 DEF Idle, Steps, States
    <2> QED
      BY <1>2, <1>3, <2>1, <2>2 DEF IInv, TypeOK
  <1>5. HandlerChat' /\ DroppedChats' /\ DiskKnown'
    BY <1>2, <1>3 DEF HandlerChat, DroppedChats, DiskKnown
  <1>6. ChangesAreWritten'
    BY <1>2 DEF ChangesAreWritten
  <1> QED
    BY <1>4, <1>5, <1>6 DEF IInv

-----------------------------------------------------------------------------
LEMMA InvStep == IInv /\ [Next]_vars => IInv' /\ (Agreed => Agreed')
  <1> SUFFICES ASSUME IInv, [Next]_vars PROVE IInv' /\ (Agreed => Agreed')
    OBVIOUS
  <1>1. CASE \E t \in Talks : Converse(t)
    BY <1>1, ConverseKeeps
  <1>2. CASE Follow \/ Unfollow
    BY <1>2, FollowKeeps
  <1>3. CASE \E b \in BOOLEAN : Return(b)
    BY <1>3, ReturnKeeps
  <1>4. CASE \E c \in Chats, b \in BOOLEAN : TrackChats(c, b)
    BY <1>4, TrackKeeps
  <1>5. CASE \E g \in Groups : TelegramUpgrades(g)
    BY <1>5, UpgradeKeeps
  <1>6. CASE \E a \in Announcements : ChatMigration(a)
    BY <1>6, MigrationKeeps
  <1>7. CASE UpdatePersistence
    BY <1>7, WriteKeeps
  <1>8. CASE Stop
    BY <1>8, StopKeeps
  <1>9. CASE UNCHANGED vars
    <2>1. UNCHANGED <<index, actual, known, follows, marked, dropped, conv, handler, disk,
                      upgraded, heard>>
      BY <1>9 DEF vars, botVars, chatVars, telegramVars
    <2> QED
      BY <2>1
      DEF IInv, Agreed, TypeOK, HandlerChat, DroppedChats, DiskKnown, IndexAgrees, Agree,
          ChangesAreWritten, Pending, OldChatForgotten
  <1> QED
    BY <1>1, <1>2, <1>3, <1>4, <1>5, <1>6, <1>7, <1>8, <1>9 DEF Next

LEMMA Inductive == Spec => [](IInv /\ Agreed)
  BY InvInit, InvStep, PTL DEF Spec

LEMMA CrashInductive == CrashSpec => []IInv
  <1>1. IInv /\ [Next \/ Crash]_vars => IInv'
    BY InvStep, CrashKeeps
  <1> QED
    BY InvInit, <1>1, PTL DEF CrashSpec

(* Each variable holds what the code keeps in it, also after a crash in the  *)
(* middle of a write (start.py, tracking.py).                                *)
THEOREM TypeCorrect == CrashSpec => []TypeOK
  <1>1. IInv => TypeOK
    BY DEF IInv
  <1> QED
    BY CrashInductive, <1>1, PTL

(* No change of what a chat follows is forgotten by the next write, even     *)
(* after crashes in the middle of one (tracking.py 22-33).                   *)
THEOREM ChangesWritten == CrashSpec => []ChangesAreWritten
  <1>1. IInv => ChangesAreWritten
    BY DEF IInv
  <1> QED
    BY CrashInductive, <1>1, PTL

(* Index and chat data agree for any chats, operators and conversations, in  *)
(* any order of commands, failed answers, upgrades and regular restarts      *)
(* (start.py 313-496, tracking.py 12-68).                                    *)
THEOREM IndexAlwaysAgrees == Spec => []IndexAgrees
  <1>1. Agreed => IndexAgrees
    BY DEF Agreed
  <1> QED
    BY Inductive, <1>1, PTL

(* An announced upgrade leaves no trace of the old chat, in any order and    *)
(* number of the announcements (tracking.py 36-68, storage.py 195-210).      *)
THEOREM UpgradedForgotten == Spec => []OldChatForgotten
  <1>1. Agreed => OldChatForgotten
    BY DEF Agreed
  <1> QED
    BY Inductive, <1>1, PTL

-----------------------------------------------------------------------------
(* The ledger.  A chat belongs to one family, a supergroup that is open too. *)
HandlerFamily == handler # Idle => \E f \in Families : handler.talk[1] \in FamilyOf(f)

FamilyIn(c) == CHOOSE f \in Families : c \in FamilyOf(f)

LEMMA FamilyUnique ==
  ASSUME NEW f \in Families, NEW h \in Families, NEW c, c \in FamilyOf(f), c \in FamilyOf(h)
  PROVE  f = h
  <1>1. /\ \A d \in Groups : Upgrade[d] \in Supers
        /\ \A d, e \in Groups : Upgrade[d] = Upgrade[e] => d = e
        /\ Users \cap Groups = {} /\ Users \cap Supers = {} /\ Groups \cap Supers = {}
    BY ChatsAssumption
  <1> QED
    BY <1>1 DEF Families, FamilyOf

LEMMA FamilyChosen ==
  ASSUME NEW c, \E f \in Families : c \in FamilyOf(f)
  PROVE  /\ FamilyIn(c) \in Families /\ c \in FamilyOf(FamilyIn(c))
         /\ \A f \in Families : c \in FamilyOf(f) => f = FamilyIn(c)
  <1>1. FamilyIn(c) \in Families /\ c \in FamilyOf(FamilyIn(c))
    BY DEF FamilyIn
  <1> QED
    BY <1>1, FamilyUnique

LEMMA FamiliesAreChats == \A f \in Families : FamilyOf(f) \subseteq Chats
  <1>1. \A g \in Groups : Upgrade[g] \in Supers
    BY ChatsAssumption
  <1> QED
    BY <1>1 DEF Families, FamilyOf, Chats

LEMMA OpenFamily ==
  ASSUME IInv, NEW c \in Chats, Open(c)
  PROVE  \E f \in Families : c \in FamilyOf(f)
  <1>1. upgraded \subseteq Groups
    BY DEF IInv, TypeOK
  <1>2. CASE c \in Supers
    <2>1. PICK g \in upgraded : Upgrade[g] = c
      BY <1>2 DEF Open
    <2> QED
      BY <1>1, <2>1 DEF Families, FamilyOf
  <1>3. CASE c \notin Supers
    BY <1>3 DEF Chats, Families, FamilyOf
  <1> QED
    BY <1>2, <1>3

(* A command is asked by the step that enters its handler.                   *)
LEMMA EnterAsks ==
  ASSUME IInv, NEW t \in Talks, NEW step \in Steps \ {"idle"}, NEW ids \in SUBSET Ids,
         NEW next, Enter(t, step, ids, next)
  PROVE  HandlerFamily' /\ [Ledger!Next]_<<Wanted, Asked>>
  <1>1. /\ handler = Idle /\ Open(t[1]) /\ follows' = follows
        /\ handler' = [step |-> step, talk |-> t, ids |-> ids, next |-> next]
        /\ t[1] \in Chats
    BY ChatsAssumption DEF Enter
  <1>2. \E f \in Families : t[1] \in FamilyOf(f)
    BY <1>1, OpenFamily
  <1>3. HandlerFamily'
    BY <1>1, <1>2 DEF HandlerFamily
  <1>4. Wanted' = Wanted /\ Asked = Ledger!NoCommand
    BY <1>1 DEF Wanted, Asked, Ledger!NoCommand, Idle
  <1>5. CASE step = "replying"
    <2>1. Asked' = Ledger!NoCommand
      BY <1>1, <1>5 DEF Asked, Ledger!NoCommand
    <2> QED
      BY <1>3, <1>4, <2>1
  <1>6. CASE step \in {"validating", "answering"}
    <2>1. Asked' = [kind |-> IF step = "validating" THEN "follow" ELSE "unfollow",
                    family |-> FamilyIn(t[1]), ids |-> ids]
      BY <1>1, <1>6 DEF Asked, FamilyIn
    <2>2. FamilyIn(t[1]) \in Families
      BY <1>2, FamilyChosen
    <2>3. Asked' \in Ledger!Commands
      BY <2>1, <2>2 DEF Ledger!Commands, Ids
    <2> QED
      BY <1>3, <1>4, <2>3 DEF Ledger!Next, Ledger!Ask
  <1> QED
    BY <1>5, <1>6 DEF Steps

LEMMA ConverseAsks ==
  ASSUME IInv, NEW t \in Talks, Converse(t)
  PROVE  HandlerFamily' /\ [Ledger!Next]_<<Wanted, Asked>>
  <1>1. CASE Start(t)
    BY <1>1, EnterAsks DEF Start, Steps
  <1>2. ASSUME NEW next \in States, Navigate(t, next)
        PROVE  HandlerFamily' /\ [Ledger!Next]_<<Wanted, Asked>>
    BY <1>2, EnterAsks DEF Navigate, Steps
  <1>3. ASSUME NEW ids \in SUBSET Ids, FollowMessage(t, ids) \/ UnfollowMessage(t, ids)
        PROVE  HandlerFamily' /\ [Ledger!Next]_<<Wanted, Asked>>
    BY <1>3, EnterAsks DEF FollowMessage, UnfollowMessage, Steps
  <1> QED
    BY <1>1, <1>2, <1>3 DEF Converse

(* The family of the chat that is answered.                                  *)
LEMMA AnsweredFamily ==
  ASSUME IInv, HandlerFamily, Follow \/ Unfollow
  PROVE  LET c == handler.talk[1]
             f == FamilyIn(c) IN
         /\ f \in Families /\ c \in FamilyOf(f) /\ c \in Chats
         /\ \A h \in Families : h # f => Wanted'[h] = Wanted[h]
         /\ Wanted' = [h \in Families |-> Wanted'[h]]
         /\ Asked.family = f /\ Asked.ids = handler.ids
         /\ Asked # Ledger!NoCommand /\ Asked' = Ledger!NoCommand
         /\ Asked.kind = IF Follow THEN "follow" ELSE "unfollow"
         /\ HandlerFamily'
  <1> DEFINE c == handler.talk[1]
             f == FamilyIn(c)
  <1>1. /\ handler.step \in {"validating", "answering"} /\ handler # Idle
        /\ handler' = [handler EXCEPT !.step = "replying"]
        /\ Follow <=> handler.step = "validating"
    BY DEF Follow, Unfollow, Idle
  <1>2. f \in Families /\ c \in FamilyOf(f) /\ \A h \in Families : c \in FamilyOf(h) => h = f
    BY <1>1, FamilyChosen DEF HandlerFamily
  <1>3. c \in Chats
    BY <1>2, FamiliesAreChats
  <1>4. \A d \in Chats : d # c => follows'[d] = follows[d]
    BY <1>3 DEF Follow, Unfollow, IInv, TypeOK, Subscriptions
  <1>5. \A h \in Families : h # f => Wanted'[h] = Wanted[h]
    <2> SUFFICES ASSUME NEW h \in Families, h # f
                 PROVE  Wanted'[h] = Wanted[h]
      OBVIOUS
    <2>1. \A d \in FamilyOf(h) : follows'[d] = follows[d]
      BY <1>2, <1>4, FamiliesAreChats
    <2>2. FamilyOf(h)' = FamilyOf(h)
      BY DEF FamilyOf
    <2> QED
      BY <2>1 DEF Wanted
  <1>6. Asked = [kind |-> IF handler.step = "validating" THEN "follow" ELSE "unfollow",
                 family |-> f, ids |-> handler.ids]
    BY <1>1 DEF Asked, FamilyIn
  <1>7. handler'.step = "replying" /\ handler'.talk = handler.talk
    BY <1>1 DEF IInv, TypeOK
  <1>8. Asked' = Ledger!NoCommand
    BY <1>7 DEF Asked, Ledger!NoCommand
  <1>9. Asked # Ledger!NoCommand
    BY <1>6 DEF Ledger!NoCommand
  <1>10. HandlerFamily'
    BY <1>2, <1>7 DEF HandlerFamily, FamilyOf
  <1>11. Asked.kind = IF Follow THEN "follow" ELSE "unfollow"
    BY <1>1, <1>6
  <1>12. Wanted' = [h \in Families |-> Wanted'[h]]
    BY DEF Wanted
  <1> QED
    BY <1>2, <1>3, <1>5, <1>6, <1>8, <1>9, <1>10, <1>11, <1>12

LEMMA FollowAnswers ==
  ASSUME IInv, HandlerFamily, Follow
  PROVE  Ledger!AnswerFollow
  <1> DEFINE c == handler.talk[1]
             f == FamilyIn(c)
             ids == handler.ids
             valid == IF ids \subseteq Operators THEN ids ELSE {}
  <1>1. /\ f \in Families /\ c \in FamilyOf(f) /\ c \in Chats
        /\ \A h \in Families : h # f => Wanted'[h] = Wanted[h]
        /\ Wanted' = [h \in Families |-> Wanted'[h]]
        /\ Asked.family = f /\ Asked.ids = ids
        /\ Asked # Ledger!NoCommand /\ Asked' = Ledger!NoCommand
        /\ Asked.kind = "follow"
    BY AnsweredFamily
  <1>2. follows' = [follows EXCEPT ![c] = @ \cup valid] /\ follows \in Subscriptions
    BY DEF Follow, IInv, TypeOK
  <1>3. /\ follows'[c] = follows[c] \cup valid
        /\ \A d \in FamilyOf(f) : d # c => follows'[d] = follows[d]
    BY <1>1, <1>2, FamiliesAreChats DEF Subscriptions
  <1>4. Ledger!Granted(ids) = valid
    BY DEF Ledger!Granted
  <1> HIDE DEF valid
  <1>5. Wanted'[f] = Wanted[f] \cup valid
    <2>1. Wanted[f] = UNION {follows[d] : d \in FamilyOf(f)}
      BY <1>1 DEF Wanted
    <2>2. Wanted'[f] = UNION {follows'[d] : d \in FamilyOf(f)}
      BY <1>1 DEF Wanted, FamilyOf
    <2>3. \A o : (\E d \in FamilyOf(f) : o \in follows'[d])
                 <=> (o \in valid \/ \E d \in FamilyOf(f) : o \in follows[d])
      BY <1>1, <1>3
    <2> QED
      BY <2>1, <2>2, <2>3
  <1>6. Wanted' = [Wanted EXCEPT ![Asked.family] = @ \cup Ledger!Granted(Asked.ids)]
    <2>1. Wanted = [h \in Families |-> Wanted[h]]
      BY DEF Wanted
    <2> QED
      BY <1>1, <1>4, <1>5, <2>1
  <1> QED
    BY <1>1, <1>6 DEF Ledger!AnswerFollow

LEMMA UnfollowAnswers ==
  ASSUME IInv, HandlerFamily, Unfollow
  PROVE  Ledger!AnswerUnfollow
  <1> DEFINE c == handler.talk[1]
             f == FamilyIn(c)
             ids == handler.ids
             ended == IF ids \subseteq follows[c] THEN ids ELSE {}
             lost == Wanted[f] \ Wanted'[f]
  <1>1. ~Follow
    BY DEF Follow, Unfollow
  <1>2. /\ f \in Families /\ c \in FamilyOf(f) /\ c \in Chats
        /\ \A h \in Families : h # f => Wanted'[h] = Wanted[h]
        /\ Wanted' = [h \in Families |-> Wanted'[h]]
        /\ Asked.family = f /\ Asked.ids = ids
        /\ Asked # Ledger!NoCommand /\ Asked' = Ledger!NoCommand
        /\ Asked.kind = "unfollow"
    BY <1>1, AnsweredFamily
  <1>3. follows' = [follows EXCEPT ![c] = @ \ ended] /\ follows \in Subscriptions
    BY DEF Unfollow, IInv, TypeOK
  <1>4. ended \subseteq ids
    OBVIOUS
  <1> HIDE DEF ended
  <1>5. /\ follows'[c] = follows[c] \ ended
        /\ \A d \in FamilyOf(f) : d # c => follows'[d] = follows[d]
    BY <1>2, <1>3, FamiliesAreChats DEF Subscriptions
  <1>6. lost \subseteq ids /\ Wanted'[f] = Wanted[f] \ lost
    <2>1. Wanted[f] = UNION {follows[d] : d \in FamilyOf(f)}
      BY <1>2 DEF Wanted
    <2>2. Wanted'[f] = UNION {follows'[d] : d \in FamilyOf(f)}
      BY <1>2 DEF Wanted, FamilyOf
    <2>3. \A d \in FamilyOf(f) : \A o : o \in follows'[d] => o \in follows[d]
      BY <1>5
    <2>4. \A d \in FamilyOf(f) : \A o : o \in follows[d] => o \in follows'[d] \/ o \in ended
      BY <1>5
    <2>5. \A o : o \in Wanted'[f] => o \in Wanted[f]
      BY <2>1, <2>2, <2>3
    <2>6. \A o : o \in Wanted[f] => o \in Wanted'[f] \/ o \in ended
      BY <2>1, <2>2, <2>4
    <2> QED
      BY <1>4, <2>5, <2>6
  <1> HIDE DEF lost
  <1>7. Wanted' = [Wanted EXCEPT ![Asked.family] = @ \ lost]
    <2>1. Wanted = [h \in Families |-> Wanted[h]]
      BY DEF Wanted
    <2> QED
      BY <1>2, <1>6, <2>1
  <1>8. lost \in SUBSET Asked.ids
    BY <1>2, <1>6
  <1> QED
    BY <1>2, <1>7, <1>8 DEF Ledger!AnswerUnfollow

(* An upgrade moves what is followed within a family.                        *)
LEMMA MigrationDoesNotShow ==
  ASSUME IInv, NEW a \in Announcements, ChatMigration(a)
  PROVE  Wanted' = Wanted
  <1> DEFINE old == a[1]
             new == Upgrade[a[1]]
  <1>1. /\ old \in Groups /\ new \in Supers /\ old # new
        /\ follows' = [follows EXCEPT ![new] = @ \cup follows[old], ![old] = {}]
        /\ old \in Chats /\ new \in Chats /\ follows \in Subscriptions
    BY MovedFollows DEF Chats, IInv, TypeOK
  <1>2. /\ follows'[old] = {} /\ follows'[new] = follows[new] \cup follows[old]
        /\ \A d \in Chats : d # old /\ d # new => follows'[d] = follows[d]
    BY <1>1 DEF Subscriptions
  <1>3. old \in Families /\ FamilyOf(old) = {old, new}
    BY <1>1 DEF Families, FamilyOf
  <1>4. \A h \in Families : Wanted'[h] = Wanted[h]
    <2> SUFFICES ASSUME NEW h \in Families
                 PROVE  Wanted'[h] = Wanted[h]
      OBVIOUS
    <2>1. /\ Wanted[h] = UNION {follows[d] : d \in FamilyOf(h)}
          /\ Wanted'[h] = UNION {follows'[d] : d \in FamilyOf(h)}
      BY DEF Wanted, FamilyOf
    <2>2. CASE h = old
      <3>1. UNION {follows[d] : d \in {old, new}} = follows[old] \cup follows[new]
        OBVIOUS
      <3>2. UNION {follows'[d] : d \in {old, new}} = follows'[old] \cup follows'[new]
        OBVIOUS
      <3> QED
        BY <1>2, <1>3, <2>1, <2>2, <3>1, <3>2
    <2>3. CASE h # old
      <3>1. old \notin FamilyOf(h) /\ new \notin FamilyOf(h)
        BY <1>3, <2>3, FamilyUnique
      <3>2. \A d \in FamilyOf(h) : follows'[d] = follows[d]
        BY <1>2, <3>1, FamiliesAreChats
      <3> QED
        BY <2>1, <3>2
    <2> QED
      BY <2>2, <2>3
  <1> QED
    BY <1>4 DEF Wanted

LEMMA LedgerStep ==
  IInv /\ HandlerFamily /\ [Next]_vars => HandlerFamily' /\ [Ledger!Next]_<<Wanted, Asked>>
  <1> SUFFICES ASSUME IInv, HandlerFamily, [Next]_vars
               PROVE  HandlerFamily' /\ [Ledger!Next]_<<Wanted, Asked>>
    OBVIOUS
  <1>1. ASSUME handler' = handler, follows' = follows
        PROVE  HandlerFamily' /\ [Ledger!Next]_<<Wanted, Asked>>
    <2>1. HandlerFamily'
      BY <1>1 DEF HandlerFamily, FamilyOf
    <2>2. Wanted' = Wanted /\ Asked' = Asked
      BY <1>1 DEF Wanted, Asked, FamilyOf
    <2> QED
      BY <2>1, <2>2
  <1>2. ASSUME handler' = Idle, Wanted' = Wanted, handler.step \in {"idle", "replying"}
        PROVE  HandlerFamily' /\ [Ledger!Next]_<<Wanted, Asked>>
    <2>1. Asked = Asked'
      BY <1>2 DEF Asked, Idle
    <2> QED
      BY <1>2, <2>1 DEF HandlerFamily
  <1>3. CASE \E t \in Talks : Converse(t)
    BY <1>3, ConverseAsks
  <1>4. CASE Follow
    BY <1>4, FollowAnswers, AnsweredFamily DEF Ledger!Next
  <1>5. CASE Unfollow
    BY <1>5, UnfollowAnswers, AnsweredFamily DEF Ledger!Next
  <1>6. CASE \E b \in BOOLEAN : Return(b)
    <2>1. handler' = Idle /\ follows' = follows /\ handler.step = "replying"
      BY <1>6 DEF Return
    <2>2. Wanted' = Wanted
      BY <2>1 DEF Wanted, FamilyOf
    <2> QED
      BY <1>2, <2>1, <2>2
  <1>7. CASE \E c \in Chats, b \in BOOLEAN : TrackChats(c, b)
    BY <1>1, <1>7 DEF TrackChats
  <1>8. CASE \E g \in Groups : TelegramUpgrades(g)
    BY <1>1, <1>8 DEF TelegramUpgrades, chatVars
  <1>9. ASSUME NEW a \in Announcements, ChatMigration(a)
        PROVE  HandlerFamily' /\ [Ledger!Next]_<<Wanted, Asked>>
    <2>1. handler' = Idle /\ handler.step = "idle"
      BY <1>9 DEF ChatMigration, Idle
    <2> QED
      BY <1>2, <1>9, <2>1, MigrationDoesNotShow
  <1>10. CASE UpdatePersistence
    BY <1>1, <1>10 DEF UpdatePersistence
  <1>11. CASE Stop
    <2>1. /\ handler = Idle /\ handler' = Idle /\ disk' = Written(Pieces)
          /\ follows' = disk'.follows
      BY <1>11 DEF Stop, Reboot
    <2>2. follows \in Subscriptions /\ disk'.follows \in Subscriptions
          /\ \A c \in Chats : disk'.follows[c] = follows[c]
      BY <2>1, WrittenPieces DEF IInv, TypeOK
    <2>3. follows' = follows
      BY <2>1, <2>2 DEF Subscriptions
    <2> QED
      BY <1>1, <2>1, <2>3
  <1>12. CASE UNCHANGED vars
    BY <1>1, <1>12 DEF vars, chatVars
  <1> QED
    BY <1>3, <1>4, <1>5, <1>6, <1>7, <1>8, <1>9, <1>10, <1>11, <1>12 DEF Next

(* What a chat follows changes by the answers to its own commands only,      *)
(* whatever upgrades, announcements, writes and regular restarts come in     *)
(* between: the bot implements SubscriptionLedger (start.py 313-496,         *)
(* tracking.py 12-68).                                                       *)
THEOREM ImplementsLedger == Spec => KeepsLedger
  <1>1. ASSUME Init PROVE HandlerFamily /\ Ledger!Init
    <2>1. handler = Idle /\ follows = NoFollows
      BY <1>1 DEF Init
    <2>2. \A f \in Families : UNION {follows[c] : c \in FamilyOf(f)} = {}
      <3>1. \A f \in Families : \A c \in FamilyOf(f) : follows[c] = {}
        BY <2>1, FamiliesAreChats DEF NoFollows
      <3> QED
        BY <3>1
    <2>3. Wanted = [f \in Families |-> {}]
      BY <2>2 DEF Wanted
    <2>4. Asked = Ledger!NoCommand
      BY <2>1 DEF Asked, Ledger!NoCommand, Idle
    <2> QED
      BY <2>1, <2>3, <2>4 DEF HandlerFamily, Ledger!Init
  <1> QED
    BY <1>1, LedgerStep, Inductive, PTL DEF Spec, KeepsLedger, Ledger!Spec

-----------------------------------------------------------------------------
(* The caches of AdapterCaches.                                              *)
EventRecords ==
  [event : {"NodeOperatorAdded", "OperatorMetadataSet"}, operator : Caches!OperatorIds,
   name : Names \cup {None}]
ReaderRecords ==
  [at : {"idle", "wantsCount", "wantsLabels"} \cup Caches!Asking,
   value : {None} \cup Nat \cup Names, todo : SUBSET Caches!OperatorIds, next : {"idle", "options"}]

Adds(i, o)    == log[i].event = "NodeOperatorAdded" /\ log[i].operator = o
Renames(i, o) == log[i].event = "OperatorMetadataSet" /\ log[i].operator = o

(* What the log says of the chain.                                           *)
LogTells ==
  /\ log \in Seq(EventRecords)
  /\ name \in [Caches!OperatorIds -> Names]
  /\ \A i \in 1..Len(log) : log[i].operator < count
  /\ \A i \in 1..Len(log), o \in Caches!OperatorIds : Renames(i, o) => log[i].name \in Names
  /\ \A i \in 1..Len(log), o \in Caches!OperatorIds :
       Renames(i, o) /\ (\A j \in (i + 1)..Len(log) : ~Renames(j, o)) => log[i].name = name[o]

CachesType ==
  /\ Caches!TypeOK
  /\ reader \in [Readers -> ReaderRecords]
  /\ \A r \in Readers : reader[r].at \in {"askedLabel", "gotLabel"} => reader[r].todo # {}
  /\ countRaced \in BOOLEAN /\ labelRaced \in [Caches!OperatorIds -> BOOLEAN]

(* The number of operators covers every addition that was handled, and an    *)
(* answer under way was true when it was given.                              *)
CountHeld ==
  \/ countRaced
  \/ \A i \in 1..position, o \in Caches!OperatorIds :
       Adds(i, o) => countCache \in Nat /\ countCache > o
CountAnswers == \A r \in Readers : reader[r].at = "gotCount" => reader[r].value \in 1..count

(* A label is that of the chain until its next renaming; an operator whose   *)
(* renaming was handled has a label; and an answer under way is true unless  *)
(* the operator was renamed.                                                 *)
LabelHeld ==
  \A o \in Caches!OperatorIds :
    \/ labelRaced[o] \/ labelCache[o] \in {None, name[o]}
    \/ \E i \in (position + 1)..Len(log) : Renames(i, o)
LabelKnown ==
  \A o \in Caches!OperatorIds, i \in 1..position : Renames(i, o) => labelCache[o] # None

Lowest(S) == CHOOSE o \in S : \A p \in S : o <= p
Told(o, n) == n \in Names /\ (n = name[o] \/ \E i \in 1..Len(log) : Renames(i, o))
LabelAnswers ==
  \A r \in Readers : reader[r].at = "gotLabel" => Told(Lowest(reader[r].todo), reader[r].value)

CachesInv ==
  CachesType /\ LogTells /\ CountHeld /\ CountAnswers /\ LabelHeld /\ LabelKnown /\ LabelAnswers

LEMMA CachesInitially == Caches!Init => CachesInv
  <1> SUFFICES ASSUME Caches!Init
               PROVE  CachesInv
    OBVIOUS
  <1>1. (CHOOSE n \in Names : TRUE) \in Names /\ None \notin Names \cup Nat /\ MaxOperators \in Nat \ {0}
    BY PartsAssumption DEF Caches!CachesAssumption
  <1>2. /\ log = <<>> /\ log \in Seq(EventRecords) /\ Len(log) = 0 /\ position = 0 /\ count = 1
        /\ countCache = None
    BY DEF Caches!Init
  <1>3. \A r \in Readers : reader[r].at = "idle"
    BY DEF Caches!Init, Caches!Idle
  <1>4. CachesType
    <2>1. /\ reader \in [Readers -> ReaderRecords]
          /\ countRaced \in BOOLEAN /\ labelRaced \in [Caches!OperatorIds -> BOOLEAN]
      BY DEF Caches!Init, Caches!Idle, ReaderRecords
    <2>2. Caches!TypeOK
      BY <1>1, <1>2, <1>3, PartsAssumption
      DEF Caches!Init, Caches!TypeOK, Caches!Asking, Caches!CachesAssumption
    <2> QED
      BY <1>3, <2>1, <2>2 DEF CachesType
  <1>5. LogTells
    BY <1>1, <1>2 DEF LogTells, Caches!Init
  <1>6. CountHeld /\ LabelKnown
    BY <1>2 DEF CountHeld, LabelKnown
  <1>7. CountAnswers /\ LabelAnswers
    BY <1>3 DEF CountAnswers, LabelAnswers
  <1>8. LabelHeld
    BY DEF Caches!Init, LabelHeld
  <1> QED
    BY <1>4, <1>5, <1>6, <1>7, <1>8 DEF CachesInv

(* An event of the chain is added to the log.                                *)
LEMMA LogGrows ==
  ASSUME NEW e \in EventRecords, log \in Seq(EventRecords), log' = Append(log, e)
  PROVE  /\ log' \in Seq(EventRecords) /\ Len(log') = Len(log) + 1 /\ Len(log) \in Nat
         /\ \A i \in 1..Len(log) : log'[i] = log[i]
         /\ \A i \in 1..Len(log), o \in Caches!OperatorIds :
              (Renames(i, o)' <=> Renames(i, o)) /\ (Adds(i, o)' <=> Adds(i, o))
         /\ \E k \in Nat : k = Len(log) + 1 /\ log'[k] = e
  <1>1. /\ log' \in Seq(EventRecords) /\ Len(log') = Len(log) + 1 /\ Len(log) \in Nat
        /\ log'[Len(log) + 1] = e /\ \A i \in 1..Len(log) : log'[i] = log[i]
    OBVIOUS
  <1>2. \A i \in 1..Len(log), o \in Caches!OperatorIds :
          (Renames(i, o)' <=> Renames(i, o)) /\ (Adds(i, o)' <=> Adds(i, o))
    BY <1>1 DEF Renames, Adds
  <1> QED
    BY <1>1, <1>2

LEMMA LowestOfNaturals ==
  ASSUME NEW S \in SUBSET Nat, S # {}
  PROVE  Lowest(S) \in S
  <1> DEFINE Less == OpToRel(<, Nat)
  <1>1. IsWellFoundedOn(Less, Nat)
    BY NatLessThanWellFounded
  <1>2. \A p, o \in Nat : <<p, o>> \in Less <=> p < o
    BY DEF OpToRel
  <1> HIDE DEF Less
  <1>3. PICK o \in S : \A p \in S : <<p, o>> \notin Less
    BY <1>1, WFMin
  <1>4. ASSUME NEW p \in S
        PROVE  o =< p
    <2>1. p \in Nat /\ o \in Nat
      OBVIOUS
    <2>2. ~(p < o)
      BY <1>2, <1>3, <2>1, Zenon
    <2> QED
      BY <2>1, <2>2
  <1> QED
    BY <1>4 DEF Lowest

LEMMA RangeShrinks ==
  ASSUME NEW a \in Nat, NEW b \in Nat, NEW c \in Nat, b =< a
  PROVE  1..b \subseteq 1..a /\ (a + 1)..c \subseteq (b + 1)..c
  OBVIOUS

LEMMA OperatorIdsType == Caches!OperatorIds \subseteq Nat /\ MaxOperators \in Nat \ {0}
                         /\ \A o \in Caches!OperatorIds : o < MaxOperators
  BY PartsAssumption DEF Caches!CachesAssumption, Caches!OperatorIds

(* The operator a reader asks about.                                         *)
LEMMA AskedOperator ==
  ASSUME CachesInv, NEW r \in Readers
  PROVE  /\ Caches!Asked(r) = Lowest(reader[r].todo)
         /\ reader[r].at \in {"askedLabel", "gotLabel"}
              => Lowest(reader[r].todo) \in reader[r].todo /\ Lowest(reader[r].todo) \in Caches!OperatorIds
  <1>1. Caches!Asked(r) = Lowest(reader[r].todo)
    BY DEF Caches!Asked, Lowest
  <1>2. reader[r].todo \in SUBSET Caches!OperatorIds
    BY DEF CachesInv, CachesType, ReaderRecords
  <1>3. CASE reader[r].at \in {"askedLabel", "gotLabel"}
    <2>1. reader[r].todo # {} /\ reader[r].todo \in SUBSET Nat
      BY <1>2, <1>3, OperatorIdsType DEF CachesInv, CachesType
    <2> QED
      BY <1>1, <1>2, <2>1, LowestOfNaturals
  <1> QED
    BY <1>1, <1>3

(* The chain moves on: what was heard of it and every answer stays as true   *)
(* as it was, and a renaming awaits the subscription.                        *)
LEMMA ChainKeeps ==
  ASSUME CachesInv, NEW e \in EventRecords, Caches!Emit(e),
         e.operator < count',
         \/ e.event = "NodeOperatorAdded" /\ name' = name /\ count' = count + 1 /\ count < MaxOperators
         \/ /\ e.event = "OperatorMetadataSet" /\ e.name \in Names /\ count' = count
            /\ name' = [name EXCEPT ![e.operator] = e.name]
  PROVE  CachesInv'
  <1>0. /\ log' = Append(log, e) /\ UNCHANGED <<position, replays, countCache, labelCache, reader>>
        /\ UNCHANGED <<countRaced, labelRaced>>
    BY DEF Caches!Emit, Caches!caches, Caches!raced
  <1>1. /\ log' \in Seq(EventRecords) /\ Len(log') = Len(log) + 1 /\ Len(log) \in Nat
        /\ \A i \in 1..Len(log) : log'[i] = log[i]
        /\ \A i \in 1..Len(log), o \in Caches!OperatorIds :
             (Renames(i, o)' <=> Renames(i, o)) /\ (Adds(i, o)' <=> Adds(i, o))
        /\ \E k \in Nat : k = Len(log) + 1 /\ log'[k] = e
    BY <1>0, LogGrows DEF CachesInv, LogTells
  <1>20. PICK k \in Nat : k = Len(log) + 1 /\ log'[k] = e
    BY <1>1
  <1>2. /\ count \in 1..MaxOperators /\ position \in 0..Len(log) /\ replays \in 0..MaxReplays
        /\ countCache \in {None} \cup 1..count /\ name \in [Caches!OperatorIds -> Names]
        /\ count' \in 1..MaxOperators /\ count =< count' /\ e.operator \in Caches!OperatorIds
    BY OperatorIdsType DEF CachesInv, CachesType, Caches!TypeOK, LogTells, EventRecords
  <1>3. CachesType'
    BY <1>0, <1>1, <1>2 DEF CachesInv, CachesType, Caches!TypeOK
  <1>4. /\ name' \in [Caches!OperatorIds -> Names]
        /\ \A o \in Caches!OperatorIds : name'[o] = name[o] \/ Renames(k, o)'
        /\ \A o \in Caches!OperatorIds : Renames(k, o)' => e.name \in Names /\ name'[o] = e.name
    BY <1>20, <1>2 DEF Renames, EventRecords
  <1>5. LogTells'
    <2>1. \A i \in 1..Len(log') : i \in 1..Len(log) \/ i = k
      BY <1>1, <1>20
    <2>2. \A i \in 1..Len(log') : log'[i].operator < count'
      <3>1. ASSUME NEW i \in 1..Len(log)
            PROVE  log'[i].operator < count'
        <4>1. log[i] \in EventRecords /\ log[i].operator < count
          BY DEF CachesInv, LogTells
        <4>2. log[i].operator \in Nat
          <5>1. PICK f \in EventRecords : f = log[i]
            BY <4>1
          <5> QED
            BY <5>1, OperatorIdsType DEF EventRecords
        <4>4. count \in Nat /\ count' \in Nat
          BY <1>2, OperatorIdsType
        <4>3. log'[i].operator = log[i].operator /\ count =< count'
          BY <1>1, <1>2
        <4> QED
          BY <4>1, <4>2, <4>3, <4>4
      <3> QED
        BY <1>20, <2>1, <3>1
    <2>3. \A i \in 1..Len(log'), o \in Caches!OperatorIds : Renames(i, o)' => log'[i].name \in Names
      BY <1>1, <1>20, <1>4, <2>1 DEF CachesInv, LogTells
    <2>4. ASSUME NEW i \in 1..Len(log'), NEW o \in Caches!OperatorIds, Renames(i, o)',
                 \A j \in (i + 1)..Len(log') : ~Renames(j, o)'
          PROVE  log'[i].name = name'[o]
      <3>1. CASE i = k
        BY <1>1, <1>20, <1>4, <2>4, <3>1
      <3>2. CASE i \in 1..Len(log)
        <4>1. ~Renames(k, o)' /\ \A j \in (i + 1)..Len(log) : ~Renames(j, o)
          BY <1>1, <1>20, <2>4, <3>2
        <4> QED
          BY <1>1, <1>4, <2>4, <3>2, <4>1 DEF CachesInv, LogTells
      <3> QED
        BY <2>1, <3>1, <3>2
    <2> QED
      BY <1>1, <1>4, <2>2, <2>3, <2>4 DEF LogTells
  <1>6. CountHeld'
    BY <1>0, <1>1, <1>2 DEF CachesInv, CountHeld
  <1>7. CountAnswers'
    BY <1>0, <1>2 DEF CachesInv, CountAnswers
  <1>8. LabelHeld'
    BY <1>0, <1>1, <1>20, <1>2, <1>4 DEF CachesInv, LabelHeld
  <1>9. LabelKnown'
    BY <1>0, <1>1, <1>2 DEF CachesInv, LabelKnown
  <1>10. ASSUME NEW o \in Caches!OperatorIds, NEW n, Told(o, n)
         PROVE  Told(o, n)'
    BY <1>1, <1>20, <1>4, <1>10 DEF Told
  <1>11. LabelAnswers'
    <2>1. \A r \in Readers : reader[r].at = "gotLabel" => Lowest(reader[r].todo) \in Caches!OperatorIds
      BY AskedOperator
    <2> QED
      BY <1>0, <1>10, <2>1 DEF CachesInv, LabelAnswers
  <1> QED
    BY <1>3, <1>5, <1>6, <1>7, <1>8, <1>9, <1>11 DEF CachesInv

LEMMA ChainStepKeeps ==
  ASSUME CachesInv,
         Caches!AddOperator \/ \E o \in Caches!OperatorIds, n \in Names : Caches!SetMetadata(o, n)
  PROVE  CachesInv'
  <1>1. CASE Caches!AddOperator
    <2> DEFINE e == [event |-> "NodeOperatorAdded", operator |-> count, name |-> None]
    <2>1. count \in 1..MaxOperators /\ count < MaxOperators /\ count' = count + 1 /\ name' = name
      BY <1>1 DEF CachesInv, CachesType, Caches!TypeOK, Caches!AddOperator
    <2>2. e \in EventRecords /\ e.operator < count'
      BY <2>1, OperatorIdsType DEF EventRecords, Caches!OperatorIds
    <2> QED
      BY <1>1, <2>1, <2>2, ChainKeeps DEF Caches!AddOperator
  <1>2. ASSUME NEW o \in Caches!OperatorIds, NEW n \in Names, Caches!SetMetadata(o, n)
        PROVE  CachesInv'
    <2> DEFINE e == [event |-> "OperatorMetadataSet", operator |-> o, name |-> n]
    <2>1. /\ o < count' /\ count' = count /\ name' = [name EXCEPT ![o] = n] /\ Caches!Emit(e)
      BY <1>2 DEF Caches!SetMetadata
    <2>2. e \in EventRecords
      BY DEF EventRecords
    <2> QED
      BY <2>1, <2>2, ChainKeeps
  <1> QED
    BY <1>1, <1>2

(* The subscription delivers the next event, or goes back.                   *)
LEMMA DeliveryKeeps ==
  ASSUME CachesInv, Caches!ProcessEvent
  PROVE  CachesInv'
  <1>0. /\ log \in Seq(EventRecords) /\ Len(log) \in Nat /\ position \in 0..Len(log)
        /\ count \in 1..MaxOperators /\ countCache \in {None} \cup 1..count
        /\ labelCache \in [Caches!OperatorIds -> Names \cup {None}]
        /\ name \in [Caches!OperatorIds -> Names] /\ None \notin Names /\ None \notin Nat
    BY PartsAssumption DEF CachesInv, CachesType, Caches!TypeOK, LogTells, Caches!CachesAssumption
  <1>1. /\ position < Len(log) /\ position' = position + 1
        /\ UNCHANGED <<count, name, log, replays, reader, countRaced, labelRaced>>
    BY DEF Caches!ProcessEvent, Caches!chain, Caches!raced
  <1>2. PICK k \in Nat : k = position + 1 /\ k \in 1..Len(log)
    BY <1>0, <1>1
  <1>3. PICK e \in EventRecords : e = log[k]
    BY <1>0, <1>2
  <1>4. e.operator \in Caches!OperatorIds /\ e.operator < count /\ e.operator \in Nat
    BY <1>2, <1>3, OperatorIdsType DEF CachesInv, LogTells, EventRecords
  <1>5. /\ \A i \in 1..position' : i \in 1..position \/ i = k
        /\ \A i \in (position + 1)..Len(log) : i \in (position' + 1)..Len(log) \/ i = k
        /\ k \in 1..Len(log)
    BY <1>0, <1>1, <1>2
  <1>6. /\ CountAnswers' /\ LabelAnswers' /\ LogTells'
        /\ \A i, o : (Renames(i, o)' <=> Renames(i, o)) /\ (Adds(i, o)' <=> Adds(i, o))
    BY <1>1 DEF CachesInv, CountAnswers, LabelAnswers, Told, LogTells, Renames, Adds
  <1>7. CASE e.event = "NodeOperatorAdded"
    <2>1. countCache' = IF countCache # None /\ countCache > e.operator THEN countCache
                        ELSE e.operator + 1
      BY <1>2, <1>3, <1>7 DEF Caches!ProcessEvent, Caches!RememberAdded
    <2>2. UNCHANGED labelCache
      BY <1>2, <1>3, <1>7 DEF Caches!ProcessEvent
    <2>3. \A o : ~Renames(k, o)
      BY <1>3, <1>7 DEF Renames
    <2>4. /\ countCache' \in 1..count /\ countCache' > e.operator
          /\ (countCache \in Nat => countCache' >= countCache)
      BY <1>0, <1>4, <2>1
    <2>5. CachesType'
      BY <1>0, <1>1, <2>2, <2>4 DEF CachesInv, CachesType, Caches!TypeOK
    <2>6. CountHeld'
      <3> SUFFICES ASSUME ~countRaced, NEW i \in 1..position', NEW o \in Caches!OperatorIds, Adds(i, o)
                   PROVE  countCache' \in Nat /\ countCache' > o
        BY <1>1, <1>6 DEF CountHeld
      <3>1. CASE i = k
        BY <1>0, <1>3, <2>4, <3>1 DEF Adds
      <3>2. CASE i \in 1..position
        <4>1. countCache \in Nat /\ countCache > o /\ o \in Nat
          BY <3>2, OperatorIdsType DEF CachesInv, CountHeld
        <4> QED
          BY <1>0, <2>4, <4>1
      <3> QED
        BY <1>5, <3>1, <3>2
    <2>7. LabelHeld' /\ LabelKnown'
      BY <1>0, <1>1, <1>5, <1>6, <2>2, <2>3 DEF CachesInv, LabelHeld, LabelKnown
    <2> QED
      BY <1>6, <2>5, <2>6, <2>7 DEF CachesInv
  <1>8. CASE e.event = "OperatorMetadataSet"
    <2>1. labelCache' = [labelCache EXCEPT ![e.operator] = e.name] /\ UNCHANGED countCache
      BY <1>2, <1>3, <1>8 DEF Caches!ProcessEvent, Caches!RememberLabel
    <2>2. \A o \in Caches!OperatorIds : Renames(k, o) <=> o = e.operator
      BY <1>3, <1>8 DEF Renames
    <2>3. e.name \in Names
      BY <1>2, <1>3, <1>4, <2>2 DEF CachesInv, LogTells
    <2>4. \A o \in Caches!OperatorIds : labelCache'[o] = IF o = e.operator THEN e.name ELSE labelCache[o]
      BY <1>0, <2>1
    <2>5. labelCache' \in [Caches!OperatorIds -> Names \cup {None}]
      BY <1>0, <2>1, <2>3
    <2>6. CachesType'
      BY <1>0, <1>1, <2>1, <2>5 DEF CachesInv, CachesType, Caches!TypeOK
    <2>7. CountHeld'
      BY <1>1, <1>3, <1>5, <1>6, <1>8, <2>1 DEF CachesInv, CountHeld, Adds
    <2>8. LabelKnown'
      BY <1>0, <1>5, <1>6, <2>2, <2>3, <2>4 DEF CachesInv, LabelKnown
    <2>9. LabelHeld'
      <3> SUFFICES ASSUME NEW o \in Caches!OperatorIds, ~labelRaced[o],
                          \A i \in (position' + 1)..Len(log) : ~Renames(i, o)
                   PROVE  labelCache'[o] \in {None, name[o]}
        BY <1>1, <1>6 DEF LabelHeld
      <3>1. CASE o = e.operator
        <4>1. e.name = name[o]
          BY <1>1, <1>2, <1>3, <2>2, <3>1 DEF CachesInv, LogTells
        <4> QED
          BY <2>4, <3>1, <4>1
      <3>2. CASE o # e.operator
        <4>1. \A i \in (position + 1)..Len(log) : ~Renames(i, o)
          BY <1>5, <2>2, <3>2
        <4> QED
          BY <2>4, <3>2, <4>1 DEF CachesInv, LabelHeld
      <3> QED
        BY <3>1, <3>2
    <2> QED
      BY <1>6, <2>6, <2>7, <2>8, <2>9 DEF CachesInv
  <1> QED
    BY <1>7, <1>8 DEF EventRecords

LEMMA ReplayKeeps ==
  ASSUME CachesInv, Caches!Replay
  PROVE  CachesInv'
  <1>0. Len(log) \in Nat /\ position \in 0..Len(log) /\ replays \in 0..MaxReplays
    BY DEF CachesInv, CachesType, Caches!TypeOK, LogTells
  <1>1. /\ position' \in 0..position /\ replays' = replays + 1 /\ replays < MaxReplays
        /\ UNCHANGED <<count, name, log, countCache, labelCache, reader, countRaced, labelRaced>>
    BY DEF Caches!Replay, Caches!chain, Caches!caches, Caches!raced
  <1>2. replays' \in 0..MaxReplays /\ position' \in 0..Len(log)
    BY <1>0, <1>1, PartsAssumption DEF Caches!CachesAssumption
  <1>3. /\ \A i \in 1..position' : i \in 1..position
        /\ \A i \in (position + 1)..Len(log) : i \in (position' + 1)..Len(log)
    <2>1. position \in Nat /\ position' \in Nat /\ position' =< position
      BY <1>0, <1>1
    <2> QED
      BY <1>0, <2>1, RangeShrinks
  <1>4. /\ CountAnswers' /\ LabelAnswers' /\ LogTells'
        /\ \A i, o : (Renames(i, o)' <=> Renames(i, o)) /\ (Adds(i, o)' <=> Adds(i, o))
    BY <1>1 DEF CachesInv, CountAnswers, LabelAnswers, Told, LogTells, Renames, Adds
  <1>5. CachesType'
    BY <1>1, <1>2 DEF CachesInv, CachesType, Caches!TypeOK
  <1>6. CountHeld'
    BY <1>1, <1>3, <1>4 DEF CachesInv, CountHeld
  <1>7. LabelHeld'
    <2> SUFFICES ASSUME NEW o \in Caches!OperatorIds
                 PROVE  \/ labelRaced[o] \/ labelCache[o] \in {None, name[o]}
                        \/ \E i \in (position' + 1)..Len(log) : Renames(i, o)
      BY <1>1, <1>4 DEF LabelHeld
    <2> QED
      BY <1>3 DEF CachesInv, LabelHeld
  <1>8. LabelKnown'
    BY <1>1, <1>3, <1>4 DEF CachesInv, LabelKnown
  <1> QED
    BY <1>4, <1>5, <1>6, <1>7, <1>8 DEF CachesInv

(* One reader, at a time, asks the chain.                                    *)
LEMMA ReaderMoves ==
  ASSUME reader \in [Readers -> ReaderRecords], NEW r \in Readers, NEW at, NEW value, NEW todo, NEW next,
         Caches!Go(r, at, value, todo, next),
         at \in {"idle", "wantsCount", "wantsLabels"} \cup Caches!Asking,
         value \in {None} \cup Nat \cup Names, todo \subseteq Caches!OperatorIds,
         next \in {"idle", "options"}
  PROVE  /\ reader' \in [Readers -> ReaderRecords]
         /\ reader'[r].at = at /\ reader'[r].value = value /\ reader'[r].todo = todo
         /\ \A q \in Readers : q # r => reader'[q] = reader[q]
  BY DEF Caches!Go, ReaderRecords

(* A reader moves, to an answer only if it is true; the caches stay.         *)
LEMMA ReaderKeeps ==
  ASSUME CachesInv, NEW r \in Readers,
         UNCHANGED <<count, name, log, position, replays, countCache, labelCache, countRaced, labelRaced>>,
         reader' \in [Readers -> ReaderRecords], \A q \in Readers : q # r => reader'[q] = reader[q],
         reader'[r].at \in Caches!Asking => Caches!Free \/ reader[r].at \in Caches!Asking,
         reader'[r].at \in {"askedLabel", "gotLabel"} => reader'[r].todo # {},
         reader'[r].at = "gotCount" => reader'[r].value \in 1..count,
         reader'[r].at = "gotLabel" => Told(Lowest(reader'[r].todo), reader'[r].value)
  PROVE  CachesInv'
  <1>1. CachesType'
    <2>1. \A p, q \in Readers : reader'[p].at \in Caches!Asking /\ reader'[q].at \in Caches!Asking => p = q
      <3>1. \A q \in Readers : q # r /\ reader'[q].at \in Caches!Asking
                                 => reader'[r].at \notin Caches!Asking
        BY DEF CachesInv, CachesType, Caches!TypeOK, Caches!Free
      <3>2. \A p, q \in Readers : p # r /\ q # r /\ reader'[p].at \in Caches!Asking
                                    /\ reader'[q].at \in Caches!Asking => p = q
        BY DEF CachesInv, CachesType, Caches!TypeOK
      <3> QED
        BY <3>1, <3>2
    <2> QED
      BY <2>1 DEF CachesInv, CachesType, Caches!TypeOK
  <1>2. /\ \A i, o : (Renames(i, o)' <=> Renames(i, o)) /\ (Adds(i, o)' <=> Adds(i, o))
        /\ \A o, n : Told(o, n)' <=> Told(o, n)
    BY DEF Renames, Adds, Told
  <1>3. LogTells' /\ CountHeld' /\ LabelHeld' /\ LabelKnown'
    BY <1>2 DEF CachesInv, LogTells, CountHeld, LabelHeld, LabelKnown
  <1>4. CountAnswers'
    BY DEF CachesInv, CountAnswers
  <1>5. LabelAnswers'
    <2> SUFFICES ASSUME NEW q \in Readers, reader'[q].at = "gotLabel"
                 PROVE  Told(Lowest(reader'[q].todo), reader'[q].value)
      BY <1>2 DEF LabelAnswers, Lowest
    <2>1. CASE q = r
      BY <2>1
    <2>2. CASE q # r
      BY <2>2 DEF CachesInv, LabelAnswers
    <2> QED
      BY <2>1, <2>2
  <1> QED
    BY <1>1, <1>3, <1>4, <1>5 DEF CachesInv

(* With the number at hand: what a reader goes on to.                        *)
LEMMA WithCountKeeps ==
  ASSUME CachesInv, NEW r \in Readers, NEW n \in 1..MaxOperators, NEW next,
         Caches!WithCount(r, n, next)
  PROVE  /\ reader' \in [Readers -> ReaderRecords]
         /\ \A q \in Readers : q # r => reader'[q] = reader[q]
         /\ reader'[r].at \in {"idle", "wantsLabels"}
  <1>0. reader \in [Readers -> ReaderRecords]
    BY DEF CachesInv, CachesType
  <1> DEFINE missing == Caches!Uncached(0..(n - 1), labelCache)
  <1>1. missing \subseteq Caches!OperatorIds
    BY OperatorIdsType DEF Caches!Uncached, Caches!OperatorIds
  <1>2. CASE Caches!Go(r, "wantsLabels", None, missing, "idle")
    BY <1>0, <1>1, <1>2, ReaderMoves
  <1>3. CASE Caches!Go(r, "idle", None, {}, "idle")
    BY <1>0, <1>3, ReaderMoves
  <1> QED
    BY <1>2, <1>3 DEF Caches!WithCount, Caches!Finish

(* What a reader goes on to when it asks for labels.                         *)
LEMMA AskNextKeeps ==
  ASSUME CachesInv, NEW r \in Readers, NEW todo \in SUBSET Caches!OperatorIds, Caches!AskNext(r, todo)
  PROVE  /\ reader' \in [Readers -> ReaderRecords]
         /\ \A q \in Readers : q # r => reader'[q] = reader[q]
         /\ reader'[r].at \in {"idle", "askedLabel"}
         /\ reader'[r].at = "askedLabel" => reader'[r].todo # {}
  <1>0. reader \in [Readers -> ReaderRecords]
    BY DEF CachesInv, CachesType
  <1>1. PICK open \in SUBSET todo :
          \/ open # {} /\ Caches!Go(r, "askedLabel", None, open, "idle")
          \/ Caches!Go(r, "idle", None, {}, "idle")
    BY DEF Caches!AskNext, Caches!Uncached, Caches!Finish
  <1>2. CASE open # {} /\ Caches!Go(r, "askedLabel", None, open, "idle")
    BY <1>0, <1>2, ReaderMoves DEF Caches!Asking
  <1>3. CASE Caches!Go(r, "idle", None, {}, "idle")
    BY <1>0, <1>3, ReaderMoves
  <1> QED
    BY <1>1, <1>2, <1>3

LEMMA ReadStepKeeps ==
  ASSUME CachesInv, NEW r \in Readers, Caches!Read(r)
  PROVE  CachesInv'
  <1>0. /\ reader \in [Readers -> ReaderRecords] /\ reader[r] \in ReaderRecords
        /\ reader[r].todo \in SUBSET Caches!OperatorIds
        /\ count \in 1..MaxOperators /\ countCache \in {None} \cup 1..count
        /\ labelCache \in [Caches!OperatorIds -> Names \cup {None}]
        /\ labelRaced \in [Caches!OperatorIds -> BOOLEAN] /\ countRaced \in BOOLEAN
        /\ name \in [Caches!OperatorIds -> Names] /\ None \notin Names /\ None \notin Nat
    BY PartsAssumption
    DEF CachesInv, CachesType, ReaderRecords, Caches!TypeOK, LogTells, Caches!CachesAssumption
  <1>1. count \in Nat /\ 1..count \subseteq 1..MaxOperators /\ 1..count \subseteq Nat
    BY <1>0, OperatorIdsType
  <1> DEFINE Same == UNCHANGED <<count, name, log, position, replays, countCache, labelCache,
                                 countRaced, labelRaced>>
  <1>2. ASSUME NEW next \in {"idle", "options"}, Caches!ReadCount(r, next)
        PROVE  CachesInv'
    <2>1. Same
      BY <1>2 DEF Caches!ReadCount, Caches!chain, Caches!caches, Caches!raced
    <2>2. CASE Caches!Go(r, "wantsCount", None, {}, next)
      <3>1. /\ reader' \in [Readers -> ReaderRecords] /\ reader'[r].at = "wantsCount"
            /\ \A q \in Readers : q # r => reader'[q] = reader[q]
        BY <1>0, <2>2, ReaderMoves
      <3> QED
        BY <2>1, <3>1, ReaderKeeps DEF Caches!Asking
    <2>3. CASE countCache # None /\ Caches!WithCount(r, countCache, next)
      BY <1>0, <1>1, <2>1, <2>3, WithCountKeeps, ReaderKeeps DEF Caches!Asking
    <2> QED
      BY <1>2, <2>2, <2>3 DEF Caches!ReadCount
  <1>3. ASSUME NEW o \in Caches!OperatorIds, Caches!NodeOperatorLabel(r, o)
        PROVE  CachesInv'
    <2>1. Same /\ Caches!Go(r, "wantsLabels", None, {o}, "idle")
      BY <1>3 DEF Caches!NodeOperatorLabel, Caches!chain, Caches!caches, Caches!raced
    <2>2. /\ reader' \in [Readers -> ReaderRecords] /\ reader'[r].at = "wantsLabels"
          /\ \A q \in Readers : q # r => reader'[q] = reader[q]
      BY <1>0, <2>1, ReaderMoves
    <2> QED
      BY <2>1, <2>2, ReaderKeeps DEF Caches!Asking
  <1>4. CASE Caches!AskCount(r)
    <2>1. Same /\ Caches!Free /\ Caches!Go(r, "askedCount", None, {}, reader[r].next)
      BY <1>4 DEF Caches!AskCount, Caches!chain, Caches!caches, Caches!raced
    <2>2. /\ reader' \in [Readers -> ReaderRecords] /\ reader'[r].at = "askedCount"
          /\ \A q \in Readers : q # r => reader'[q] = reader[q]
      BY <1>0, <2>1, ReaderMoves DEF ReaderRecords, Caches!Asking
    <2> QED
      BY <2>1, <2>2, ReaderKeeps
  <1>5. CASE Caches!ServeCount(r)
    <2>1. Same /\ reader[r].at = "askedCount" /\ Caches!Go(r, "gotCount", count, {}, reader[r].next)
      BY <1>5 DEF Caches!ServeCount, Caches!chain, Caches!caches, Caches!raced
    <2>2. /\ reader' \in [Readers -> ReaderRecords] /\ reader'[r].at = "gotCount"
          /\ reader'[r].value = count /\ \A q \in Readers : q # r => reader'[q] = reader[q]
      BY <1>0, <1>1, <2>1, ReaderMoves DEF ReaderRecords, Caches!Asking
    <2>3. count \in 1..count
      BY <1>0, OperatorIdsType
    <2> QED
      BY <2>1, <2>2, <2>3, ReaderKeeps DEF Caches!Asking
  <1>6. CASE Caches!CountFails(r)
    <2>1. Same /\ Caches!Go(r, "idle", None, {}, "idle")
      BY <1>6 DEF Caches!CountFails, Caches!Finish, Caches!chain, Caches!caches, Caches!raced
    <2>2. /\ reader' \in [Readers -> ReaderRecords] /\ reader'[r].at = "idle"
          /\ \A q \in Readers : q # r => reader'[q] = reader[q]
      BY <1>0, <2>1, ReaderMoves
    <2> QED
      BY <2>1, <2>2, ReaderKeeps DEF Caches!Asking
  <1>7. CASE Caches!AskLabels(r)
    <2>1. Same /\ Caches!Free /\ Caches!AskNext(r, reader[r].todo)
      BY <1>7 DEF Caches!AskLabels, Caches!chain, Caches!caches, Caches!raced
    <2> QED
      BY <1>0, <2>1, AskNextKeeps, ReaderKeeps
  <1>8. CASE Caches!LabelFails(r)
    <2>1. Same /\ reader[r].at \in Caches!Asking
          /\ Caches!AskNext(r, reader[r].todo \ {Caches!Asked(r)})
      BY <1>8 DEF Caches!LabelFails, Caches!chain, Caches!caches, Caches!raced, Caches!Asking
    <2> QED
      BY <1>0, <2>1, AskNextKeeps, ReaderKeeps
  <1>9. CASE Caches!ServeLabel(r)
    <2>1. Same /\ reader[r].at = "askedLabel"
          /\ Caches!Go(r, "gotLabel", name[Caches!Asked(r)], reader[r].todo, "idle")
      BY <1>9 DEF Caches!ServeLabel, Caches!chain, Caches!caches, Caches!raced
    <2>2. /\ Caches!Asked(r) = Lowest(reader[r].todo)
          /\ Lowest(reader[r].todo) \in Caches!OperatorIds /\ reader[r].todo # {}
      BY <2>1, AskedOperator
    <2>3. /\ reader' \in [Readers -> ReaderRecords] /\ reader'[r].at = "gotLabel"
          /\ reader'[r].value = name[Lowest(reader[r].todo)] /\ reader'[r].todo = reader[r].todo
          /\ \A q \in Readers : q # r => reader'[q] = reader[q]
      BY <1>0, <2>1, <2>2, ReaderMoves DEF Caches!Asking
    <2>4. Told(Lowest(reader'[r].todo), reader'[r].value)
      BY <1>0, <2>2, <2>3 DEF Told
    <2> QED
      BY <2>1, <2>2, <2>3, <2>4, ReaderKeeps DEF Caches!Asking
  <1>10. CASE Caches!StoreCount(r)
    <2>1. /\ reader[r].at = "gotCount" /\ countCache' = reader[r].value
          /\ countRaced' = (countRaced \/ (countCache # None /\ countCache > reader[r].value))
          /\ Caches!WithCount(r, reader[r].value, reader[r].next)
          /\ UNCHANGED <<count, name, log, position, replays, labelCache, labelRaced>>
      BY <1>10 DEF Caches!StoreCount, Caches!chain
    <2>2. reader[r].value \in 1..count /\ reader[r].value \in 1..MaxOperators
      BY <1>1, <2>1 DEF CachesInv, CountAnswers
    <2>3. /\ reader' \in [Readers -> ReaderRecords]
          /\ \A q \in Readers : q # r => reader'[q] = reader[q]
          /\ reader'[r].at \in {"idle", "wantsLabels"}
      BY <2>1, <2>2, WithCountKeeps
    <2>4. CachesType'
      <3>1. \A p, q \in Readers : reader'[p].at \in Caches!Asking /\ reader'[q].at \in Caches!Asking => p = q
        BY <2>3 DEF CachesInv, CachesType, Caches!TypeOK, Caches!Asking
      <3>2. \A q \in Readers : reader'[q].at \in {"askedLabel", "gotLabel"} => reader'[q].todo # {}
        BY <2>3 DEF CachesInv, CachesType
      <3>3. countRaced' \in BOOLEAN
        BY <1>0, <2>1
      <3> QED
        BY <2>1, <2>2, <2>3, <3>1, <3>2, <3>3 DEF CachesInv, CachesType, Caches!TypeOK
    <2>5. /\ \A i, o : (Renames(i, o)' <=> Renames(i, o)) /\ (Adds(i, o)' <=> Adds(i, o))
          /\ \A o, n : Told(o, n)' <=> Told(o, n)
      BY <2>1 DEF Renames, Adds, Told
    <2>6. LogTells' /\ LabelHeld' /\ LabelKnown'
      BY <2>1, <2>5 DEF CachesInv, LogTells, LabelHeld, LabelKnown
    <2>7. CountAnswers' /\ LabelAnswers'
      BY <2>1, <2>3, <2>5 DEF CachesInv, CountAnswers, LabelAnswers, Lowest
    <2>8. CountHeld'
      <3> SUFFICES ASSUME ~countRaced', NEW i \in 1..position, NEW o \in Caches!OperatorIds, Adds(i, o)
                   PROVE  countCache' \in Nat /\ countCache' > o
        BY <2>1, <2>5 DEF CountHeld
      <3>1. countCache \in Nat /\ countCache > o
        BY <1>0, <2>1 DEF CachesInv, CountHeld
      <3>2. ~(countCache > countCache') /\ countCache' \in Nat /\ o \in Nat
        BY <1>0, <1>1, <2>1, <2>2, <3>1, OperatorIdsType
      <3> QED
        BY <3>1, <3>2
    <2> QED
      BY <2>4, <2>6, <2>7, <2>8 DEF CachesInv
  <1>11. CASE Caches!StoreLabel(r)
    <2>1. PICK o \in Caches!OperatorIds : o = Caches!Asked(r) /\ o = Lowest(reader[r].todo)
      BY <1>11, AskedOperator DEF Caches!StoreLabel
    <2>2. PICK n \in Names : n = reader[r].value /\ Told(o, n)
      BY <1>11, <2>1 DEF CachesInv, LabelAnswers, Caches!StoreLabel, Told
    <2>3. /\ reader[r].at = "gotLabel" /\ labelCache' = [labelCache EXCEPT ![o] = n]
          /\ labelRaced' = [labelRaced EXCEPT ![o] = @ \/ labelCache[o] \notin {None, n}]
          /\ Caches!AskNext(r, reader[r].todo \ {o})
          /\ UNCHANGED <<count, name, log, position, replays, countCache, countRaced>>
      BY <1>11, <2>1, <2>2 DEF Caches!StoreLabel, Caches!chain
    <2>4. /\ \A p \in Caches!OperatorIds : labelCache'[p] = IF p = o THEN n ELSE labelCache[p]
          /\ \A p \in Caches!OperatorIds :
               labelRaced'[p] = IF p = o THEN labelRaced[o] \/ labelCache[o] \notin {None, n} ELSE labelRaced[p]
          /\ labelCache' \in [Caches!OperatorIds -> Names \cup {None}]
          /\ labelRaced' \in [Caches!OperatorIds -> BOOLEAN]
      BY <1>0, <2>3
    <2>5. /\ reader' \in [Readers -> ReaderRecords]
          /\ \A q \in Readers : q # r => reader'[q] = reader[q]
          /\ reader'[r].at \in {"idle", "askedLabel"}
          /\ reader'[r].at = "askedLabel" => reader'[r].todo # {}
      BY <1>0, <2>3, AskNextKeeps
    <2>6. CachesType'
      <3>1. \A p, q \in Readers : reader'[p].at \in Caches!Asking /\ reader'[q].at \in Caches!Asking => p = q
        BY <2>3, <2>5 DEF CachesInv, CachesType, Caches!TypeOK, Caches!Asking
      <3>2. \A q \in Readers : reader'[q].at \in {"askedLabel", "gotLabel"} => reader'[q].todo # {}
        BY <2>5 DEF CachesInv, CachesType
      <3> QED
        BY <2>3, <2>4, <2>5, <3>1, <3>2 DEF CachesInv, CachesType, Caches!TypeOK
    <2>7. /\ \A i, p : (Renames(i, p)' <=> Renames(i, p)) /\ (Adds(i, p)' <=> Adds(i, p))
          /\ \A p, m : Told(p, m)' <=> Told(p, m)
      BY <2>3 DEF Renames, Adds, Told
    <2>8. LogTells' /\ CountHeld'
      BY <2>3, <2>7 DEF CachesInv, LogTells, CountHeld
    <2>9. CountAnswers' /\ LabelAnswers'
      BY <2>3, <2>5, <2>7 DEF CachesInv, CountAnswers, LabelAnswers, Lowest
    <2>10. LabelKnown'
      BY <1>0, <2>3, <2>4, <2>7 DEF CachesInv, LabelKnown
    <2>11. LabelHeld'
      <3> SUFFICES ASSUME NEW p \in Caches!OperatorIds, ~labelRaced'[p],
                          \A i \in (position + 1)..Len(log) : ~Renames(i, p)
                   PROVE  labelCache'[p] \in {None, name[p]}
        BY <2>3, <2>7 DEF LabelHeld
      <3>1. ~labelRaced[p] /\ labelCache[p] \in {None, name[p]}
        BY <1>0, <2>4 DEF CachesInv, LabelHeld
      <3>2. CASE p = o /\ labelCache[o] = None
        <4>1. \A i \in 1..Len(log) : i \in 1..position \/ i \in (position + 1)..Len(log)
          BY DEF CachesInv, CachesType, Caches!TypeOK
        <4>2. \A i \in 1..Len(log) : ~Renames(i, o)
          BY <3>2, <4>1 DEF CachesInv, LabelKnown
        <4> QED
          BY <2>2, <2>4, <3>2, <4>2 DEF Told
      <3>3. CASE p = o /\ labelCache[o] # None
        BY <2>4, <3>1, <3>3
      <3>4. CASE p # o
        BY <2>4, <3>1, <3>4
      <3> QED
        BY <3>2, <3>3, <3>4
    <2> QED
      BY <2>6, <2>8, <2>9, <2>10, <2>11 DEF CachesInv
  <1> QED
    BY <1>2, <1>3, <1>4, <1>5, <1>6, <1>7, <1>8, <1>9, <1>10, <1>11 DEF Caches!Read

(* What events taught the adapter is lost to a read under way only, for any  *)
(* readers, names, operators and replays (base.py 86-92, curated/adapter.py  *)
(* 234-258).                                                                 *)
THEOREM CachesKeepWhatTheyLearn == Caches!Spec => []CachesLostOnlyByRace
  <1>1. Caches!Init => CachesInv
    BY CachesInitially
  <1>2. CachesInv /\ [Caches!Next]_(Caches!vars) => CachesInv'
    <2> SUFFICES ASSUME CachesInv, [Caches!Next]_(Caches!vars)
                 PROVE  CachesInv'
      OBVIOUS
    <2>1. CASE UNCHANGED Caches!vars
      <3>1. UNCHANGED <<count, name, log, position, replays, countCache, labelCache, reader,
                        countRaced, labelRaced>>
        BY <2>1 DEF Caches!vars, Caches!chain, Caches!caches, Caches!raced
      <3> QED
        BY <3>1
        DEF CachesInv, CachesType, Caches!TypeOK, LogTells, CountHeld, CountAnswers, LabelHeld,
            LabelKnown, LabelAnswers, Told, Renames, Adds
    <2>2. CASE Caches!Next
      BY <2>2, ChainStepKeeps, DeliveryKeeps, ReplayKeeps, ReadStepKeeps DEF Caches!Next
    <2> QED
      BY <2>1, <2>2
  <1>3. CachesInv => CachesLostOnlyByRace
    <2> SUFFICES ASSUME CachesInv
                 PROVE  CachesLostOnlyByRace
      OBVIOUS
    <2>1. Caches!CountLostOnlyByRace
      <3> SUFFICES ASSUME ~countRaced, NEW i \in 1..position, log[i].event = "NodeOperatorAdded"
                   PROVE  countCache > log[i].operator
        BY DEF Caches!CountLostOnlyByRace, Caches!HandledOperatorCounts
      <3>1. i \in 1..Len(log) /\ log \in Seq(EventRecords)
        BY DEF CachesInv, CachesType, Caches!TypeOK, LogTells
      <3>2. log[i].operator \in Caches!OperatorIds
        <4>1. PICK e \in EventRecords : e = log[i]
          BY <3>1
        <4> QED
          BY <4>1 DEF EventRecords
      <3> QED
        BY <3>2 DEF CachesInv, CountHeld, Adds
    <2>2. Caches!LabelLostOnlyByRace
      <3>1. Len(log) \in Nat
        BY DEF CachesInv, LogTells
      <3>2. position = Len(log) => \A i \in (position + 1)..Len(log) : FALSE
        BY <3>1
      <3> QED
        BY <3>2 DEF CachesInv, LabelHeld, Caches!LabelLostOnlyByRace, Caches!LabelsFollow
    <2> QED
      BY <2>1, <2>2 DEF CachesInv, CachesType, CachesLostOnlyByRace
  <1> QED
    BY <1>1, <1>2, <1>3, PTL DEF Caches!Spec

-----------------------------------------------------------------------------
(* The menus of OperatorMenu.                                                *)

LEMMA MenuConstants == MenuOperators \in Nat /\ PageSize \in Nat \ {0}
  BY PartsAssumption DEF Menu!MenuAssumption

(* The list of a finite set of numbers has each of them once, in order.      *)
Below(S, o) == {p \in S : p < o}
Listing(S)  == [i \in 1..Cardinality(S) |-> CHOOSE o \in S : Cardinality(Below(S, o)) = i - 1]

LEMMA ListingIs ==
  ASSUME NEW S, S \subseteq Nat, IsFiniteSet(S)
  PROVE  /\ Cardinality(S) \in Nat
         /\ Listing(S) \in [1..Cardinality(S) -> S]
         /\ \A i, j \in 1..Cardinality(S) : i < j => Listing(S)[i] < Listing(S)[j]
         /\ \A o \in S : \E i \in 1..Cardinality(S) : Listing(S)[i] = o
  <1> DEFINE n == Cardinality(S)
             rank == [o \in S |-> Cardinality(Below(S, o)) + 1]
             at == Listing(S)
  <1>1. n \in Nat
    BY FS_CardinalityType
  <1>2. \A o \in S : IsFiniteSet(Below(S, o)) /\ Cardinality(Below(S, o)) \in 0..(n - 1)
    <2> SUFFICES ASSUME NEW o \in S
                 PROVE  IsFiniteSet(Below(S, o)) /\ Cardinality(Below(S, o)) \in 0..(n - 1)
      OBVIOUS
    <2>1. Below(S, o) \in SUBSET S /\ Below(S, o) # S
      BY DEF Below
    <2>2. IsFiniteSet(Below(S, o)) /\ Cardinality(Below(S, o)) <= n /\ Cardinality(Below(S, o)) # n
      BY <2>1, FS_Subset
    <2>3. Cardinality(Below(S, o)) \in Nat
      BY <2>2, FS_CardinalityType
    <2> QED
      BY <1>1, <2>2, <2>3
  <1>3. \A o \in S : rank[o] \in 1..n
    BY <1>1, <1>2
  <1>4. ASSUME NEW o \in S, NEW p \in S, p < o
        PROVE  rank[p] < rank[o]
    <2>1. Below(S, p) \in SUBSET Below(S, o) /\ Below(S, p) # Below(S, o)
      <3>1. o \in Nat /\ p \in Nat /\ \A q \in S : q \in Nat
        OBVIOUS
      <3>2. \A q \in S : q < p => q < o
        BY <1>4, <3>1
      <3>3. ~(p < p)
        BY <3>1
      <3>4. p \in Below(S, o) /\ p \notin Below(S, p)
        BY <1>4, <3>3 DEF Below
      <3> QED
        BY <3>2, <3>4 DEF Below
    <2>2. Cardinality(Below(S, p)) <= Cardinality(Below(S, o)) /\ Cardinality(Below(S, p)) # Cardinality(Below(S, o))
      BY <1>2, <2>1, FS_Subset
    <2> QED
      BY <1>2, <2>2
  <1>5. rank \in Injection(S, 1..n)
    <2>1. rank \in [S -> 1..n]
      BY <1>3
    <2>2. ASSUME NEW o \in S, NEW p \in S, rank[o] = rank[p]
          PROVE  o = p
      <3>1. ~(rank[o] < rank[p]) /\ ~(rank[p] < rank[o])
        BY <1>3, <2>2
      <3>2. ~(o < p) /\ ~(p < o)
        BY <1>4, <3>1
      <3> QED
        BY <3>2
    <2> HIDE DEF rank
    <2> QED
      BY <2>1, <2>2 DEF Injection, IsInjective
  <1>6. \A i \in 1..n : \E o \in S : rank[o] = i
    <2>1. IsFiniteSet(1..n) /\ Cardinality(1..n) = n
      BY <1>1, FS_Interval
    <2> HIDE DEF rank
    <2>2. rank \in Surjection(S, 1..n)
      BY <1>5, <2>1, FS_Injection
    <2> QED
      BY <2>2 DEF Surjection
  <1>7. \A i \in 1..n : at[i] \in S /\ rank[at[i]] = i
    <2> SUFFICES ASSUME NEW i \in 1..n
                 PROVE  at[i] \in S /\ rank[at[i]] = i
      OBVIOUS
    <2>1. PICK o \in S : rank[o] = i
      BY <1>6
    <2>2. Cardinality(Below(S, o)) = i - 1
      BY <1>2, <2>1
    <2>3. at[i] = CHOOSE q \in S : Cardinality(Below(S, q)) = i - 1
      BY DEF Listing
    <2>4. at[i] \in S /\ Cardinality(Below(S, at[i])) = i - 1
      BY <2>2, <2>3
    <2> QED
      BY <1>1, <2>4
  <1>8. at \in [1..n -> S]
    BY <1>7 DEF Listing
  <1>9. \A i, j \in 1..n : i < j => at[i] < at[j]
    <2> SUFFICES ASSUME NEW i \in 1..n, NEW j \in 1..n, i < j
                 PROVE  at[i] < at[j]
      OBVIOUS
    <2> HIDE DEF rank, at
    <2>1. rank[at[i]] = i /\ rank[at[j]] = j /\ at[i] \in S /\ at[j] \in S
      BY <1>7
    <2>2. at[i] # at[j]
      BY <2>1
    <2>3. at[i] \in Nat /\ at[j] \in Nat
      BY <2>1
    <2>4. at[j] < at[i] => rank[at[j]] < rank[at[i]]
      BY <1>4, <2>1
    <2>5. ~(j < i)
      BY <1>1
    <2> QED
      BY <2>1, <2>2, <2>3, <2>4, <2>5
  <1>10. ASSUME NEW o \in S
         PROVE  \E i \in 1..n : at[i] = o
    <2> HIDE DEF rank, at
    <2>1. rank[o] \in 1..n /\ at[rank[o]] \in S /\ rank[at[rank[o]]] = rank[o]
      BY <1>3, <1>7
    <2>2. at[rank[o]] = o
      BY <1>5, <2>1 DEF Injection, IsInjective
    <2> QED
      BY <2>1, <2>2
  <1> QED
    BY <1>1, <1>8, <1>9, <1>10

(* What a menu offers, in order, each operator once.                         *)
LEMMA OptionsAre ==
  ASSUME options \in 0..MenuOperators, NEW f \in SUBSET (0..(options - 1)), NEW menu
  PROVE  LET S == Menu!Offered(menu, f)
             s == Menu!Options(menu, f) IN
         /\ S \subseteq 0..(options - 1)
         /\ s = Listing(S) /\ s \in Seq(Menu!OperatorIds) /\ Len(s) = Cardinality(S)
         /\ Len(s) \in 0..MenuOperators
         /\ \A i, j \in 1..Len(s) : i < j => s[i] < s[j]
         /\ {s[i] : i \in 1..Len(s)} = S
  <1> DEFINE S == Menu!Offered(menu, f)
             s == Menu!Options(menu, f)
  <1>1. S \subseteq 0..(options - 1)
    BY DEF Menu!Offered
  <1>2. IsFiniteSet(0..(options - 1)) /\ Cardinality(0..(options - 1)) = options
    BY MenuConstants, FS_Interval
  <1>3. IsFiniteSet(S) /\ Cardinality(S) <= options /\ S \subseteq Nat
    BY <1>1, <1>2, FS_Subset, MenuConstants
  <1>4. s = Listing(S)
    BY DEF Menu!Options, Listing, Below, Cardinality, Menu!Cardinality
  <1>5. /\ Cardinality(S) \in Nat /\ Listing(S) \in [1..Cardinality(S) -> S]
        /\ \A i, j \in 1..Cardinality(S) : i < j => Listing(S)[i] < Listing(S)[j]
        /\ \A o \in S : \E i \in 1..Cardinality(S) : Listing(S)[i] = o
    BY <1>3, ListingIs
  <1> HIDE DEF S, s
  <1>6. s \in Seq(S) /\ Len(s) = Cardinality(S)
    BY <1>4, <1>5
  <1>7. S \subseteq Menu!OperatorIds
    BY <1>1, MenuConstants DEF Menu!OperatorIds
  <1>8. s \in Seq(Menu!OperatorIds)
    BY <1>6, <1>7
  <1>9. Len(s) \in 0..MenuOperators
    BY <1>3, <1>5, <1>6, MenuConstants
  <1>10. {s[i] : i \in 1..Len(s)} = S
    BY <1>4, <1>5, <1>6
  <1> QED
    BY <1>1, <1>4, <1>5, <1>6, <1>8, <1>9, <1>10 DEF S, s

(* Arithmetic of pages.                                                      *)
LEMMA Division ==
  ASSUME NEW a \in Nat, NEW b \in Nat \ {0}
  PROVE  /\ a \div b \in Nat
         /\ (a \div b) * b <= a /\ a < (a \div b) * b + b
  OBVIOUS

LEMMA Multiples ==
  ASSUME NEW a \in Nat, NEW b \in Nat, NEW c \in Nat, a <= b
  PROVE  a * c \in Nat /\ b * c \in Nat /\ a * c <= b * c /\ (a + 1) * c = a * c + c
  OBVIOUS

LEMMA MultipleIsMore ==
  ASSUME NEW a \in Nat, NEW c \in Nat \ {0}
  PROVE  a <= a * c
  OBVIOUS

(* The pages hold all options, and the last one holds some if there are any. *)
LastPage(s) == Menu!PageCount(s) - 1

LEMMA PagesAre ==
  ASSUME NEW S, NEW s \in Seq(S)
  PROVE  /\ LastPage(s) \in Nat /\ Menu!PageCount(s) = LastPage(s) + 1
         /\ Len(s) <= LastPage(s) * PageSize + PageSize
         /\ Len(s) = 0 => LastPage(s) = 0
         /\ Len(s) # 0 => LastPage(s) * PageSize < Len(s) /\ LastPage(s) < Len(s)
  <1> DEFINE n == Len(s)
             full == (n + PageSize - 1) \div PageSize
  <1>1. n \in Nat /\ PageSize \in Nat \ {0}
    BY MenuConstants
  <1>2. n + PageSize - 1 \in Nat
    BY <1>1
  <1>3. full \in Nat /\ full * PageSize <= n + PageSize - 1 /\ n + PageSize - 1 < full * PageSize + PageSize
    BY <1>1, <1>2, Division
  <1>4. Menu!PageCount(s) = IF full > 1 THEN full ELSE 1
    BY DEF Menu!PageCount
  <1> HIDE DEF full, n
  <1>0. Menu!PageCount(s) = LastPage(s) + 1
    BY <1>3, <1>4 DEF LastPage
  <1>5. CASE n = 0
    <2>1. full = 0
      <3>1. CASE full >= 1
        <4>1. 1 * PageSize <= full * PageSize
          BY <1>1, <1>3, <3>1, Multiples
        <4> QED
          BY <1>1, <1>3, <1>5, <4>1
      <3> QED
        BY <1>3, <3>1
    <2> QED
      BY <1>1, <1>4, <1>5, <2>1 DEF LastPage, n
  <1>6. CASE n # 0
    <2>1. full # 0
      BY <1>1, <1>3, <1>6
    <2>2. LastPage(s) = full - 1 /\ LastPage(s) \in Nat /\ full = LastPage(s) + 1
      BY <1>3, <1>4, <2>1 DEF LastPage
    <2>3. full * PageSize = LastPage(s) * PageSize + PageSize /\ LastPage(s) * PageSize \in Nat
      <3>1. (LastPage(s) + 1) * PageSize = LastPage(s) * PageSize + PageSize
            /\ LastPage(s) * PageSize \in Nat
        BY <1>1, <2>2, Multiples
      <3> QED
        BY <2>2, <3>1
    <2>4. LastPage(s) * PageSize < n /\ n <= LastPage(s) * PageSize + PageSize
      BY <1>1, <1>3, <2>2, <2>3
    <2>5. LastPage(s) <= LastPage(s) * PageSize
      BY <1>1, <2>2, MultipleIsMore
    <2> DEFINE m == LastPage(s) * PageSize
    <2>6. m \in Nat /\ m < n /\ n <= m + PageSize /\ LastPage(s) <= m
      BY <2>3, <2>4, <2>5
    <2>7. LastPage(s) < n
      <3> HIDE DEF m
      <3> QED
        BY <1>1, <2>2, <2>6
    <2> QED
      BY <1>0, <1>6, <2>2, <2>6, <2>7 DEF n
  <1> QED
    BY <1>0, <1>5, <1>6

(* What a keyboard shows.                                                    *)
Page(s, asked) == Menu!Clamped(asked, s)

LEMMA KeyboardIs ==
  ASSUME NEW s \in Seq(Menu!OperatorIds), Len(s) \in 0..MenuOperators, NEW asked \in Nat, NEW menu
  PROVE  LET p == Page(s, asked)
             k == Menu!Keyboard(menu, s, asked) IN
         /\ p \in 0..LastPage(s)
         /\ asked <= LastPage(s) => p = asked
         /\ asked > LastPage(s) => p = LastPage(s)
         /\ k.menu = menu /\ k.page = p
         /\ p * PageSize \in Nat /\ p * PageSize <= Len(s)
         /\ k.buttons \in Seq(Menu!OperatorIds) /\ Len(k.buttons) <= PageSize
         /\ s # <<>> => k.buttons # <<>>
         /\ p = LastPage(s) => k.next = -1 /\ k.buttons = SubSeq(s, p * PageSize + 1, Len(s))
         /\ p # LastPage(s) =>
              /\ k.next = p + 1 /\ p + 1 <= LastPage(s)
              /\ p * PageSize + PageSize <= Len(s)
              /\ (p + 1) * PageSize = p * PageSize + PageSize
              /\ k.buttons = SubSeq(s, p * PageSize + 1, (p + 1) * PageSize)
         /\ k.previous \in -1..p /\ k.next \in -1..LastPage(s)
  <1> DEFINE p == Page(s, asked)
             n == Len(s)
             k == Menu!Keyboard(menu, s, asked)
             to == IF (p + 1) * PageSize < n THEN (p + 1) * PageSize ELSE n
  <1>1. n \in Nat /\ PageSize \in Nat \ {0}
    BY MenuConstants
  <1>2. /\ LastPage(s) \in Nat /\ Menu!PageCount(s) = LastPage(s) + 1
        /\ n <= LastPage(s) * PageSize + PageSize
        /\ n = 0 => LastPage(s) = 0
        /\ n # 0 => LastPage(s) * PageSize < n
    BY PagesAre
  <1>3. p = IF asked > LastPage(s) THEN LastPage(s) ELSE asked
    BY DEF Page, Menu!Clamped, LastPage
  <1>4. /\ p \in 0..LastPage(s) /\ p \in Nat
        /\ asked <= LastPage(s) => p = asked
        /\ asked > LastPage(s) => p = LastPage(s)
    BY <1>2, <1>3
  <1>5. k = [menu |-> menu, page |-> p,
             buttons |-> SubSeq(s, p * PageSize + 1, to),
             previous |-> IF p > 0 THEN p - 1 ELSE -1,
             next |-> IF p + 1 < LastPage(s) + 1 THEN p + 1 ELSE -1]
    BY <1>2 DEF Page, Menu!Keyboard, Menu!PageOptions, Menu!Nowhere
  <1> DEFINE start == p * PageSize
             end == (p + 1) * PageSize
             last == LastPage(s) * PageSize
  <1>6. start \in Nat /\ end = start + PageSize /\ start <= last /\ last \in Nat
    BY <1>1, <1>2, <1>4, Multiples
  <1>7. p # LastPage(s) => p + 1 <= LastPage(s) /\ end <= last
    BY <1>1, <1>2, <1>4, Multiples
  <1>8. p = LastPage(s) => start = last
    OBVIOUS
  <1>9. start <= n /\ (n # 0 => start < n)
    <2> HIDE DEF start, end, last, p
    <2>1. n = 0 => p = LastPage(s) /\ LastPage(s) = 0
      BY <1>2, <1>4
    <2>2. n = 0 => start = 0
      BY <1>1, <2>1 DEF start
    <2> QED
      BY <1>1, <1>2, <1>6, <2>2 DEF last
  <1>10. to = IF p = LastPage(s) THEN n ELSE end
    <2>1. CASE p = LastPage(s)
      <3> HIDE DEF start, end, last, p
      <3>1. ~(end < n)
        BY <1>1, <1>2, <1>6, <1>8, <2>1 DEF last
      <3> QED
        BY <2>1, <3>1 DEF end
    <2>2. CASE p # LastPage(s)
      <3>1. n # 0
        BY <1>2, <1>4, <2>2
      <3> HIDE DEF start, end, last, p
      <3>2. end < n
        BY <1>1, <1>2, <1>6, <1>7, <2>2, <3>1 DEF last
      <3> QED
        BY <2>2, <3>2 DEF end
    <2> QED
      BY <2>1, <2>2
  <1>11. to \in start..n /\ to <= start + PageSize /\ (n # 0 => start < to)
    <2> HIDE DEF start, end, last, p, n
    <2>1. CASE p = LastPage(s)
      BY <1>1, <1>2, <1>6, <1>8, <1>9, <1>10, <2>1 DEF last
    <2>2. CASE p # LastPage(s)
      <3>1. end <= n
        <4>1. n # 0
          BY <1>2, <1>4, <2>2
        <4> QED
          BY <1>1, <1>2, <1>6, <1>7, <2>2, <4>1 DEF last
      <3> QED
        BY <1>1, <1>6, <1>10, <2>2, <3>1
    <2> QED
      BY <2>1, <2>2
  <1>12. /\ k.buttons = SubSeq(s, start + 1, to)
         /\ k.buttons \in Seq(Menu!OperatorIds)
         /\ Len(k.buttons) = to - start
    <2> HIDE DEF to, p, k, start
    <2>1. k.buttons = SubSeq(s, start + 1, to)
      BY <1>5 DEF start
    <2>2. \A i \in (start + 1)..to : s[i] \in Menu!OperatorIds
      BY <1>1, <1>6, <1>11
    <2> QED
      BY <1>1, <1>6, <1>11, <2>1, <2>2, SubSeqProperties
  <1>13. s # <<>> => k.buttons # <<>>
    <2> HIDE DEF to, p, k, start
    <2>1. s # <<>> => n # 0
      OBVIOUS
    <2> QED
      BY <1>1, <1>6, <1>11, <1>12, <2>1
  <1>14. /\ k.menu = menu /\ k.page = p
         /\ k.previous \in -1..p /\ k.next \in -1..LastPage(s)
         /\ p = LastPage(s) => k.next = -1
         /\ p # LastPage(s) => k.next = p + 1
    <2> HIDE DEF to, p, k, start
    <2> QED
      BY <1>2, <1>4, <1>5
  <1> QED
    <2> HIDE DEF to, p, k, start, end, last, n
    <2>1. /\ start \in Nat /\ start <= n /\ Len(k.buttons) <= PageSize
      BY <1>1, <1>6, <1>9, <1>11, <1>12
    <2>2. p # LastPage(s) => start + PageSize <= n /\ end = start + PageSize /\ to = end
      BY <1>1, <1>6, <1>10, <1>11
    <2> QED
      BY <1>4, <1>7, <1>10, <1>12, <1>13, <1>14, <2>1, <2>2 DEF p, k, start, end, n

(* Next, pressed from a page until there is none, shows the rest of the      *)
(* options: the function of the pages that does is the only one.             *)
LEMMA PagesCover ==
  ASSUME options \in 0..MenuOperators, followed \subseteq 0..(options - 1)
  PROVE  Menu!PagesCoverOptions
  <1> SUFFICES ASSUME NEW menu \in {"follow", "unfollow"}
               PROVE  LET opts == Menu!Options(menu, followed)
                          shown[page \in 0..MenuOperators] ==
                            LET k == Menu!Keyboard(menu, opts, page)
                            IN IF k.next = Menu!Nowhere THEN k.buttons ELSE k.buttons \o shown[k.next]
                      IN shown[0] = opts
    BY DEF Menu!PagesCoverOptions
  <1> DEFINE s == Menu!Options(menu, followed)
             N == 0..MenuOperators
             K(page) == Menu!Keyboard(menu, s, page)
             Body(f) == [page \in N |->
                          IF K(page).next = Menu!Nowhere THEN K(page).buttons
                          ELSE K(page).buttons \o f[K(page).next]]
             rest == [page \in N |-> SubSeq(s, Page(s, page) * PageSize + 1, Len(s))]
             last == LastPage(s)
  <1>1. s \in Seq(Menu!OperatorIds) /\ Len(s) \in N
    BY OptionsAre
  <1> HIDE DEF s
  <1>2. MenuOperators \in Nat /\ PageSize \in Nat \ {0} /\ Menu!Nowhere = -1
    BY MenuConstants DEF Menu!Nowhere
  <1>3. last \in N
    BY <1>1, <1>2, PagesAre
  <1>4. ASSUME NEW page \in N
        PROVE  /\ K(page).next = Menu!Nowhere => K(page).buttons = rest[page]
               /\ K(page).next # Menu!Nowhere =>
                    /\ K(page).next \in N /\ page < K(page).next
                    /\ K(page).buttons \o rest[K(page).next] = rest[page]
    <2> DEFINE p == Page(s, page)
    <2>1. page \in Nat /\ last \in Nat
      BY <1>2, <1>3
    <2>2. /\ p \in 0..last /\ (page <= last => p = page) /\ (page > last => p = last)
          /\ p * PageSize \in Nat /\ p * PageSize <= Len(s)
          /\ p = last => K(page).next = -1 /\ K(page).buttons = SubSeq(s, p * PageSize + 1, Len(s))
          /\ p # last =>
              /\ K(page).next = p + 1 /\ p + 1 <= last
              /\ p * PageSize + PageSize <= Len(s)
              /\ (p + 1) * PageSize = p * PageSize + PageSize
              /\ K(page).buttons = SubSeq(s, p * PageSize + 1, (p + 1) * PageSize)
      BY <1>1, <2>1, KeyboardIs
    <2>3. CASE p = last
      BY <1>2, <2>2, <2>3
    <2>4. CASE p # last
      <3> HIDE DEF last
      <3>1. page = p /\ K(page).next = p + 1 /\ p + 1 \in N /\ p + 1 <= last
        <4>1. page = p
          BY <2>1, <2>2, <2>4
        <4>2. p + 1 \in N
          <5> HIDE DEF p
          <5> QED
            BY <1>2, <1>3, <2>1, <2>2, <2>4
        <4> QED
          BY <2>2, <2>4, <4>1, <4>2
      <3>2. Page(s, p + 1) = p + 1
        <4>1. p + 1 \in Nat
          BY <2>1, <2>2
        <4> QED
          BY <1>1, <3>1, <4>1, KeyboardIs DEF last
      <3>3. rest[p + 1] = SubSeq(s, (p + 1) * PageSize + 1, Len(s))
        BY <3>1, <3>2
      <3>4. rest[page] = SubSeq(s, p * PageSize + 1, Len(s))
        OBVIOUS
      <3> DEFINE m == p * PageSize + 1
                 h == (p + 1) * PageSize
      <3>5. /\ m \in 1..(Len(s) + 1) /\ h \in (m - 1)..Len(s) /\ Len(s) \in h..Len(s)
        <4> HIDE DEF p
        <4> QED
          BY <1>1, <1>2, <2>2, <2>4
      <3>6. SubSeq(s, m, h) \o SubSeq(s, h + 1, Len(s)) = SubSeq(s, m, Len(s))
        <4> HIDE DEF m, h
        <4> QED
          BY <1>1, <3>5, ConcatAdjacentSubSeq
      <3>7. K(page).buttons = SubSeq(s, m, h)
        BY <2>2, <2>4
      <3>8. page < p + 1 /\ p + 1 # -1
        BY <2>1, <3>1
      <3> HIDE DEF p, K, rest
      <3> QED
        BY <1>2, <3>1, <3>3, <3>4, <3>6, <3>7, <3>8
    <2> QED
      BY <2>3, <2>4
  <1> HIDE DEF K
  <1>5. rest = Body(rest)
    <2> SUFFICES ASSUME NEW page \in N
                 PROVE  rest[page] = Body(rest)[page]
      OBVIOUS
    <2> HIDE DEF rest
    <2> QED
      BY <1>4
  <1>6. ASSUME NEW f, f = Body(f)
        PROVE  f = rest
    <2> DEFINE Bad == {page \in N : f[page] # rest[page]}
               Far == {n \in N : MenuOperators - n \in Bad}
    <2>1. CASE Bad = {}
      <3>1. \A page \in N : f[page] = rest[page]
        BY <2>1
      <3>2. f = [page \in N |-> f[page]] /\ rest = [page \in N |-> rest[page]]
        BY <1>6
      <3> HIDE DEF rest, Body
      <3> QED
        BY <3>1, <3>2
    <2>2. CASE Bad # {}
      <3> HIDE DEF rest
      <3>1. Far \subseteq Nat /\ Far # {}
        <4>1. PICK page \in N : page \in Bad
          BY <2>2
        <4>2. MenuOperators - page \in N /\ MenuOperators - (MenuOperators - page) = page
          BY <1>2
        <4>3. MenuOperators - page \in Far
          <5> HIDE DEF Bad
          <5> QED
            BY <4>1, <4>2
        <4> QED
          BY <4>3
      <3>2. PICK n \in Far : \A m \in Far : ~(<<m, n>> \in OpToRel(<, Nat))
        <4> HIDE DEF Far
        <4> QED
          BY <3>1, NatLessThanWellFounded, WFMin
      <3>3. \A m \in Far : ~(m < n)
        BY <3>1, <3>2 DEF OpToRel
      <3> DEFINE page == MenuOperators - n
      <3>4. page \in Bad /\ page \in N
        BY <1>2
      <3>5. \A q \in N : page < q => f[q] = rest[q]
        <4> SUFFICES ASSUME NEW q \in N, page < q, q \in Bad
                     PROVE  FALSE
          OBVIOUS
        <4>1. MenuOperators - q \in Far /\ MenuOperators - q < n
          <5>1. MenuOperators - q \in N /\ MenuOperators - (MenuOperators - q) = q
            BY <1>2
          <5>2. n \in N /\ MenuOperators - q < n
            BY <1>2
          <5> QED
            BY <5>1, <5>2
        <4> QED
          BY <3>3, <4>1
      <3> HIDE DEF page
      <3>6. f[page] = IF K(page).next = Menu!Nowhere THEN K(page).buttons
                      ELSE K(page).buttons \o f[K(page).next]
        BY <1>6, <3>4
      <3>7. f[page] = rest[page]
        BY <1>4, <3>4, <3>5, <3>6
      <3> QED
        BY <3>4, <3>7
    <2> QED
      BY <2>1, <2>2
  <1>7. (CHOOSE f : f = Body(f)) = rest
    <2> HIDE DEF rest, Body
    <2> QED
      BY <1>5, <1>6
  <1>8. rest[0] = s
    <2>1. 0 \in N /\ 0 \in Nat /\ 0 <= last
      BY <1>2, <1>3
    <2>2. Page(s, 0) = 0
      BY <1>1, <2>1, KeyboardIs
    <2>3. 0 * PageSize + 1 = 1
      BY <1>2
    <2>4. rest[0] = SubSeq(s, 1, Len(s))
      BY <2>1, <2>2, <2>3
    <2> QED
      BY <1>1, <2>4, SubSeqFull
  <1>9. (CHOOSE f : f = Body(f))[0] = s
    BY <1>7, <1>8
  <1> QED
    BY <1>9 DEF K, s

(* What is shown is a keyboard, wherever its page number comes from.         *)
LEMMA KeyboardsAre ==
  ASSUME NEW s \in Seq(Menu!OperatorIds), Len(s) \in 0..MenuOperators, NEW asked \in Nat,
         NEW menu \in {"follow", "unfollow"}
  PROVE  Menu!IsKeyboard(Menu!Keyboard(menu, s, asked))
  <1> DEFINE k == Menu!Keyboard(menu, s, asked)
             p == Page(s, asked)
  <1>1. /\ p \in 0..LastPage(s) /\ k.menu = menu /\ k.page = p
        /\ k.buttons \in Seq(Menu!OperatorIds) /\ Len(k.buttons) <= PageSize
        /\ k.previous \in -1..p /\ k.next \in -1..LastPage(s)
    BY KeyboardIs
  <1>2. LastPage(s) \in 0..MenuOperators
    BY PagesAre, MenuConstants
  <1>3. k.page \in Menu!Pages /\ k.previous \in Menu!Pages /\ k.next \in Menu!Pages
    <2> HIDE DEF k, p
    <2> QED
      BY <1>1, <1>2, MenuConstants DEF Menu!Pages
  <1> QED
    BY <1>1, <1>3 DEF Menu!IsKeyboard

LEMMA AnswersAre ==
  ASSUME NEW menu \in {"menu", "follow", "unfollow"}
  PROVE  Menu!IsKeyboard([Menu!Menu EXCEPT !.menu = menu])
  BY MenuConstants DEF Menu!IsKeyboard, Menu!Menu, Menu!Pages, Menu!Nowhere

LEMMA MenuInitially == Menu!Init => Menu!TypeOK
  <1> SUFFICES ASSUME Menu!Init
               PROVE  Menu!TypeOK
    OBVIOUS
  <1>1. Menu!Menu = [Menu!Menu EXCEPT !.menu = "menu"]
    BY DEF Menu!Menu
  <1>2. Menu!IsKeyboard(Menu!Menu)
    BY <1>1, AnswersAre
  <1> QED
    BY <1>2 DEF Menu!Init, Menu!TypeOK

(* A button that can be pressed is an operator.                              *)
LEMMA ButtonsAre ==
  ASSUME Menu!TypeOK, NEW k \in Menu!Presses
  PROVE  /\ Menu!IsKeyboard(k)
         /\ Menu!Range(k.buttons) \subseteq Menu!OperatorIds
         /\ {k.previous, k.next} \ {Menu!Nowhere} \subseteq Nat
  <1>1. Menu!IsKeyboard(k)
    BY DEF Menu!TypeOK, Menu!Presses
  <1>2. k.buttons \in Seq(Menu!OperatorIds)
    BY <1>1 DEF Menu!IsKeyboard
  <1>3. Menu!Range(k.buttons) \subseteq Menu!OperatorIds
    BY <1>2 DEF Menu!Range
  <1> QED
    BY <1>1, <1>3, MenuConstants DEF Menu!IsKeyboard, Menu!Pages, Menu!Nowhere

LEMMA MenuStepKeeps ==
  ASSUME Menu!TypeOK, [Menu!Next]_(Menu!vars)
  PROVE  Menu!TypeOK'
  <1>1. /\ options \in 0..MenuOperators /\ followed \subseteq 0..(options - 1)
        /\ Menu!IsKeyboard(screen) /\ Menu!IsKeyboard(before)
    BY DEF Menu!TypeOK
  <1>2. screen.menu \in {"menu", "follow", "unfollow"}
    BY <1>1 DEF Menu!IsKeyboard
  <1>3. ASSUME NEW k, Menu!IsKeyboard(k), Menu!Show(k)
        PROVE  Menu!IsKeyboard(screen') /\ Menu!IsKeyboard(before')
    BY <1>1, <1>3 DEF Menu!Show
  <1>4. ASSUME NEW menu \in {"follow", "unfollow"}, NEW asked \in Nat
        PROVE  Menu!IsKeyboard(Menu!Keyboard(menu, Menu!Options(menu, followed), asked))
    <2>1. /\ Menu!Options(menu, followed) \in Seq(Menu!OperatorIds)
          /\ Len(Menu!Options(menu, followed)) \in 0..MenuOperators
      BY <1>1, OptionsAre
    <2> QED
      BY <2>1, KeyboardsAre
  <1>5. ASSUME NEW menu \in {"follow", "unfollow"}, Menu!OpenMenu(menu)
        PROVE  Menu!TypeOK'
    BY <1>1, <1>3, <1>4, <1>5 DEF Menu!OpenMenu, Menu!TypeOK
  <1>6. CASE Menu!TurnPage
    <2>1. PICK k \in Menu!Presses, page \in Nat :
            /\ screen.menu # "menu"
            /\ Menu!Show(Menu!Keyboard(screen.menu, Menu!Options(screen.menu, followed), page))
            /\ UNCHANGED <<options, followed>>
      BY <1>6, ButtonsAre DEF Menu!TurnPage
    <2> QED
      BY <1>1, <1>2, <1>3, <1>4, <2>1 DEF Menu!TypeOK
  <1>7. CASE Menu!PressFollow
    <2>1. PICK k \in Menu!Presses, o \in Menu!OperatorIds :
            /\ o < options /\ followed' = followed \cup {o}
            /\ Menu!Answer("follow") /\ UNCHANGED options
      BY <1>7, ButtonsAre DEF Menu!PressFollow
    <2>2. followed' \subseteq 0..(options' - 1)
      BY <1>1, <2>1, MenuConstants DEF Menu!OperatorIds
    <2>3. Menu!IsKeyboard(screen') /\ Menu!IsKeyboard(before')
      BY <1>3, <2>1, AnswersAre DEF Menu!Answer
    <2> QED
      BY <1>1, <2>1, <2>2, <2>3 DEF Menu!TypeOK
  <1>8. CASE Menu!PressUnfollow
    <2>1. /\ followed' \subseteq followed /\ Menu!Answer("unfollow") /\ UNCHANGED options
      BY <1>8 DEF Menu!PressUnfollow
    <2>2. Menu!IsKeyboard(screen') /\ Menu!IsKeyboard(before')
      BY <1>3, <2>1, AnswersAre DEF Menu!Answer
    <2> QED
      BY <1>1, <2>1, <2>2 DEF Menu!TypeOK
  <1>9. CASE Menu!StartOver
    <2>1. Menu!Menu = [Menu!Menu EXCEPT !.menu = "menu"]
      BY DEF Menu!Menu
    <2>2. Menu!IsKeyboard(Menu!Menu)
      BY <2>1, AnswersAre
    <2> QED
      BY <1>1, <1>3, <1>9, <2>2 DEF Menu!StartOver, Menu!TypeOK
  <1>10. ASSUME NEW o \in Menu!OperatorIds, Menu!OtherMember(o)
         PROVE  Menu!TypeOK'
    <2>1. o \in 0..(options - 1)
      BY <1>1, <1>10, MenuConstants DEF Menu!OtherMember, Menu!OperatorIds
    <2> QED
      BY <1>1, <1>10, <2>1 DEF Menu!OtherMember, Menu!TypeOK
  <1>11. CASE Menu!NewOperator
    <2>1. options' \in 0..MenuOperators /\ 0..(options - 1) \subseteq 0..(options' - 1)
      BY <1>1, <1>11, MenuConstants DEF Menu!NewOperator
    <2> QED
      BY <1>1, <1>11, <2>1 DEF Menu!NewOperator, Menu!TypeOK
  <1>12. CASE UNCHANGED Menu!vars
    BY <1>1, <1>12 DEF Menu!vars, Menu!TypeOK
  <1> QED
    BY <1>5, <1>6, <1>7, <1>8, <1>9, <1>10, <1>11, <1>12 DEF Menu!Next

(* A page number of another time leads to a page with options on it, if      *)
(* there are any.                                                            *)
LEMMA StalePages ==
  ASSUME Menu!TypeOK, Menu!TurnPage, Menu!Options(screen.menu, followed) # <<>>
  PROVE  screen'.buttons # <<>>
  <1>1. PICK k \in Menu!Presses, page \in Nat :
          /\ screen.menu # "menu"
          /\ Menu!Show(Menu!Keyboard(screen.menu, Menu!Options(screen.menu, followed), page))
    BY ButtonsAre DEF Menu!TurnPage
  <1>2. /\ Menu!Options(screen.menu, followed) \in Seq(Menu!OperatorIds)
        /\ Len(Menu!Options(screen.menu, followed)) \in 0..MenuOperators
    BY OptionsAre DEF Menu!TypeOK
  <1>3. Menu!Keyboard(screen.menu, Menu!Options(screen.menu, followed), page).buttons # <<>>
    BY <1>2, KeyboardIs
  <1> QED
    BY <1>1, <1>3 DEF Menu!Show

(* The pages of a menu show every option once, in order, and a page number   *)
(* of another time never leads to an empty page, for any number of operators *)
(* and any size of a page (start.py 82-116, 356-365, 455-464).               *)
THEOREM MenusShowOptions == Menu!Spec => MenuShowsOptions
  <1>1. Menu!TypeOK => Menu!PagesCoverOptions
    BY PagesCover DEF Menu!TypeOK
  <1>2. Menu!TypeOK /\ [Menu!Next]_(Menu!vars) =>
          [Menu!TurnPage /\ Menu!Options(screen.menu, followed) # <<>>
             => screen'.buttons # <<>>]_(Menu!vars)
    BY StalePages
  <1> QED
    BY <1>1, <1>2, MenuInitially, MenuStepKeeps, PTL
    DEF Menu!Spec, MenuShowsOptions, Menu!StalePageShowsOptions
=============================================================================
