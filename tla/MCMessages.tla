------------------------------ MODULE MCMessages ------------------------------
(* Messages on their way to chats, on small instances: an admin's broadcast  *)
(* (AdminBroadcast), with one chat that follows an operator and both that    *)
(* follow the other, and the delivery of an event's notification             *)
(* (NotificationDelivery).  The parts share no state, so a behaviour runs    *)
(* one of them and leaves the other in an initial state.                     *)
EXTENDS AdminBroadcast, TLC

CONSTANTS o1, o2, c1, c2,
          Recipients, everyone, MaxChanges  \* of NotificationDelivery

MCFollowers == [o \in {o1, o2} |-> IF o = o1 THEN {c1} ELSE {c1, c2}]

(* Which chat is which makes no difference to a delivery.                    *)
DeliveryChats == Permutations(Recipients)

VARIABLES part, known, follows, delivery, told, steady, ever, changes

deliveryVars == <<known, follows, delivery, told, steady, ever, changes>>

Notifications == INSTANCE NotificationDelivery WITH
  Chats <- Recipients, Everyone <- everyone

ASSUME PartsAssumption == Notifications!DeliveryAssumption

BroadcastTurn(A) == part = "broadcast" /\ A /\ UNCHANGED <<part, deliveryVars>>
DeliveryTurn(A)  == part = "delivery" /\ A /\ UNCHANGED <<part, vars>>

MCInit ==
  /\ part \in {"broadcast", "delivery"}
  /\ part # "delivery" => known = {} /\ follows = [o \in Operators |-> {}]
  /\ Init /\ Notifications!Init

MCNext == BroadcastTurn(Next) \/ DeliveryTurn(Notifications!Next)

MCSpec == MCInit /\ [][MCNext]_<<part, vars, deliveryVars>>

(* A chat that changes nothing while a notification is delivered gets what   *)
(* concerns it once and nothing else; no chat gets a message twice, or one   *)
(* it was at no moment entitled to (telegram_adapters.py 71-141,             *)
(* base_events.py 302-359, storage.py 259-270).                              *)
ChatsGetTheirOwn ==
  /\ Notifications!TypeOK
  /\ Notifications!QuietChatIsTold
  /\ Notifications!NoMessageTwice
  /\ Notifications!StrangersAreNotTold
=============================================================================
