------------------------- MODULE SubscriptionLedger -------------------------
(***************************************************************************)
(* What the bot promises its chats: a chat follows what its members asked  *)
(* for, and nothing but the answer to a command changes it.  A group and   *)
(* the supergroup it is upgraded to are one chat here, and neither the     *)
(* upgrade nor a restart shows.                                            *)
(***************************************************************************)
CONSTANTS Families, Operators, Unknown

VARIABLES
  wanted,  \* the operators each chat follows
  command  \* what was asked and not answered yet

NoCommand == [kind |-> "none"]
Commands == [kind : {"follow", "unfollow"}, family : Families,
             ids : SUBSET (Operators \cup {Unknown})]

Init == wanted = [f \in Families |-> {}] /\ command = NoCommand

Ask == /\ command = NoCommand /\ command' \in Commands
       /\ UNCHANGED wanted

(* To follow is granted for all ids or refused.                              *)
Granted(ids) == IF ids \subseteq Operators THEN ids ELSE {}

AnswerFollow ==
  /\ command # NoCommand /\ command.kind = "follow"
  /\ wanted' = [wanted EXCEPT ![command.family] = @ \cup Granted(command.ids)]
  /\ command' = NoCommand

(* Of two chats that are one, a command may reach what one of them holds.    *)
AnswerUnfollow ==
  /\ command # NoCommand /\ command.kind = "unfollow"
  /\ \E ids \in SUBSET command.ids :
       wanted' = [wanted EXCEPT ![command.family] = @ \ ids]
  /\ command' = NoCommand

Next == Ask \/ AnswerFollow \/ AnswerUnfollow
Spec == Init /\ [][Next]_<<wanted, command>>
=============================================================================
