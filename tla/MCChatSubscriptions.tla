------------------------ MODULE MCChatSubscriptions ------------------------
(* Instances of ChatSubscriptions: a group and its supergroup, with the      *)
(* conversation of one member in each, and a private chat.                   *)
EXTENDS ChatSubscriptions

CONSTANTS aUser, aGroup, aSuper, member

MCUpgrade == [c \in {aGroup} |-> aSuper]
GroupTalks == {<<aGroup, member>>, <<aSuper, member>>}
PrivateTalk == {<<aUser, member>>}
=============================================================================
