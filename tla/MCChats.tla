-------------------------------- MODULE MCChats --------------------------------
(* What chats follow, see and choose from, on small instances: a group and   *)
(* its supergroup with the conversation of one member in each                *)
(* (ChatSubscriptions), the pages of the menus (OperatorMenu) and the cached *)
(* operators and labels that fill them (AdapterCaches).  The parts share no  *)
(* state, so a behaviour runs one of them and leaves the others in an        *)
(* initial state.                                                            *)
EXTENDS MCChatSubscriptions

CONSTANTS
  MenuOperators, PageSize,                                  \* of OperatorMenu
  Readers, Names, None, MaxOperators, MaxEvents, MaxReplays \* of AdapterCaches

VARIABLES
  part,
  options, followed, screen, before,
  count, name, log, position, replays, countCache, labelCache, reader, countRaced, labelRaced

menuVars == <<options, followed, screen, before>>
cacheVars == <<count, name, log, position, replays, countCache, labelCache, reader,
               countRaced, labelRaced>>

Menu == INSTANCE OperatorMenu WITH MaxOperators <- MenuOperators, count <- options

Caches == INSTANCE AdapterCaches

ASSUME PartsAssumption == Menu!MenuAssumption /\ Caches!CachesAssumption

ChatsTurn(A)  == part = "chats" /\ A /\ UNCHANGED <<part, menuVars, cacheVars>>
MenuTurn(A)   == part = "menu" /\ A /\ UNCHANGED <<part, vars, cacheVars>>
CachesTurn(A) == part = "caches" /\ A /\ UNCHANGED <<part, vars, menuVars>>

MCInit ==
  /\ part \in {"chats", "menu", "caches"}
  /\ part # "menu" => options = 0
  /\ Init /\ Menu!Init /\ Caches!Init

MCNext == ChatsTurn(Next) \/ MenuTurn(Menu!Next) \/ CachesTurn(Caches!Next)

MCSpec == MCInit /\ [][MCNext]_<<part, vars, menuVars, cacheVars>>

(* The pages of a menu show every option once, in order, whatever their      *)
(* number, and a page number from a time when there were more options never  *)
(* leads to an empty page (start.py 82-116, 356-365, 455-464).               *)
MenuShowsOptions ==
  [](Menu!TypeOK /\ Menu!PagesCoverOptions) /\ Menu!StalePageShowsOptions

(* What events have taught the adapter, the number of operators and their    *)
(* labels, is lost to one thing only: a read of the chain that was under way *)
(* (base.py 86-92, curated/adapter.py 234-258).                              *)
CachesLostOnlyByRace ==
  Caches!TypeOK /\ Caches!CountLostOnlyByRace /\ Caches!LabelLostOnlyByRace
=============================================================================
