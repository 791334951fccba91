------------------------ MODULE NotificationDelivery ------------------------
(***************************************************************************)
(* From a notification to the chats that get its messages: the plan of the *)
(* event's handler, and its delivery, which asks Telegram once for each    *)
(* message while chats come, go, move and change what they follow.         *)
(* A delivery only reads the subscriptions: one at a time is enough here,  *)
(* though in the program several overlap.                                  *)
(***************************************************************************)
EXTENDS FiniteSets, Naturals, SequencesExt

CONSTANTS Chats, Operators,
          Everyone,   \* the audience of a notification without operators
          MaxChanges  \* bound: changes of the subscriptions during a delivery

DeliveryAssumption ==
  IsFiniteSet(Operators) /\ Everyone \notin Operators /\ MaxChanges \in Nat

VARIABLES
  known,     \* bot_storage.actual_chat_ids()
  follows,   \* bot_storage.node_operator_chats
  delivery,  \* the delivery, "done" when there is none under way
  told,      \* the messages each chat was sent, whether Telegram took them or not
  steady,    \* history: the chats each audience had throughout the delivery
  ever,      \* history: and those it had at some moment of it
  changes

subscriptions == <<known, follows>>
history == <<steady, ever, changes>>
vars == <<subscriptions, delivery, told, history>>

Audience == Operators \cup {Everyone}

-----------------------------------------------------------------------------
(* Events.  A "plain" one has a message of its own for an operator or for    *)
(* everyone, a "figures" one an entry for each operator it lists (effective  *)
(* weights, curve weights, deposited keys), a "report" the log of a          *)
(* distribution, which may not be had, with its operators and the ones that  *)
(* got strikes.                                                              *)

Plain == [type : {"plain"}, whom : Audience]
Figures == [type : {"figures"}, about : SUBSET Operators]
Report == {r \in [type : {"report"}, rewards : BOOLEAN, fetched : BOOLEAN,
                  listed : SUBSET Operators, about : SUBSET Operators] :
             /\ r.about \subseteq r.listed
             /\ r.fetched \/ r.listed = {}}
Events == Plain \cup Figures \cup Report

(* A message is the set of the operators whose figures or strikes it shows.  *)
General == {}

Nothing == [kind |-> "none", to |-> {}]
Broadcast(to) == [kind |-> "broadcast", to |-> to]
PerOperator(ops) == [kind |-> "operators", to |-> ops]
PerChat(ops) == [kind |-> "chats", to |-> ops]

(* Strikes go to the operator that got them even if nothing was distributed. *)
ReportPlan(r) ==
  IF ~r.rewards THEN IF r.about = {} THEN Nothing ELSE PerOperator(r.about)
  ELSE IF ~r.fetched THEN Broadcast({Everyone})
  ELSE IF r.about # {} THEN PerChat(r.listed)
  ELSE IF r.listed # {} THEN Broadcast(r.listed)
  ELSE Broadcast({Everyone})

PlanOf(e) ==
  CASE e.type = "plain" -> Broadcast({e.whom})
    [] e.type = "figures" -> IF e.about = {} THEN Nothing ELSE PerChat(e.about)
    [] e.type = "report" -> ReportPlan(e)

(* Mutant: a chat with strikes gets the general message too.                 *)
MutantRender(e, ops) ==
  IF e.type = "figures" THEN <<ops>>
  ELSE SetToSeq({{o} : o \in ops \cap e.about} \cup {General})

(* What a chat that follows ops gets: one message with their entries, or the *)
(* strikes of each, or the general message if none of them has any.          *)
Render(e, ops) ==
  IF e.type = "figures" THEN <<ops>>
  ELSE IF ops \cap e.about = {} THEN <<General>>
  ELSE SetToSeq({{o} : o \in ops \cap e.about})

-----------------------------------------------------------------------------
(* Subscriptions.                                                            *)

Members(a, k, f) == IF a = Everyone THEN k ELSE f[a]

Done == [event |-> [type |-> "plain", whom |-> Everyone], kind |-> "none",
         actual |-> {}, left |-> {}, queue |-> {}]
Delivering == delivery.left # {} \/ delivery.queue # {}

Init ==
  /\ known \in SUBSET Chats /\ follows \in [Operators -> SUBSET Chats]
  /\ delivery = Done /\ told = [c \in Chats |-> <<>>]
  /\ steady = [a \in Audience |-> {}] /\ ever = steady /\ changes = 0

(* A chat changes something while the delivery waits for Telegram.           *)
Change(k, f) ==
  /\ delivery.queue # {} /\ changes < MaxChanges
  /\ known' = k /\ follows' = f
  /\ steady' = [a \in Audience |-> steady[a] \cap Members(a, k, f)]
  /\ ever' = [a \in Audience |-> ever[a] \cup Members(a, k, f)]
  /\ changes' = changes + 1
  /\ UNCHANGED <<delivery, told>>

Join(c) == c \notin known /\ Change(known \cup {c}, follows)
Leave(c) == c \in known /\ Change(known \ {c}, follows)
Subscribe(c, o) ==
  /\ c \notin follows[o]
  /\ Change(known, [follows EXCEPT ![o] = @ \cup {c}])
Unsubscribe(c, o) ==
  /\ c \in follows[o]
  /\ Change(known, [follows EXCEPT ![o] = @ \ {c}])

Moved(chats, c, new) == IF c \in chats THEN (chats \ {c}) \cup {new} ELSE chats
MigrateChatId(c, new) ==
  /\ c \in known /\ c # new
  /\ Change(Moved(known, c, new), [o \in Operators |-> Moved(follows[o], c, new)])

-----------------------------------------------------------------------------
(* The delivery.  Between two calls of Telegram it runs without a pause.     *)

Entry(c, messages) == [chat |-> c, messages |-> messages]
Following(c) == {o \in Operators : c \in follows[o]}

Targets(to) == (UNION {Members(a, known, follows) : a \in to}) \cap known

ByChat(e, to) ==
  {Entry(c, Render(e, Following(c) \cap to)) : c \in Targets(to)}

(* The plan is made, and its targets are found at once; those of a plan by   *)
(* operator when it is the operator's turn.                                  *)
HandleEventLog(e) ==
  /\ ~Delivering
  /\ LET plan == PlanOf(e)
     IN delivery' =
          [event |-> e, kind |-> plan.kind, actual |-> known,
           left |-> IF plan.kind = "operators" THEN plan.to ELSE {},
           queue |-> CASE plan.kind = "broadcast" -> {Entry(c, <<General>>) : c \in Targets(plan.to)}
                       [] plan.kind = "chats" -> ByChat(e, plan.to)
                       [] OTHER -> {}]
  /\ told' = [c \in Chats |-> <<>>]
  /\ steady' = [a \in Audience |-> Members(a, known, follows)] /\ ever' = steady'
  /\ changes' = 0
  /\ UNCHANGED subscriptions

DeliverToOperator(o) ==
  /\ delivery.queue = {} /\ o \in delivery.left
  /\ delivery' = [delivery EXCEPT !.left = @ \ {o},
       !.queue = {Entry(c, <<{o}>>) : c \in follows[o] \cap delivery.actual}]
  /\ UNCHANGED <<subscriptions, told, history>>

Remaining(x) == IF Len(x.messages) = 1 THEN {} ELSE {Entry(x.chat, Tail(x.messages))}

(* The next message of a chat, once whatever Telegram says.                  *)
Send(x) ==
  /\ x \in delivery.queue
  /\ told' = [told EXCEPT ![x.chat] = Append(@, Head(x.messages))]
  /\ delivery' = [delivery EXCEPT !.queue = (@ \ {x}) \cup Remaining(x)]
  /\ UNCHANGED <<subscriptions, history>>

Next ==
  \/ \E e \in Events : HandleEventLog(e)
  \/ \E o \in Operators : DeliverToOperator(o)
  \/ \E x \in delivery.queue : Send(x)
  \/ \E c \in Chats : Join(c) \/ Leave(c)
  \/ \E c \in Chats, o \in Operators : Subscribe(c, o) \/ Unsubscribe(c, o)
  \/ \E c, new \in Chats : MigrateChatId(c, new)

Spec == Init /\ [][Next]_vars

-----------------------------------------------------------------------------
(* Properties.                                                               *)

(* A chat waits in the queue once, with something to be sent.                *)
TypeOK ==
  /\ known \subseteq Chats /\ follows \in [Operators -> SUBSET Chats]
  /\ delivery.event \in Events /\ delivery.left \subseteq Operators
  /\ \A x \in delivery.queue : x.chat \in Chats /\ x.messages # <<>>
  /\ \A x, y \in delivery.queue : x.chat = y.chat => x = y
  /\ \A a \in Audience : steady[a] \subseteq ever[a]

About(e) == IF e.type = "plain" THEN {} ELSE e.about
Concerned(e, ops) ==
  CASE e.type = "plain" -> e.whom \in ops \cup {Everyone}
    [] e.type = "figures" -> ops \cap e.about # {}
    [] e.type = "report" ->
         \/ ops \cap e.about # {}
         \/ e.rewards /\ (e.listed = {} \/ ops \cap e.listed # {})

(* A chat that changes nothing while a notification is delivered is told of  *)
(* each of its operators' figures and strikes exactly once, of nobody        *)
(* else's, and gets the general message if and only if the event concerns it *)
(* and has nothing particular to say to it, whatever the other chats do      *)
(* meanwhile (telegram_adapters.py 71-126, base_events.py 302-359).          *)
QuietChatIsTold == ~Delivering => \A c \in Chats :
  LET quiet == \A a \in Audience : c \in steady[a] <=> c \in ever[a]
      ops == {o \in Operators : c \in steady[o]}
      mine == ops \cap About(delivery.event)
      times(o) == Cardinality({i \in DOMAIN told[c] : o \in told[c][i]})
  IN (quiet /\ c \in steady[Everyone] /\ delivery # Done) =>
       /\ \A o \in Operators : times(o) = IF o \in mine THEN 1 ELSE 0
       /\ (told[c] # <<>>) <=> Concerned(delivery.event, ops)
       /\ Contains(told[c], General) => Len(told[c]) = 1 /\ mine = {}

(* No chat, however it changes, gets a message twice                         *)
(* (telegram_adapters.py 102-141).                                           *)
NoMessageTwice == \A c \in Chats : IsInjective(told[c])

(* A chat gets only what it was entitled to at some moment of the delivery:  *)
(* no message if the bot was not in it, no figures of an operator it did not *)
(* follow (telegram_adapters.py 88-126, storage.py 259-270).                 *)
StrangersAreNotTold == \A c \in Chats : \A i \in DOMAIN told[c] :
  /\ c \in ever[Everyone]
  /\ \A o \in told[c][i] : c \in ever[o]
=============================================================================
