---------------------------- MODULE OperatorMenu ----------------------------
(***************************************************************************)
(* The follow and unfollow menus of a chat whose members share its         *)
(* subscriptions.  A keyboard is built from what is followed at that       *)
(* moment; a button pressed later, of this screen or of the one that is    *)
(* being replaced by it, carries the operator or page of its own time.     *)
(***************************************************************************)
EXTENDS Integers, Sequences, FiniteSets, Functions

CONSTANTS MaxOperators, PageSize

MenuAssumption == MaxOperators \in Nat /\ PageSize \in Nat \ {0}

VARIABLES
  count,    \* operators of the module
  followed, \* subscriptions of the chat
  screen,   \* the message with its keyboard
  before    \* the keyboard it replaced, whose press may still arrive

vars == <<count, followed, screen, before>>

OperatorIds == 0..(MaxOperators - 1)
Nowhere == -1
Menu == [menu |-> "menu", page |-> 0, buttons |-> <<>>, previous |-> Nowhere, next |-> Nowhere]

Init == /\ count \in 0..MaxOperators /\ followed = {}
        /\ screen = Menu /\ before = Menu

(* The operators a menu is about, and their sorted list.                     *)
Offered(menu, f) == IF menu = "follow" THEN 0..(count - 1) \ f ELSE f

Options(menu, f) ==
  LET ids == Offered(menu, f)
      Rank(o) == Cardinality({p \in ids : p < o})
  IN [i \in 1..Cardinality(ids) |-> CHOOSE o \in ids : Rank(o) = i - 1]

PageCount(options) ==
  LET full == (Len(options) + PageSize - 1) \div PageSize
  IN IF full > 1 THEN full ELSE 1

(* Mutant: no clamping.                                                      *)
MutantUnclamped(page, options) == page

Clamped(page, options) ==
  LET last == PageCount(options) - 1 IN IF page > last THEN last ELSE page

PageOptions(page, options) ==
  SubSeq(options, page * PageSize + 1,
         IF (page + 1) * PageSize < Len(options) THEN (page + 1) * PageSize ELSE Len(options))

Keyboard(menu, options, asked) ==
  LET page == Clamped(asked, options)
  IN [menu |-> menu, page |-> page,
      buttons |-> PageOptions(page, options),
      previous |-> IF page > 0 THEN page - 1 ELSE Nowhere,
      next |-> IF page + 1 < PageCount(options) THEN page + 1 ELSE Nowhere]

Show(keyboard) == screen' = keyboard /\ before' = screen

(* The answer to a command: a text with a way back, in the same state.       *)
Answer(menu) == Show([Menu EXCEPT !.menu = menu])

(* The presses the state of the conversation lets through.                   *)
Presses == {k \in {screen, before} : k.menu = screen.menu}

OpenMenu(menu) ==
  /\ screen.menu = "menu"
  /\ Show(Keyboard(menu, Options(menu, followed), 0))
  /\ UNCHANGED <<count, followed>>

TurnPage == \E k \in Presses : \E page \in {k.previous, k.next} \ {Nowhere} :
  /\ screen.menu # "menu"
  /\ Show(Keyboard(screen.menu, Options(screen.menu, followed), page))
  /\ UNCHANGED <<count, followed>>

PressFollow == \E k \in Presses : \E o \in Range(k.buttons) :
  /\ screen.menu = "follow" /\ o < count
  /\ followed' = followed \cup {o}
  /\ Answer("follow")
  /\ UNCHANGED count

PressUnfollow == \E k \in Presses : \E o \in Range(k.buttons) :
  /\ screen.menu = "unfollow"
  /\ followed' = followed \ {o}
  /\ Answer("unfollow")
  /\ UNCHANGED count

StartOver == screen.menu # "menu" /\ Show(Menu) /\ UNCHANGED <<count, followed>>

(* Another member of the chat changes what it follows.                       *)
OtherMember(o) ==
  /\ o < count
  /\ \/ followed' = followed \cup {o}
     \/ followed' = followed \ {o}
  /\ UNCHANGED <<count, screen, before>>

NewOperator ==
  /\ count < MaxOperators
  /\ count' = count + 1
  /\ UNCHANGED <<followed, screen, before>>

Next ==
  \/ \E menu \in {"follow", "unfollow"} : OpenMenu(menu)
  \/ TurnPage \/ PressFollow \/ PressUnfollow \/ StartOver
  \/ \E o \in OperatorIds : OtherMember(o)
  \/ NewOperator

Spec == Init /\ [][Next]_vars

-----------------------------------------------------------------------------

Pages == -1..MaxOperators
IsKeyboard(k) ==
  /\ k.menu \in {"menu", "follow", "unfollow"}
  /\ k.page \in Pages /\ k.previous \in Pages /\ k.next \in Pages
  /\ k.buttons \in Seq(OperatorIds) /\ Len(k.buttons) <= PageSize

(* A keyboard has at most a page of buttons, all of them operators.          *)
TypeOK == /\ count \in 0..MaxOperators /\ followed \subseteq 0..(count - 1)
          /\ IsKeyboard(screen) /\ IsKeyboard(before)

(* From the first page, pressing Next until there is none shows every option *)
(* once and in order, whatever their number (start.py 82-116).               *)
PagesCoverOptions == \A menu \in {"follow", "unfollow"} :
  LET options == Options(menu, followed)
      shown[page \in 0..MaxOperators] ==
        LET k == Keyboard(menu, options, page)
        IN IF k.next = Nowhere THEN k.buttons ELSE k.buttons \o shown[k.next]
  IN shown[0] = options

(* A page number from a time when there were more options never leads to an  *)
(* empty page while there are options (start.py 93-95, 356-365, 455-464).    *)
StalePageShowsOptions ==
  [][TurnPage /\ Options(screen.menu, followed) # <<>> => screen'.buttons # <<>>]_vars
=============================================================================
