--------------------------- MODULE ExclusiveLease ---------------------------
(* What SharedChainConnection promises: one holder at a time; once closing  *)
(* has begun no reader is granted the lease any more, only the closer is.   *)
CONSTANTS Readers, Closer, Nobody

VARIABLES holder, closing

Init == holder = Nobody /\ closing = FALSE

Grant(p) ==
  /\ holder = Nobody
  /\ p \in Readers => ~closing
  /\ p = Closer => closing
  /\ holder' = p
  /\ UNCHANGED closing

Release ==
  /\ holder # Nobody
  /\ holder' = Nobody
  /\ UNCHANGED closing

(* Closing begins, and takes the lease at once if nobody has it.            *)
BeginClosing ==
  /\ ~closing
  /\ closing' = TRUE
  /\ holder' \in {holder} \cup (IF holder = Nobody THEN {Closer} ELSE {})

Next == (\E p \in Readers \cup {Closer} : Grant(p)) \/ Release \/ BeginClosing

Spec == Init /\ [][Next]_<<holder, closing>>
=============================================================================
