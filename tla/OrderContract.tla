--------------------------- MODULE OrderContract ---------------------------
(***************************************************************************)
(* What the settlement of MUN Hub promises for each order, with no         *)
(* webhooks, retries, polls or clocks in it.                               *)
(*                                                                         *)
(* An order ties a seat to money.  The promises are:                       *)
(*   - a held seat is granted in the very step that takes the order's      *)
(*     payment, and a seat once released is never granted again;           *)
(*   - an order takes at most one payment, and never gives it back;        *)
(*   - money taken with no seat to show for it is owed to the delegate     *)
(*     from that step on, until staff settle it by hand.                   *)
(* Settlement implements this specification (see MCSettlement).            *)
(***************************************************************************)
CONSTANT Orders

VARIABLES seat,     \* "none", "held", "seated" or "released"
          paid,     \* orders whose payment was taken
          debt      \* "none", "owed" or "settled"

vars == <<seat, paid, debt>>

Init ==
  /\ seat = [o \in Orders |-> "none"]
  /\ paid = {}
  /\ debt = [o \in Orders |-> "none"]

\* The seat of a new order may have been released while it was created.
Open(o) ==
  /\ seat[o] = "none"
  /\ \E s \in {"held", "released"} : seat' = [seat EXCEPT ![o] = s]
  /\ UNCHANGED <<paid, debt>>

Grant(o) ==
  /\ seat[o] = "held"
  /\ o \notin paid
  /\ seat' = [seat EXCEPT ![o] = "seated"]
  /\ paid' = paid \cup {o}
  /\ UNCHANGED debt

Release(S) ==
  /\ \A o \in S : seat[o] = "held"
  /\ seat' = [o \in Orders |-> IF o \in S THEN "released" ELSE seat[o]]
  /\ UNCHANGED <<paid, debt>>

TakeTooLate(o) ==
  /\ seat[o] \in {"held", "released"}
  /\ o \notin paid
  /\ seat' = [seat EXCEPT ![o] = "released"]
  /\ paid' = paid \cup {o}
  /\ debt' = [debt EXCEPT ![o] = "owed"]

\* A charge that is not the order's payment: wrong amount, or one too many.
Owe(o) ==
  /\ seat[o] # "none"
  /\ debt[o] # "owed"
  /\ debt' = [debt EXCEPT ![o] = "owed"]
  /\ UNCHANGED <<seat, paid>>

Settle(o) ==
  /\ debt[o] = "owed"
  /\ debt' = [debt EXCEPT ![o] = "settled"]
  /\ UNCHANGED <<seat, paid>>

GiveUp(o) ==
  /\ seat[o] = "seated"
  /\ seat' = [seat EXCEPT ![o] = "released"]
  /\ UNCHANGED <<paid, debt>>

Next ==
  \/ \E o \in Orders : Open(o) \/ Grant(o) \/ TakeTooLate(o)
                       \/ Owe(o) \/ Settle(o) \/ GiveUp(o)
  \/ \E S \in (SUBSET Orders) \ {{}} : Release(S)

Spec == Init /\ [][Next]_vars
=============================================================================
