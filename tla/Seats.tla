------------------------------- MODULE Seats -------------------------------
(***************************************************************************)
(* What the seat keeping of MUN Hub promises, with no locks, transactions, *)
(* clocks or payments in it.                                               *)
(*                                                                         *)
(* A booking is one row of the registrations table.  It claims one seat in *)
(* every pool it names (a pass and, when chosen, a committee, a portfolio  *)
(* and a room type).  The promises are:                                    *)
(*   - a claim is granted only while every pool it names has a seat left;  *)
(*   - a booking moves forward only: a hold becomes a seat or is released, *)
(*     a seat can only be released, and a released booking never returns.  *)
(* Reservation implements this specification (see MCReservation).          *)
(***************************************************************************)
EXTENDS Naturals, FiniteSets

CONSTANTS Bookings, Pools, Sizes

VARIABLES phase,    \* where each booking stands
          claim,    \* the pools in which it claims a seat
          size      \* how many seats each pool has

vars == <<phase, claim, size>>

Taken(p) == {b \in Bookings : phase[b] \in {"held", "seated"} /\ p \in claim[b]}

Init ==
  /\ phase = [b \in Bookings |-> "new"]
  /\ claim \in [Bookings -> SUBSET Pools]
  /\ size \in [Pools -> Sizes]

\* A free booking is seated at once, a paid one is held until it is paid.
Claim(b) ==
  /\ phase[b] = "new"
  /\ \A p \in claim[b] : Cardinality(Taken(p)) < size[p]
  /\ \E granted \in {"held", "seated"} : phase' = [phase EXCEPT ![b] = granted]
  /\ UNCHANGED <<claim, size>>

Seat(b) ==
  /\ phase[b] = "held"
  /\ phase' = [phase EXCEPT ![b] = "seated"]
  /\ UNCHANGED <<claim, size>>

\* One statement may release many holds: a sweep, a cancelled conference.
ReleaseHolds(S) ==
  /\ \A b \in S : phase[b] = "held"
  /\ phase' = [b \in Bookings |-> IF b \in S THEN "released" ELSE phase[b]]
  /\ UNCHANGED <<claim, size>>

\* A seat is given up one booking at a time, by hand.
GiveUpSeat(b) ==
  /\ phase[b] = "seated"
  /\ phase' = [phase EXCEPT ![b] = "released"]
  /\ UNCHANGED <<claim, size>>

\* The organizer may resize a pool, even below what is already taken.
Resize(p, n) ==
  /\ size' = [size EXCEPT ![p] = n]
  /\ UNCHANGED <<phase, claim>>

Next ==
  \/ \E b \in Bookings : Claim(b) \/ Seat(b) \/ GiveUpSeat(b)
  \/ \E S \in (SUBSET Bookings) \ {{}} : ReleaseHolds(S)
  \/ \E p \in Pools, n \in Sizes : Resize(p, n)

Spec == Init /\ [][Next]_vars
=============================================================================
