---------------------------- MODULE MCDelegation ----------------------------
(* Small instances of Delegation for TLC. *)
EXTENDS Delegation, TLC

CONSTANTS t1, t2, a1, a2, a3, b1, b2, h1, h2, u

\* A team of three, and a solo delegate who wants the same pass.
TeamAndSolo == [t \in Teams |-> IF t = t1 THEN {a1, a2, a3} ELSE {b1}]

\* Two teams of two.
TwoTeams == [t \in Teams |-> IF t = t1 THEN {a1, a2} ELSE {b1, b2}]

Heads == [t \in Teams |-> IF t = t1 THEN h1 ELSE h2]

HeadSeats == [t \in Teams |-> IF t = t1 THEN a1 ELSE b1]

\* Bounds the sweeps, staff and attendance out of the double-claim run.
PaidTeams ==
  /\ now = 0
  /\ \A s \in Seats : status[s] \in {"none", "CONFIRMED"}

\* Keeps the crowd small: one delegate is checked in early, nobody is a no-show,
\* the solo delegate has a free seat or an unpaid one, and calls that begin to
\* reserve do so at once.
SmallCrowd ==
  /\ \A s \in Seats : status[s] # "NO_SHOW"
  /\ Cardinality({s \in Seats : status[s] = "ATTENDED"}) <= (IF now < 2 THEN 1 ELSE 0)
  /\ status[b1] # "ATTENDED"
  /\ payment[t2] \in {"none", "PENDING"}
  /\ now > 0 => phase[t1] \in {"order", "done"} /\ phase[t2] \in {"idle", "done"}
  /\ Cardinality({c \in Calls : call[c] # Idle}) = 2 => now < 2

Symmetry ==
  Permutations(Calls) \cup Permutations(Invitations) \cup Permutations({a2, a3})
=============================================================================
