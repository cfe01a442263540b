----------------------------- MODULE TeamPromise -----------------------------
(***************************************************************************)
(* What a delegation is promised: the seats of a team are held and paid    *)
(* for together, a teammate joins a seat only once it is paid, and the     *)
(* seat is theirs from then on.                                            *)
(***************************************************************************)
CONSTANTS Teams, SeatsOf, Delegates, Unclaimed

Seats == UNION {SeatsOf[t] : t \in Teams}

VARIABLES
  seat,    \* "none", "held", "paid" or "gone"
  member   \* who claimed the seat

vars == <<seat, member>>

Init ==
  /\ seat = [s \in Seats |-> "none"]
  /\ member = [s \in Seats |-> Unclaimed]

Put(S, what) == seat' = [s \in Seats |-> IF s \in S THEN what ELSE seat[s]]

HeldIn(t) == {s \in SeatsOf[t] : seat[s] = "held"}

\* All the seats of a team, or none; a free pass is paid at once.
Hold(t) ==
  /\ \A s \in SeatsOf[t] : seat[s] = "none"
  /\ Put(SeatsOf[t], "held") \/ Put(SeatsOf[t], "paid")
  /\ UNCHANGED member

Pay(t) ==
  /\ HeldIn(t) # {}
  /\ Put(HeldIn(t), "paid")
  /\ UNCHANGED member

\* One sweep may release several teams.
Release(T) ==
  /\ Put(UNION {HeldIn(t) : t \in T}, "gone")
  /\ UNCHANGED member

\* Staff remove one seat.
Remove(s) ==
  /\ seat[s] \in {"held", "paid"}
  /\ Put({s}, "gone")
  /\ UNCHANGED member

Join(s, u) ==
  /\ seat[s] = "paid" /\ member[s] = Unclaimed
  /\ member' = [member EXCEPT ![s] = u]
  /\ UNCHANGED seat

Next ==
  \/ \E t \in Teams : Hold(t) \/ Pay(t)
  \/ \E T \in SUBSET Teams : Release(T)
  \/ \E s \in Seats : Remove(s) \/ \E u \in Delegates : Join(s, u)

Spec == Init /\ [][Next]_vars
=============================================================================
