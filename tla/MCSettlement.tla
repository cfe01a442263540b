---------------------------- MODULE MCSettlement ----------------------------
(* Small instances of Settlement for TLC. *)
EXTENDS Settlement, TLC

\* No two orders are created at the same instant: "oldest first" is no tie.
OrdersApart ==
  \A o, p \in Orders :
    (o # p /\ pay[o].status # "none" /\ pay[p].status # "none") => createdAt[o] # createdAt[p]

Symmetry == Permutations(Orders)
=============================================================================
