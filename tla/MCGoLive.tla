------------------------------- MODULE MCGoLive -------------------------------
(* A small instance of GoLive for TLC. *)
EXTENDS GoLive

\* The organizer's second application comes and goes before the first is past
\* gate 1: bounds the product of the two.
Bounds ==
  \/ \A m \in Muns \ {Focus} : status[m] = "none"
  \/ status[Focus] \in {"none", "SUBMITTED", "CHANGES_REQUESTED", "REJECTED", "CANCELLED"}
=============================================================================
