--------------------------- MODULE MCReservation ---------------------------
(* Small instances of Reservation for TLC. *)
EXTENDS Reservation, TLC

CONSTANTS u1, u2, k1, gold, silver, room

Ask(u, k, p, e, f) == [user |-> u, key |-> k, pass |-> p, extras |-> e, free |-> f]

\* Two passes that compete for one room type, a retried call, a free pass.
MixedRequests ==
  { Ask(u1, k1, gold, {}, FALSE),
    Ask(u1, k1, silver, {room}, FALSE),
    Ask(u2, NoKey, gold, {room}, FALSE),
    Ask(u2, NoKey, silver, {}, TRUE) }

\* Three calls for one pass and one committee, one of them a retry.
RushRequests ==
  { Ask(u1, k1, gold, {room}, FALSE),
    Ask(u2, NoKey, gold, {room}, FALSE),
    Ask(u2, NoKey, silver, {room}, TRUE) }

\* The two pools every call must lock in turn.
PairRequests ==
  { Ask(u1, NoKey, gold, {room}, FALSE), Ask(u2, NoKey, gold, {room}, FALSE) }

MCRank == [p \in Pools |-> IF p \in Passes THEN 1 ELSE 2]

OneSeatEach == [p \in Pools |-> 1]

\* The rush happens while registration is open: bounds the other actors, who
\* are all in the run without this constraint.
RushHour ==
  /\ munStatus = "REGISTRATION_OPEN"
  /\ deleted = {}
  /\ onSale = Passes
  /\ now = 0
  /\ \A c \in Calls : pc[c] # "crashed" /\ reg[c] # "NO_SHOW"

\* Bounds check-in and account deletion out of the liveness run: they end no
\* wait and no unpaid hold.
BeforeTheConference ==
  deleted = {} /\ \A r \in Calls : reg[r] \notin {"ATTENDED", "NO_SHOW"}

Symmetry == Permutations(Calls)
=============================================================================
