------------------------------ MODULE MCResults ------------------------------
(* Small instances of Results for TLC. *)
EXTENDS Results

CONSTANTS e1, e2, c1, c2, d1, a1, a2

\* Both awards are the one delegate's.
OneWinner == [a \in Awards |-> d1]

HandlersActed ==
  \/ \E c \in Calls : call[c] # Idle
  \/ reg[d1] # "CONFIRMED"
  \/ \E a \in Awards : award[a] # "none"

\* What happens to the dates and what happens to the results are explored one
\* at a time: handlers run only while no editor and no scheduled run is busy.
OneThingAtATime ==
  HandlersActed =>
    /\ job = IdleJob /\ ~ready
    /\ dates = [opensAt |-> NoDate, deadline |-> 2, start |-> 3]
    /\ \A e \in Editors : edit[e].at = "idle"

\* Which row an award takes does not matter.
RowsInOrder == award[a2] # "none" => award[a1] # "none"

\* One editor sends the whole form, and later the other one the start.
FormAndField ==
  /\ edit[e1].at = "checked" => DOMAIN edit[e1].input = DateFields
  /\ edit[e2].at = "checked" => DOMAIN edit[e2].input = {"start"}
  /\ edit[e2].at # "idle" => edit[e1].at # "idle"

\* Runs and edits are of interest while a run has something to do.
RunsWhileListed ==
  job # IdleJob \/ (\E e \in Editors : edit[e].at = "checked") =>
    status \in {"PUBLISHED", "REGISTRATION_OPEN", "REGISTRATION_CLOSED", "SUSPENDED"}
      \cup (IF now = MaxTime THEN {"CONFERENCE_ACTIVE"} ELSE {})

Bounds == OneThingAtATime /\ RowsInOrder /\ FormAndField /\ RunsWhileListed
=============================================================================
