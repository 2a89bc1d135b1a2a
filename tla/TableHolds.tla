----------------------------- MODULE TableHolds -----------------------------
(***************************************************************************)
(* What reserving a table promises, without requests, retries or races: a  *)
(* visit takes a table nobody has, keeps exactly one from then on, and may *)
(* be moved in one step to another table nobody has.  A table is out of    *)
(* the pool exactly while a visit has it.                                  *)
(***************************************************************************)
CONSTANTS Visits, Tables, NONE

VARIABLES
    seat,    \* the table of each visit, or NONE
    taken    \* the tables out of the pool

holdVars == <<seat, taken>>

Init == seat = [v \in Visits |-> NONE] /\ taken = {}

\* A confirm that succeeds.
Take(v, t) ==
    /\ seat[v] = NONE
    /\ t \notin taken
    /\ seat'  = [seat EXCEPT ![v] = t]
    /\ taken' = taken \cup {t}

\* A reassignment that succeeds.
Move(v, t) ==
    /\ seat[v] # NONE
    /\ t \notin taken
    /\ seat'  = [seat EXCEPT ![v] = t]
    /\ taken' = (taken \ {seat[v]}) \cup {t}

Next == \E v \in Visits, t \in Tables : Take(v, t) \/ Move(v, t)

Spec == Init /\ [][Next]_holdVars

=============================================================================
