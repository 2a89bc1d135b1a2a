------------------------------ MODULE PassGate ------------------------------
(***************************************************************************)
(* What the pass promises of one ticket, without requests, transactions or *)
(* races: prep is accepted once, an allergy is seen once and stays seen,   *)
(* and food carrying an allergy goes out only after it has been seen.      *)
(***************************************************************************)
VARIABLES
    stage,      \* "confirmed", "kitchen_started", then "food_out"
    allergy,    \* some line of the order carries an allergy flag
    seen        \* a cook has acknowledged the flags

passVars == <<stage, allergy, seen>>

Init == stage = "confirmed" /\ allergy \in BOOLEAN /\ seen = FALSE

Accept ==
    /\ stage = "confirmed"
    /\ stage' = "kitchen_started"
    /\ UNCHANGED <<allergy, seen>>

See ==
    /\ ~seen
    /\ seen' = TRUE
    /\ UNCHANGED <<stage, allergy>>

Serve ==
    /\ stage = "kitchen_started"
    /\ allergy => seen
    /\ stage' = "food_out"
    /\ UNCHANGED <<allergy, seen>>

Next == Accept \/ See \/ Serve

Spec == Init /\ [][Next]_passVars

=============================================================================
