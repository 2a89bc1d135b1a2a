---------------------------- MODULE MCDriftAlerts ----------------------------
(* Instances of DriftAlerts for TLC: one dish, and arrival times less and more *)
(* than the threshold apart.  A recompute moves the targets as far when it     *)
(* follows a tool that has changed the arrival time without retiming.          *)
EXTENDS DriftAlerts, TLC

CONSTANTS r1, r2, j1, j2, dish

TwoRequests == {r1, r2}
TwoJobs == {j1, j2}
OneDish == {dish}
PrepTimes == dish :> 20
ThreeEtas == {60, 65, 80}

Interchangeable == Permutations(Requests) \cup Permutations(Jobs)
=============================================================================
