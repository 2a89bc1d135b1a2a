--------------------------- MODULE MCNotifications ---------------------------
(* Instances of Notifications for TLC; jobs are interchangeable.              *)
EXTENDS Notifications, TLC

CONSTANTS j1, j2, j3

TwoJobs == {j1, j2}
ThreeJobs == {j1, j2, j3}

Interchangeable == Permutations(Jobs)
=============================================================================
