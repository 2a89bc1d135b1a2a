----------------------------- MODULE MCKitchen ------------------------------
(* Instances of Kitchen for TLC: one ticket, interchangeable requests, cooks  *)
(* and order lines.                                                           *)
EXTENDS Kitchen, TLC

CONSTANTS r1, r2, r3, s1, s2, l1, l2

ThreeRequests == {r1, r2, r3}
TwoRequests   == {r1, r2}
TwoCooks      == {s1, s2}
TwoLines      == {l1, l2}

Interchangeable ==
    Permutations(Requests) \cup Permutations(Staff) \cup Permutations(Lines)
=============================================================================
