------------------------------- MODULE MCMenu -------------------------------
(* An instance of Menu for TLC: two restaurants, two members of staff who may *)
(* work at both, two tabs, and a dish of one restaurant besides one that may   *)
(* be added to either.                                                         *)
EXTENDS Menu, TLC

Works(r, role) == [rest |-> r, role |-> role]

\* One owns r1; the other owns r2 and waits in r1.
SomeRosters ==
    {[u \in {"ann", "bob"} |-> IF u = "ann" THEN <<Works("r1", "owner")>>
                              ELSE <<Works("r2", "owner"), Works("r1", "foh")>>]}

CONSTANTS left, right

Interchangeable == Permutations(Tabs)

TwoUsers == {"ann", "bob"}
TwoRestaurants == {"r1", "r2"}
TwoDishes == {"d1", "d2"}
TwoTabs == {left, right}
=============================================================================
