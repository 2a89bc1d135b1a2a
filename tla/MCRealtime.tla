----------------------------- MODULE MCRealtime -----------------------------
(* Instances of Realtime for TLC: two restaurants, two screens that take turns *)
(* at one connection per restaurant, and a third socket for what lingers.      *)
EXTENDS Realtime

CONSTANTS r1, r2, c1, c2, s1, s2, s3, t1, t2, t3

TwoRestaurants == {r1, r2}
TwoScreens == {c1, c2}
TwoSockets == {s1, s2}
ThreeSockets == {s1, s2, s3}
TwoTickets == {t1, t2}
ThreeTickets == {t1, t2, t3}
=============================================================================
