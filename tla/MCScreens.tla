------------------------------ MODULE MCScreens ------------------------------
(* An instance of Screens for TLC: one screen of each kind, two changes of   *)
(* the visit, two refetches that can overtake each other, one fault.          *)
EXTENDS Screens

TwoTimes == {0, 1}
TwoTables == {"t1", "t2"}
TwoDetails == {"for two at eight", "for three at nine"}
TwoFetches == {1, 2}
=============================================================================
