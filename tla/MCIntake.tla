------------------------------- MODULE MCIntake -------------------------------
(* An instance of Intake for TLC: one dish, one table, two allergens, and two  *)
(* requests that may be in progress at the same time, with either engine.      *)
EXTENDS Intake

TheDishes == {"naan"}
TheTables == {"t1"}
TheAllergens == {"nuts", "dairy"}
TwoTurns == {1, 2}
=============================================================================
