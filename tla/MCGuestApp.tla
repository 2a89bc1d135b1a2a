------------------------------ MODULE MCGuestApp ------------------------------
(* An instance of GuestApp for TLC: two numbers, two turns that may overlap,   *)
(* three codes, a typo and a request that fails.                                 *)
EXTENDS GuestApp

TwoPhones == {"own", "wrong"}
TwoSlots == {1, 2}
=============================================================================
