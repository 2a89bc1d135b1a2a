----------------------------- MODULE MCBooking ------------------------------
(* Instances of Booking for TLC.  Rows, customers and requests are            *)
(* interchangeable, so each set of model values is a symmetry set.            *)
EXTENDS Booking, TLC

CONSTANTS v1, v2, t1, t2, t3, c1, c2, r1, r2, r3

TwoVisits    == {v1, v2}
TwoTables    == {t1, t2}
ThreeTables  == {t1, t2, t3}
OneCustomer  == {c1}
TwoCustomers == {c1, c2}
TwoRequests  == {r1, r2}
ThreeRequests == {r1, r2, r3}

Interchangeable ==
    Permutations(Visits) \cup Permutations(Tables)
        \cup Permutations(Customers) \cup Permutations(Requests)
=============================================================================
