--------------------------- MODULE MCWorkerBilling ---------------------------
(***************************************************************************)
(* WorkerBilling for TLC: two requests, and as many payments and files as  *)
(* three attempts can leave behind.                                        *)
(***************************************************************************)
EXTENDS WorkerBilling, TLC

CONSTANTS r1, r2, p1, p2, p3, k1, k2, k3

TwoRequests == {r1, r2}
ThreePayments == {p1, p2, p3}
ThreeKeys == {k1, k2, k3}

Interchangeable ==
    Permutations(TwoRequests) \cup Permutations(ThreePayments) \cup Permutations(ThreeKeys)
=============================================================================
