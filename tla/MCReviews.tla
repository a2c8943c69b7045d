------------------------------ MODULE MCReviews ------------------------------
(***************************************************************************)
(* Reviews for TLC: two jobs one worker did for two customers, who both    *)
(* review it.  Both reviews count in the same profile row.                 *)
(***************************************************************************)
EXTENDS Reviews, TLC

CONSTANTS j1, j2, w1, u1, r1, r2

TwoJobs == {j1, j2}
OneWorker == {w1}
BothByOne == [j \in TwoJobs |-> w1]
TwoReviews == {<<j1, "customer">>, <<j2, "customer">>}
OneReporter == {u1}
TwoRequests == {r1, r2}
=============================================================================
