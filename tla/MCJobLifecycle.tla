--------------------------- MODULE MCJobLifecycle ---------------------------
(***************************************************************************)
(* JobLifecycle for TLC: two applicants and one or two requests at once.   *)
(***************************************************************************)
EXTENDS JobLifecycleRefinement, TLC

CONSTANTS w1, w2, r1, r2

TwoWorkers == {w1, w2}
OneRequest == {r1}
TwoRequests == {r1, r2}

(* The pages of the frontend never send a status with PATCH /jobs.         *)
NoPatchStatus == {}
AnyPatchStatus == JobStatus

Interchangeable == Permutations(TwoWorkers) \cup Permutations(TwoRequests)
=============================================================================
