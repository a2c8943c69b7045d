---------------------------- MODULE MCJobPages ----------------------------
(* JobPages on small instances: two workers, one of whom has a browser.    *)
EXTENDS JobPages, TLC

CONSTANTS w1, w2

\* Which worker is which does not matter; every property is one of safety.
WorkerSymmetry == Permutations(Workers)

\* At the bound the customer's last click is one of the panel's.
LastClick ==
    clicks < MaxClicks /\ clicks' = MaxClicks =>
        {page[Customer], page'[Customer]} \subseteq {"elsewhere", "jobs"}
MCSpec == Init /\ [][Next /\ LastClick]_vars
=============================================================================
