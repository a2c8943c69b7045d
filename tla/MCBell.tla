-------------------------------- MODULE MCBell --------------------------------
(* Bell on small instances. *)
EXTENDS Bell

\* Accounts are alike: the first to sign in has a name of his own.
CONSTANT First
MCSpec == Init /\ [][Next /\ owner'[1] \in {First, None}]_vars /\ Fairness
=============================================================================
