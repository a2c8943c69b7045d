------------------------------ MODULE MCSession ------------------------------
(* Session on small instances: two accounts, one of them an administrator. *)
EXTENDS Session

CONSTANTS ann, bob, c1, c2

\* A visit begins with no account remembered: the user logs in, and a reload
\* remembers who was signed in.
Start == Init /\ cookie = None
MCSpec == Start /\ [][Next]_vars /\ Fairness
=============================================================================
