---------------------------- MODULE JobHandshake ----------------------------
(***************************************************************************)
(* What the job lifecycle promises its users, without rows, requests or    *)
(* timers: applicants are in play, the customer chooses one, that one      *)
(* confirms and the others are out, the work starts, both sides mark it    *)
(* done (the timeout marks for a side that stays silent), and the worker   *)
(* who was chosen may then be charged.                                     *)
(***************************************************************************)
CONSTANTS Workers, None

VARIABLES
    stage,     \* where the job stands
    inPlay,    \* the applicants who are not rejected
    chosen,    \* the applicant the customer accepted, or None
    marked,    \* the sides that marked the job complete
    charged    \* the worker who owes the commission, or None

vars == <<stage, inPlay, chosen, marked, charged>>

Sides == {"customer", "worker"}

Init ==
    /\ stage = "open"
    /\ inPlay = {}
    /\ chosen = None
    /\ marked = {}
    /\ charged = None

(* Worker w applies, or the customer gives w another chance.               *)
Join(w) ==
    /\ stage = "open"
    /\ inPlay' = inPlay \cup {w}
    /\ UNCHANGED <<stage, chosen, marked, charged>>

(* The customer accepts w, when nobody else is accepted.                   *)
Choose(w) ==
    /\ stage = "open" /\ chosen = None
    /\ chosen' = w
    /\ inPlay' = inPlay \cup {w}
    /\ UNCHANGED <<stage, marked, charged>>

(* The customer goes back on it but keeps the applicant.                   *)
Reconsider ==
    /\ stage = "open"
    /\ chosen' = None
    /\ UNCHANGED <<stage, inPlay, marked, charged>>

(* w is turned down, withdraws, or lets the offer expire.                  *)
Leave(w) ==
    /\ stage = "open"
    /\ inPlay' = inPlay \ {w}
    /\ chosen' = IF chosen = w THEN None ELSE chosen
    /\ UNCHANGED <<stage, marked, charged>>

(* The chosen worker confirms: the other applicants are out.               *)
Confirm ==
    /\ stage = "open" /\ chosen # None
    /\ stage' = "assigned"
    /\ inPlay' = {chosen}
    /\ UNCHANGED <<chosen, marked, charged>>

Start ==
    /\ stage = "assigned"
    /\ stage' = "in_progress"
    /\ UNCHANGED <<inPlay, chosen, marked, charged>>

(* A side marks the job, or is marked by the timeout.                      *)
Mark(side) ==
    /\ stage = "in_progress" /\ side \notin marked
    /\ marked' = marked \cup {side}
    /\ stage' = IF marked' = Sides THEN "completed" ELSE stage
    /\ UNCHANGED <<inPlay, chosen, charged>>

Charge ==
    /\ stage = "completed" /\ charged = None
    /\ charged' = chosen
    /\ UNCHANGED <<stage, inPlay, chosen, marked>>

Next ==
    \/ \E w \in Workers : Join(w) \/ Choose(w) \/ Leave(w)
    \/ Reconsider \/ Confirm \/ Start \/ Charge
    \/ \E side \in Sides : Mark(side)

Spec == Init /\ [][Next]_vars
=============================================================================
