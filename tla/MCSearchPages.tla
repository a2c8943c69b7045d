---------------------------- MODULE MCSearchPages ----------------------------
(* SearchPages on small instances: three rows, two controls, one place. *)
EXTENDS SearchPages

CONSTANTS trade, verified

\* Row 2 is elsewhere; rows 1 and 2 have the trade, row 1 alone is verified.
Three == 1..3
OwnControl == [c \in {trade, verified} |-> c]
SmallMeets == [r \in Three |-> CASE r = 1 -> {trade, verified, "home", "link"}
                                 [] r = 2 -> {trade, "link"}
                                 [] r = 3 -> {"home"}]
\* A link with a parameter nobody knows, one with coordinates.
SmallLinks == {{trade, "junk"}, {"link"}}

\* The location is stored at the start or not, and an update may lose it.
\* Either a row changes or a request fails.
MCSpec ==
    /\ SearchInit /\ stored # "undefined"
    /\ [][SearchNext /\ changes' + faults' <= 1]_searchVars /\ WF_searchVars(Push)
=============================================================================
