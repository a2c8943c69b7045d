------------------------------ MODULE QueryCache ------------------------------
(***************************************************************************)
(* What TanStack Query does with one query of the cache, as the hooks of   *)
(* src/frontend/src use it: at most one fetch is under way, data outlives  *)
(* the component that asked for it, and an invalidation reaches a fetch    *)
(* only if somebody is looking.                                            *)
(***************************************************************************)

CONSTANT None
-----------------------------------------------------------------------------
(* Queries of the cache.  `clean` and `missed` are history: no call was    *)
(* under way when the fetch started; an invalidation started no fetch.     *)

NoFetch == [phase |-> "idle", answer |-> None, clean |-> FALSE]
NewQuery == [data |-> None, error |-> FALSE, stale |-> FALSE, missed |-> FALSE,
             fetch |-> NoFetch]

StartFetch(q, clean) ==
    [q EXCEPT !.fetch = [phase |-> "sent", answer |-> None, clean |-> clean],
              !.error = @ /\ q.data # None, !.missed = FALSE]
\* A component that uses the query is mounted.
Observed(q, clean) ==
    IF q.fetch.phase = "idle" /\ (q.data = None \/ q.stale) THEN StartFetch(q, clean) ELSE q

\* mutant: a fetch under way is joined
InvalidatedJoining(q, observed) ==
    IF observed /\ q.fetch.phase = "idle"
    THEN [StartFetch(q, FALSE) EXCEPT !.stale = TRUE]
    ELSE [q EXCEPT !.stale = TRUE]
\* invalidateQueries: a query on the screen is fetched again at once, in
\* place of a fetch under way unless that is its first; any other one when
\* it is next observed, which a success before that takes back.
Invalidated(q, observed) ==
    IF observed /\ (q.data # None \/ q.fetch.phase = "idle")
    THEN [StartFetch(q, FALSE) EXCEPT !.stale = TRUE]
    ELSE [q EXCEPT !.stale = TRUE, !.missed = @ \/ q.fetch.phase # "idle"]

Answered(q, data) == [q EXCEPT !.fetch.phase = "answered", !.fetch.answer = data]
Received(q) == [q EXCEPT !.data = q.fetch.answer, !.error = FALSE, !.stale = FALSE, !.fetch = NoFetch]
\* The request and its one retry failed; the data there was stays.
FetchFailed(q) == [q EXCEPT !.error = TRUE, !.stale = TRUE, !.fetch = NoFetch]
\* setQueryData, which no fetch under way hears of.
SetData(q, data) == [q EXCEPT !.data = data, !.error = FALSE, !.stale = FALSE]
=============================================================================
