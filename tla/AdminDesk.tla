------------------------------ MODULE AdminDesk ------------------------------
(***************************************************************************)
(* The admin pages (src/frontend/src/features/admin) and what their        *)
(* decisions do on the server: accounts are suspended and reactivated,     *)
(* workers verified or rejected, reported reviews kept or removed,         *)
(* commissions marked paid.                                                *)
(*                                                                         *)
(* Every subject of a decision is a row with two bits.  `settled` is       *)
(* is_suspended, is_verified, is_flagged or "paid"; `pending` is what puts *)
(* a row in a queue: a document that waits, a report.  `log` holds what    *)
(* names the deciding call: admin_action_log, and the payments ledger.     *)
(* Admins share the rows; each has one tab and its own query cache.        *)
(***************************************************************************)
EXTENDS QueryCache, Naturals, Sequences, FiniteSets

CONSTANTS
    Admins,
    Accounts, Workers, Reviews, Billings,   \* the subjects of decisions
    MaxCalls, MaxFaults, MaxMoves           \* bounds: decisions, failures, moves

\* The subjects are keys of four tables: users, worker_profiles, reviews and
\* worker_billing.
ASSUME DeskAssumption ==
    /\ MaxCalls \in Nat /\ MaxFaults \in Nat /\ MaxMoves \in Nat
    /\ Accounts \cap (Workers \cup Reviews \cup Billings) = {}
    /\ Workers \cap (Reviews \cup Billings) = {} /\ Reviews \cap Billings = {}

VARIABLES
    settled, pending, log,   \* the rows, and the calls recorded for each
    calls,                   \* the decisions sent, in order
    view,                    \* what each admin's tab shows
    cache,                   \* the queries of each admin's tab
    faults, moves

server == <<settled, pending, log>>
vars == <<server, calls, view, cache, faults, moves>>

Subjects == Accounts \cup Workers \cup Reviews \cup Billings
\* What a decision sets.  "verify" is the endpoint beside the pages, which
\* verifies a worker and names no admin: nothing records it.
Settling == {"suspend", "approve", "verify", "remove", "pay"}
Clearing == {"reject", "keep"}
Unlogged == {"verify"}
-----------------------------------------------------------------------------
(* Views and their queries.  The detail page of an account is named by it; *)
(* "unpaid" is the billing page with its status filter set.                *)

Lists == {"users", "verifications", "reviews", "billing", "unpaid"}
\* An account is not named like a page.
ASSUME ViewsAssumption == Accounts \cap Lists = {}
Views == Lists \cup Accounts
Queries == {<<"list", v>> : v \in Lists} \cup ({"detail", "log"} \X Accounts)
QueriesOf(v) ==
    IF v \in Accounts THEN {<<"detail", v>>, <<"log", v>>} ELSE {<<"list", v>>}
SamePage(v, w) == v = w \/ {v, w} = {"billing", "unpaid"}

\* What a query is about, and which of it the server lists.
SubjectsOf(q) ==
    CASE q[1] # "list" -> {q[2]}
      [] q[2] = "users" -> Accounts
      [] q[2] = "verifications" -> Workers
      [] q[2] = "reviews" -> Reviews
      [] OTHER -> Billings
Listed(q, i) ==
    CASE q[2] \in {"verifications", "reviews"} -> pending[i] /\ ~settled[i]
      [] q[2] = "unpaid" -> ~settled[i]
      [] OTHER -> TRUE

\* mutant: the list and the audit log are forgotten
TouchedDetailOnly(op, i) ==
    CASE op \in Unlogged -> {}
      [] op \in {"suspend", "reactivate"} -> {<<"detail", i>>}
      [] op \in {"approve", "reject"} -> {<<"list", "verifications">>}
      [] op \in {"keep", "remove"} -> {<<"list", "reviews">>}
      [] op = "pay" -> {<<"list", "billing">>, <<"list", "unpaid">>}
\* What a successful decision invalidates: everything under its key.  What is
\* sent beside the pages tells them nothing.
Touched(op, i) ==
    CASE op \in Unlogged -> {}
      [] op \in {"suspend", "reactivate"} -> {<<"list", "users">>} \cup ({"detail", "log"} \X Accounts)
      [] op \in {"approve", "reject"} -> {<<"list", "verifications">>}
      [] op \in {"keep", "remove"} -> {<<"list", "reviews">>}
      [] op = "pay" -> {<<"list", "billing">>, <<"list", "unpaid">>}

\* The page shows its rows; a failed refetch hides them.
Shown(a, q) == q \in QueriesOf(view[a]) /\ cache[a][q].data # None /\ ~cache[a][q].error
Rows(a, q) == cache[a][q].data.listed
-----------------------------------------------------------------------------
(* What an admin does.  Decisions: "suspend", "reactivate", "approve",      *)
(* "reject", "keep", "remove", "pay"; beside the pages "verify".            *)

Over == {"ok", "failed", "torn"}    \* "torn": the handler died between its commits
InFlight(call) == call.phase \notin Over

\* isPending && variables === i: a hook knows its last call only, and a page
\* mounted again has new hooks.
Busy(a, op, i) ==
    \E c \in DOMAIN calls :
        /\ calls[c].admin = a /\ calls[c].op = op /\ calls[c].mounted
        /\ \A d \in DOMAIN calls :
               d > c => ~(calls[d].admin = a /\ calls[d].op = op /\ calls[d].mounted)
        /\ calls[c].subject = i /\ InFlight(calls[c])

\* mutant: only the buttons of a reported review are disabled
DisabledForReviewsOnly(a, op, i) ==
    op \in {"keep", "remove"} /\ (Busy(a, "keep", i) \/ Busy(a, "remove", i))
\* Keep and remove know of each other, approve and reject do not.
Disabled(a, op, i) ==
    Busy(a, op, i) \/ (op \in {"keep", "remove"} /\ (Busy(a, "keep", i) \/ Busy(a, "remove", i)))

Request(a, op, i, mounted) ==
    /\ Len(calls) < MaxCalls
    /\ calls' = Append(calls, [admin |-> a, op |-> op, subject |-> i,
                               phase |-> "sent", mounted |-> mounted])
    /\ UNCHANGED <<server, view, cache, faults, moves>>
Send(a, op, i) == ~Disabled(a, op, i) /\ Request(a, op, i, TRUE)

\* The row is on the page, and so is its status.
OnScreen(a, q, i) == Shown(a, q) /\ i \in Rows(a, q)
StatusShown(a, q, i) == i \in cache[a][q].data.settled

\* The detail page has one dialog, in the mode of the status shown.
SuspendUser(a, i) ==
    LET q == <<"detail", i>>
    IN OnScreen(a, q, i) /\ ~StatusShown(a, q, i) /\ Send(a, "suspend", i)
ReactivateUser(a, i) ==
    LET q == <<"detail", i>>
    IN OnScreen(a, q, i) /\ StatusShown(a, q, i) /\ Send(a, "reactivate", i)

ApproveVerification(a, i) == OnScreen(a, <<"list", "verifications">>, i) /\ Send(a, "approve", i)
RejectVerification(a, i) == OnScreen(a, <<"list", "verifications">>, i) /\ Send(a, "reject", i)
KeepFlaggedReview(a, i) == OnScreen(a, <<"list", "reviews">>, i) /\ Send(a, "keep", i)
RemoveFlaggedReview(a, i) == OnScreen(a, <<"list", "reviews">>, i) /\ Send(a, "remove", i)

\* A paid record has no button.
MarkPaid(a, i) ==
    \E q \in {<<"list", "billing">>, <<"list", "unpaid">>} :
        OnScreen(a, q, i) /\ ~StatusShown(a, q, i) /\ Send(a, "pay", i)

\* PATCH /worker-profile/{id}/verify, kept as a direct escape hatch: no page
\* sends it, so no button and no row stand before it.
VerifyDirectly(a, i) == Request(a, "verify", i, FALSE)

\* To another page, or with another filter: what is missing, invalidated or
\* older than staleTime is fetched.
Stale(q, aged) == [q EXCEPT !.stale = @ \/ (aged /\ q.data # None)]
GoTo(a, v, aged) ==
    /\ v # view[a] /\ moves < MaxMoves /\ moves' = moves + 1
    /\ view' = [view EXCEPT ![a] = v]
    /\ cache' = [cache EXCEPT ![a] = [q \in Queries |->
           IF q \in QueriesOf(v) THEN Observed(Stale(@[q], aged), FALSE) ELSE @[q]]]
    /\ calls' = [c \in DOMAIN calls |->
           [calls[c] EXCEPT !.mounted = @ /\ (calls[c].admin = a => SamePage(view[a], v))]]
    /\ UNCHANGED <<server, faults>>

\* Others than admins: a document is uploaded, a review reported.
Requeue(i) ==
    /\ i \in Workers \/ (i \in Reviews /\ ~settled[i])
    /\ ~pending[i] /\ moves < MaxMoves /\ moves' = moves + 1
    /\ pending' = [pending EXCEPT ![i] = TRUE]
    /\ UNCHANGED <<settled, log, calls, view, cache, faults>>
-----------------------------------------------------------------------------
(* The server: a guard on the row as loaded, then the commits.             *)

Refused(op, i) ==
    CASE op \in {"suspend", "reject", "remove", "pay"} -> settled[i]
      [] op = "reactivate" -> ~settled[i]
      [] OTHER -> FALSE
\* A worker who is verified already is answered as he is.
Load(c) ==
    LET op == calls[c].op
        i == calls[c].subject
    IN /\ calls[c].phase = "sent"
       /\ calls' = [calls EXCEPT ![c].phase =
              IF Refused(op, i) THEN "refused"
              ELSE IF op \in {"approve", "verify"} /\ settled[i] THEN "answered" ELSE "loaded"]
       /\ UNCHANGED <<server, view, cache, faults, moves>>

\* Only the column decided about is written.
Effect(op, i) ==
    /\ settled' = [settled EXCEPT ![i] =
           IF op \in Settling THEN TRUE ELSE IF op = "reactivate" THEN FALSE ELSE @]
    /\ pending' = [pending EXCEPT ![i] = @ /\ op \notin Clearing]
Record(c) == log' = [log EXCEPT ![calls[c].subject] = @ \cup {c}]

\* A review's effect and log row are one commit.  A payment is recorded before
\* its record is marked; everything else is logged after its effect, if it
\* names an admin.
OneCommit == {"keep", "remove"} \cup Unlogged
RecordsFirst == {"pay"}
Commit(c) ==
    LET op == calls[c].op
    IN /\ calls[c].phase = "loaded"
       /\ calls' = [calls EXCEPT ![c].phase = IF op \in OneCommit THEN "answered" ELSE "halfway"]
       /\ IF op \in RecordsFirst
          THEN UNCHANGED <<settled, pending>> ELSE Effect(op, calls[c].subject)
       /\ IF op \in (OneCommit \cup RecordsFirst) \ Unlogged THEN Record(c) ELSE UNCHANGED log
       /\ UNCHANGED <<view, cache, faults, moves>>
CommitRest(c) ==
    LET op == calls[c].op
    IN /\ calls[c].phase = "halfway"
       /\ calls' = [calls EXCEPT ![c].phase = "answered"]
       /\ IF op \in RecordsFirst
          THEN Effect(op, calls[c].subject) /\ UNCHANGED log
          ELSE Record(c) /\ UNCHANGED <<settled, pending>>
       /\ UNCHANGED <<view, cache, faults, moves>>

\* The answer of a query.  `after` is history: the decisions it comes after.
Snapshot(q) ==
    LET listed == {i \in SubjectsOf(q) : Listed(q, i)}
    IN [listed |-> listed, settled |-> {i \in listed : settled[i]},
        after |-> {c \in DOMAIN calls :
                       calls[c].subject \in SubjectsOf(q) /\ calls[c].phase \in {"answered", "ok"}}]
AnswerQuery(a, q) ==
    /\ cache[a][q].fetch.phase = "sent"
    /\ cache' = [cache EXCEPT ![a][q] = Answered(@, Snapshot(q))]
    /\ UNCHANGED <<server, calls, view, faults, moves>>
-----------------------------------------------------------------------------
(* Answers.                                                                *)

ReceiveQuery(a, q) ==
    /\ cache[a][q].fetch.phase = "answered"
    /\ cache' = [cache EXCEPT ![a][q] = Received(@)]
    /\ UNCHANGED <<server, calls, view, faults, moves>>
QueryFails(a, q) ==
    /\ cache[a][q].fetch.phase # "idle" /\ faults < MaxFaults /\ faults' = faults + 1
    /\ cache' = [cache EXCEPT ![a][q] = FetchFailed(@)]
    /\ UNCHANGED <<server, calls, view, moves>>

\* The hook's onSuccess runs wherever the admin is by now.
Succeed(c) ==
    LET a == calls[c].admin
        touched == Touched(calls[c].op, calls[c].subject)
    IN /\ calls[c].phase = "answered"
       /\ calls' = [calls EXCEPT ![c].phase = "ok"]
       /\ cache' = [cache EXCEPT ![a] = [q \in Queries |->
              IF q \in touched THEN Invalidated(@[q], q \in QueriesOf(view[a])) ELSE @[q]]]
       /\ UNCHANGED <<server, view, faults, moves>>
\* onError says so and fetches nothing.
Fail(c) ==
    /\ calls[c].phase = "refused"
    /\ calls' = [calls EXCEPT ![c].phase = "failed"]
    /\ UNCHANGED <<server, view, cache, faults, moves>>
\* The request, its handler or its answer is lost.
CallLost(c) ==
    /\ InFlight(calls[c]) /\ calls[c].phase # "refused"
    /\ faults < MaxFaults /\ faults' = faults + 1
    /\ calls' = [calls EXCEPT ![c].phase = IF @ = "halfway" THEN "torn" ELSE "failed"]
    /\ UNCHANGED <<server, view, cache, moves>>
-----------------------------------------------------------------------------
\* A morning's queue: nothing is decided yet, everything waits.
Init ==
    /\ settled = [i \in Subjects |-> FALSE]
    /\ pending = [i \in Subjects |-> i \in Workers \cup Reviews]
    /\ log = [i \in Subjects |-> {}]
    /\ calls = <<>> /\ faults = 0 /\ moves = 0
    /\ view \in [Admins -> Views]
    /\ cache = [a \in Admins |-> [q \in Queries |->
           IF q \in QueriesOf(view[a]) THEN StartFetch(NewQuery, FALSE) ELSE NewQuery]]

Next ==
    \/ \E a \in Admins :
           \/ \E i \in Accounts : SuspendUser(a, i) \/ ReactivateUser(a, i)
           \/ \E i \in Workers : \/ ApproveVerification(a, i) \/ RejectVerification(a, i)
                                \/ VerifyDirectly(a, i)
           \/ \E i \in Reviews : KeepFlaggedReview(a, i) \/ RemoveFlaggedReview(a, i)
           \/ \E i \in Billings : MarkPaid(a, i)
           \/ \E v \in Views, aged \in BOOLEAN : GoTo(a, v, aged)
           \/ \E q \in Queries : AnswerQuery(a, q) \/ ReceiveQuery(a, q) \/ QueryFails(a, q)
    \/ \E i \in Subjects : Requeue(i)
    \/ \E c \in DOMAIN calls :
           Load(c) \/ Commit(c) \/ CommitRest(c) \/ Succeed(c) \/ Fail(c) \/ CallLost(c)

Spec == Init /\ [][Next]_vars
-----------------------------------------------------------------------------
(* Properties.                                                             *)

\* Rows, calls and what the tabs show have their shape.
TypeOK ==
    /\ settled \in [Subjects -> BOOLEAN] /\ pending \in [Subjects -> BOOLEAN]
    /\ log \in [Subjects -> SUBSET (1..MaxCalls)]
    /\ Len(calls) <= MaxCalls /\ faults <= MaxFaults /\ moves <= MaxMoves
    /\ view \in [Admins -> Views]
    /\ \A a \in Admins, q \in Queries :
           cache[a][q].data # None =>
               cache[a][q].data.settled \subseteq cache[a][q].data.listed
    /\ \A i \in Subjects : log[i] \subseteq DOMAIN calls

\* Whatever an admin was told on a page is done shows in everything his tab
\* shows from then on, lists he comes back to and the audit log included, once
\* no fetch is under way: an answer from before his decision does not stay,
\* unless the fetch failed or the invalidation met a fetch nobody was looking at.
\* (useSuspendUser.ts:13-18, useApproveVerification.ts:14-17,
\* useKeepFlaggedReview.ts:15-18, useMarkWorkerBillingPaid.ts:14-17)
DeskReadsItsWrites ==
    \A a \in Admins, q \in Queries :
        LET query == cache[a][q]
        IN /\ query.data # None /\ query.fetch.phase = "idle"
           /\ ~query.error /\ ~query.missed
           /\ q \in QueriesOf(view[a]) \/ ~query.stale
           => \A c \in DOMAIN calls :
                  /\ calls[c].admin = a /\ calls[c].op \notin Unlogged
                  /\ calls[c].phase = "ok"
                  /\ calls[c].subject \in SubjectsOf(q)
                  => c \in query.data.after

Recorded(i, ops) == \E c \in log[i] : calls[c].op \in ops
\* Handlers between or cut between their two commits.
Unfinished(i) == \E c \in DOMAIN calls : calls[c].subject = i /\ calls[c].phase \in {"halfway", "torn"}
\* The endpoint beside the pages may have verified this worker.
VerifiedBeside(i) ==
    \E c \in DOMAIN calls : /\ calls[c].subject = i /\ calls[c].op \in Unlogged
                            /\ calls[c].phase \in {"answered", "ok", "failed"}
\* Of a suspension or a decision that ended the log or the ledger always knows,
\* but for a worker verified through PATCH /worker-profile/{id}/verify, of whom
\* nothing is recorded (worker_profile.py:443 passes no admin_id,
\* test_worker_verification_service.py:146-156).  What the log and the ledger
\* say was verified, removed or paid is so and stays so, though the guards are
\* on rows as loaded and the other admin decides at the same time.
\* (admin_user_service.py:49-60 and 65-76,
\* worker_verification_service.py:65-98 and 108-139)
LogExplains ==
    \A i \in Subjects : ~Unfinished(i) =>
        /\ settled[i] => Recorded(i, Settling) \/ VerifiedBeside(i)
        /\ i \in Accounts /\ ~settled[i] /\ log[i] # {} => Recorded(i, {"reactivate"})
        /\ i \notin Accounts /\ Recorded(i, Settling) => settled[i]

\* A commission is collected once by an admin who stays on the page and marks
\* one record at a time: the disabled button bridges the time until the server
\* refuses.  Two admins, a failed call or another record marked in between
\* open the gap. (WorkerBillingTable.tsx:56-67, worker_billing_service.py:32)
CollectsOnce ==
    \A i \in Billings : \A c, d \in log[i] : c < d =>
        \/ calls[c].admin # calls[d].admin \/ ~calls[c].mounted
        \/ calls[c].phase \in {"failed", "torn"}
        \/ \E e \in c + 1 .. d - 1 : calls[e].admin = calls[c].admin /\ calls[e].op = "pay"
                                     /\ calls[e].subject # i

\* What was recorded and what is so agree, and nothing is recorded twice
\* by one admin's clicks.
BooksTellTruth == LogExplains /\ CollectsOnce
=============================================================================
