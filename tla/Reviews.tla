------------------------------- MODULE Reviews -------------------------------
(***************************************************************************)
(* Reviews of completed jobs, the rating snapshot on the worker's profile, *)
(* reports and moderation.                                                 *)
(*                                                                         *)
(* Every handler is one transaction.  PostgreSQL runs READ COMMITTED: a    *)
(* SELECT sees what had committed when it started and the handler's own    *)
(* writes, an UPDATE or DELETE waits for the transaction that holds its    *)
(* row, an INSERT for the one that inserted the same key.                  *)
(***************************************************************************)
EXTENDS FiniteSets

CONSTANTS
    Jobs, Workers,    \* completed jobs, and the workers who did them
    Doer,             \* Doer[j]: the accepted worker of job j
    Reviews,          \* <<j, side>>: the reviews people have it in mind to write
    Reporters,        \* users who may report a review
    Requests,         \* slots for the HTTP requests in flight
    None,             \* a field a request does not use
    Concurrent,       \* FALSE: a request runs alone
    Aborts            \* may a request die before its commit?

Sides == {"customer", "worker"}    \* Review.role: who wrote it

ASSUME ConstantsAssumption ==
    /\ Doer \in [Jobs -> Workers]
    /\ Reviews \subseteq Jobs \X Sides
    /\ Concurrent \in BOOLEAN
    /\ Aborts \in BOOLEAN
    /\ None \notin Reviews \cup Reporters \cup {"submit", "report", "approve", "remove"}

VARIABLES
    reviews,     \* the committed rows of reviews; "flagged" is is_flagged
    rated,       \* the reviews average_rating and review_count were computed from
    reports,     \* who has a row in review_reports, by review
    log,         \* actions in admin_action_log, by review
    req,         \* the requests in flight and what each has loaded or locked
    overtaken,   \* history: requests whose aggregate another commit overtook
    outdated     \* history: workers whose snapshot such a request wrote

history == <<overtaken, outdated>>
vars == <<reviews, rated, reports, log, req, history>>

ReviewState == {"absent", "shown", "flagged"}
Actions == {"approve_review", "remove_review"}

(* Reviews by the customer of the job are about the worker and rate them.  *)
Rates(k, w) == k[2] = "customer" /\ Doer[k[1]] = w

(* "loaded": the guards passed on what was read.  "written": its INSERT,   *)
(* UPDATE or DELETE ran.  "counted": the aggregate was read.  "updated":   *)
(* the profile row is updated and locked until the commit.                 *)
Request == [step : {"idle", "loaded", "checked", "written", "counted", "updated"},
            op : {None, "submit", "report", "approve", "remove"},
            k : Reviews \cup {None},
            reporter : Reporters \cup {None},
            seen : SUBSET (Reviews \cup Reporters)]

Idle == [step |-> "idle", op |-> None, k |-> None, reporter |-> None, seen |-> {}]

Load(r, op, k, reporter) ==
    /\ req[r] = Idle
    /\ Concurrent \/ \A other \in Requests : req[other] = Idle
    /\ req' = [req EXCEPT ![r] = [Idle EXCEPT !.step = "loaded", !.op = op, !.k = k,
                                              !.reporter = reporter]]
    /\ UNCHANGED <<reviews, rated, reports, log, history>>

At(r, op, step) == req[r].op = op /\ req[r].step = step

GoTo(r, step) == req' = [req EXCEPT ![r] = [@ EXCEPT !.step = step]]

Saw(r, step, set) == req' = [req EXCEPT ![r] = [@ EXCEPT !.step = step, !.seen = set]]

Finish(r) == req' = [req EXCEPT ![r] = Idle]

(* Requests other than r whose open transaction has written.               *)
Writing(r, op) == {o \in Requests \ {r} : req[o].op = op
                                          /\ req[o].step \in {"written", "counted", "updated"}}

-----------------------------------------------------------------------------
(* recalculate_worker_rating: an aggregate, then one UPDATE of the profile. *)

WorkerOf(k) == Doer[k[1]]

Shown(k) == reviews[k] = "shown"

(* The reviews the SELECT of request r sees: committed, and its own write. *)
Countable(r, w) ==
    {k \in Reviews : /\ Rates(k, w)
                     /\ IF k = req[r].k THEN req[r].op = "submit" ELSE Shown(k)}

(* A moderator's removal leaves the snapshot to the next review.           *)
RecalculatesOnSubmit(r) == req[r].op = "submit" /\ req[r].k[2] = "customer"         \* mutant

Recalculates(r) == req[r].op \in {"submit", "remove"} /\ req[r].k[2] = "customer"

CountReviews(r) ==
    /\ req[r].step = "written" /\ Recalculates(r)
    /\ Saw(r, "counted", Countable(r, WorkerOf(req[r].k)))
    /\ UNCHANGED <<reviews, rated, reports, log, history>>

ProfileLocked(r) ==
    \E o \in Requests \ {r} : /\ req[o].step = "updated" /\ Recalculates(o)
                              /\ WorkerOf(req[o].k) = WorkerOf(req[r].k)

(* A locked profile is not waited for: the handler counts again.           *)
UpdateProfileBackingOff(r) ==                                                        \* mutant
    /\ req[r].step = "counted"
    /\ IF \E o \in Requests \ {r} : req[o].step \in {"counted", "updated"}
         THEN GoTo(r, "written") ELSE GoTo(r, "updated")
    /\ UNCHANGED <<reviews, rated, reports, log, history>>

UpdateProfileCommitting(r) ==                                                        \* mutant
    /\ req[r].step = "counted"
    /\ ~ProfileLocked(r)
    /\ rated' = [rated EXCEPT ![WorkerOf(req[r].k)] = req[r].seen]
    /\ GoTo(r, "updated")
    /\ UNCHANGED <<reviews, reports, log, history>>

UpdateProfile(r) ==
    /\ req[r].step = "counted"
    /\ ~ProfileLocked(r)
    /\ GoTo(r, "updated")
    /\ UNCHANGED <<reviews, rated, reports, log, history>>

(* What a commit makes of the snapshots.                                   *)
NewRated(r) ==
    IF Recalculates(r) THEN [rated EXCEPT ![WorkerOf(req[r].k)] = req[r].seen] ELSE rated

(* History.  The aggregate of r has missed nothing up to its commit unless *)
(* another request about the same worker commits in between.               *)
Counting(w) ==
    {o \in Requests : req[o].step \in {"counted", "updated"} /\ WorkerOf(req[o].k) = w}

Overtake(r) ==
    LET w == WorkerOf(req[r].k)
    IN IF Recalculates(r)
       THEN /\ overtaken' = (overtaken \cup Counting(w)) \ {r}
            /\ outdated' = IF r \in overtaken THEN outdated \cup {w} ELSE outdated \ {w}
       ELSE UNCHANGED history

ReadyToCommit(r) == req[r].step = IF Recalculates(r) THEN "updated" ELSE "written"

-----------------------------------------------------------------------------
(* POST /jobs/{id}/reviews, in the direction the caller is entitled to.    *)

SubmitLoad(r, k) == Load(r, "submit", k, None)

SubmitCheck(r) ==
    /\ At(r, "submit", "loaded")
    /\ IF reviews[req[r].k] = "absent" THEN GoTo(r, "checked") ELSE Finish(r)
    /\ UNCHANGED <<reviews, rated, reports, log, history>>

(* The flush: unique_job_reviewer has the last word.                       *)
SubmitInsertAnyway(r) ==                                                             \* mutant
    /\ At(r, "submit", "checked")
    /\ GoTo(r, "written")
    /\ UNCHANGED <<reviews, rated, reports, log, history>>

SubmitInsert(r) ==
    /\ At(r, "submit", "checked")
    /\ \A o \in Writing(r, "submit") : req[o].k # req[r].k
    /\ IF reviews[req[r].k] = "absent" THEN GoTo(r, "written") ELSE Finish(r)
    /\ UNCHANGED <<reviews, rated, reports, log, history>>

SubmitCommit(r) ==
    /\ req[r].op = "submit" /\ ReadyToCommit(r)
    /\ reviews' = [reviews EXCEPT ![req[r].k] = "shown"]
    /\ rated' = NewRated(r)
    /\ Overtake(r)
    /\ Finish(r)
    /\ UNCHANGED <<reports, log>>

-----------------------------------------------------------------------------
(* POST /reviews/{id}/report                                               *)

ReportLoad(r, k, u) == Shown(k) /\ Load(r, "report", k, u)

(* A second report of the same user breaks unique_review_reporter.         *)
ReportCommit(r) ==
    /\ At(r, "report", "loaded")
    /\ \A o \in Writing(r, "approve") : ~(req[o].k = req[r].k /\ req[r].reporter \in req[o].seen)
    /\ reports' = [reports EXCEPT ![req[r].k] = @ \cup {req[r].reporter}]
    /\ Finish(r)
    /\ UNCHANGED <<reviews, rated, log, history>>

-----------------------------------------------------------------------------
(* POST /admin/flagged-reviews/{id}/approve: the DELETE dismisses every    *)
(* report there is when it runs, also one the admin's queue did not show.  *)

ApproveLoad(r, k) == reviews[k] # "absent" /\ Load(r, "approve", k, None)

ApproveSweep(r) ==
    /\ At(r, "approve", "loaded")
    /\ \A o \in Writing(r, "approve") : req[o].k # req[r].k
    /\ Saw(r, "written", reports[req[r].k])
    /\ UNCHANGED <<reviews, rated, reports, log, history>>

ApproveCommit(r) ==
    /\ At(r, "approve", "written")
    /\ reports' = [reports EXCEPT ![req[r].k] = @ \ req[r].seen]
    /\ log' = [log EXCEPT ![req[r].k] = @ \cup {"approve_review"}]
    /\ Finish(r)
    /\ UNCHANGED <<reviews, rated, history>>

-----------------------------------------------------------------------------
(* POST /admin/flagged-reviews/{id}/remove                                 *)

RemoveLoad(r, k) == Shown(k) /\ Load(r, "remove", k, None)

RemoveFlag(r) ==
    /\ At(r, "remove", "loaded")
    /\ \A o \in Writing(r, "remove") : req[o].k # req[r].k
    /\ GoTo(r, "written")
    /\ UNCHANGED <<reviews, rated, reports, log, history>>

RemoveCommitUnlogged(r) ==                                                           \* mutant
    /\ req[r].op = "remove" /\ ReadyToCommit(r)
    /\ reviews' = [reviews EXCEPT ![req[r].k] = "flagged"]
    /\ rated' = NewRated(r)
    /\ Overtake(r)
    /\ Finish(r)
    /\ UNCHANGED <<reports, log>>

RemoveCommit(r) ==
    /\ req[r].op = "remove" /\ ReadyToCommit(r)
    /\ reviews' = [reviews EXCEPT ![req[r].k] = "flagged"]
    /\ rated' = NewRated(r)
    /\ log' = [log EXCEPT ![req[r].k] = @ \cup {"remove_review"}]
    /\ Overtake(r)
    /\ Finish(r)
    /\ UNCHANGED reports

-----------------------------------------------------------------------------
(* The connection is gone and the transaction rolled back.                 *)
Abort(r) ==
    /\ Aborts /\ req[r] # Idle /\ Finish(r)
    /\ overtaken' = overtaken \ {r}
    /\ UNCHANGED <<reviews, rated, reports, log, outdated>>

Init ==
    /\ reviews = [k \in Reviews |-> "absent"]
    /\ rated = [w \in Workers |-> {}]
    /\ reports = [k \in Reviews |-> {}]
    /\ log = [k \in Reviews |-> {}]
    /\ req = [r \in Requests |-> Idle]
    /\ overtaken = {} /\ outdated = {}

Arrive(r) ==
    \E k \in Reviews : \/ SubmitLoad(r, k) \/ ApproveLoad(r, k) \/ RemoveLoad(r, k)
                       \/ \E u \in Reporters : ReportLoad(r, k, u)

Advance(r) ==
    \/ SubmitCheck(r) \/ SubmitInsert(r) \/ SubmitCommit(r)
    \/ ReportCommit(r)
    \/ ApproveSweep(r) \/ ApproveCommit(r)
    \/ RemoveFlag(r) \/ RemoveCommit(r)
    \/ CountReviews(r) \/ UpdateProfile(r)

Next == \E r \in Requests : Arrive(r) \/ Advance(r) \/ Abort(r)

Spec == Init /\ [][Next]_vars

(* PostgreSQL queues the waiters of a lock, so none is passed over for ever. *)
FairSpec == Spec /\ \A r \in Requests : SF_vars(Advance(r))

-----------------------------------------------------------------------------
(* Properties.                                                             *)

(* Rows and requests keep their shape (models/review.py,                   *)
(* models/review_report.py, models/worker_profile.py).                     *)
TypeOK ==
    /\ reviews \in [Reviews -> ReviewState]
    /\ rated \in [Workers -> SUBSET Reviews]
    /\ reports \in [Reviews -> SUBSET Reporters]
    /\ log \in [Reviews -> SUBSET Actions]
    /\ req \in [Requests -> Request]

(* The snapshot of a worker counts only reviews that are stored and about  *)
(* that worker, even when a submission dies after the aggregate            *)
(* (rating_service.py: both changes land together).                        *)
CountsStoredReviews ==
    \A w \in Workers : \A k \in rated[w] : Rates(k, w) /\ reviews[k] # "absent"

(* A review is out of sight exactly when an admin's removal is on record   *)
(* (review_moderation_service.py, remove_flagged_review).                  *)
RemovalIsLogged ==
    \A k \in Reviews : reviews[k] = "flagged" <=> "remove_review" \in log[k]

(* Once reviewed is reviewed: no submission, however late, replaces a      *)
(* stored review or brings a removed one back (crud_reviews.py,            *)
(* submit_review, with unique_job_reviewer).                               *)
NoSecondReview ==
    [][\A r \in Requests : SubmitCommit(r) => reviews[req[r].k] = "absent"]_vars

(* A snapshot leaves a visible review out, or counts a hidden one, only if *)
(* the request that wrote it last was overtaken: another about the same    *)
(* worker committed between its aggregate and its commit.  Rollbacks, late *)
(* submissions, two removals of one review and overlaps about different    *)
(* workers keep it right, and the next request that is not overtaken mends *)
(* it (rating_service.py:22-41, called by crud_reviews.py:177-180 and      *)
(* review_moderation_service.py:87-91).                                    *)
StaleOnlyIfOvertaken ==
    \A w \in Workers \ outdated : rated[w] = {k \in Reviews : Rates(k, w) /\ Shown(k)}

(* Handlers that wait for each other's rows all come to an end.            *)
EveryRequestEnds == \A r \in Requests : req[r] # Idle ~> req[r] = Idle

(* average_rating and review_count are those of the visible reviews        *)
(* (rating_service.py, recalculate_worker_rating).                         *)
RatingIsCurrent ==
    \A w \in Workers : rated[w] = {k \in Reviews : Rates(k, w) /\ Shown(k)}
=============================================================================
