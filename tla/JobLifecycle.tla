---------------------------- MODULE JobLifecycle ----------------------------
(***************************************************************************)
(* One job of the marketplace, from its publication to its commission.     *)
(*                                                                         *)
(* Every HTTP handler that writes the job or one of its applications is a  *)
(* process made of the steps between two of its awaits: it loads rows, it  *)
(* tests what it loaded, and it commits.  PostgreSQL runs READ COMMITTED,  *)
(* no row carries a version and no SELECT takes a lock, so whatever        *)
(* committed between a load and the commit is unseen; the ORM then writes  *)
(* the columns the handler changed, WHERE id = ..., and nothing else.      *)
(* The arq worker runs the timeout checks as one more process.             *)
(*                                                                         *)
(* A request whose guard on the job row fails answers with an error and    *)
(* leaves no trace, so such a request is never started here.               *)
(***************************************************************************)
EXTENDS FiniteSets, Integers

CONSTANTS
    Workers,          \* the workers who may apply, one application each
    Requests,         \* slots for the HTTP requests in flight
    None,             \* SQL NULL, and the field a request does not use
    Concurrent,       \* FALSE: a request or a timeout check runs alone
    PatchStatuses,    \* the statuses clients put in the payload of PATCH /jobs
    Aborts,           \* may a request or a timeout check die between awaits?
    MaxNoShow         \* bound on the no-show counters, which saturate

VARIABLES
    job,         \* the row of jobs
    apps,        \* the rows of job_applications, by worker
    billing,     \* the worker of the worker_billing row of this job, or None
    noShow,      \* no_show_count of each worker profile and of the customer's
    req,         \* the requests in flight and what each has loaded
    cron         \* the timeout check in flight and what it has loaded

vars == <<job, apps, billing, noShow, req, cron>>
rows == <<job, apps, billing, noShow>>

JobStatus == {"open", "assigned", "in_progress", "completed", "cancelled"}

(* "absent": the worker has no row in job_applications for this job.       *)
ApplicationStatus == {"absent", "pending", "accepted", "rejected"}

(* decline_reason: given by a person, or one of the two the system sets.   *)
DeclineReason == {"given", "another_applicant_selected", "unresponsive"}

(* A timestamp column: NULL, set within JOB_LIFECYCLE_TIMEOUT_HOURS, or    *)
(* set before that window.                                                 *)
Timestamp == {"null", "recent", "old"}
Now == "recent"
IsSet(t) == t # "null"

Job == [status : JobStatus,
        is_deleted : BOOLEAN,
        customer_marked_complete_at : Timestamp,
        worker_marked_complete_at : Timestamp]

JobApplication == [status : ApplicationStatus,
                   decline_reason : DeclineReason \cup {None},
                   accepted_at : Timestamp,
                   worker_confirmed : BOOLEAN]

NewJob == [status |-> "open", is_deleted |-> FALSE,
           customer_marked_complete_at |-> "null",
           worker_marked_complete_at |-> "null"]

(* The columns of a new application, before its row exists and after.      *)
NoApplication == [status |-> "absent", decline_reason |-> None,
                  accepted_at |-> "null", worker_confirmed |-> FALSE]

DeclinedSwapped(a, reason) == [a EXCEPT !.status = reason, !.decline_reason = "rejected"]   \* mutant

Declined(a, reason) == [a EXCEPT !.status = "rejected", !.decline_reason = reason]

Accepted == {w \in Workers : apps[w].status = "accepted"}

(* get_accepted_worker_user_id and its _profile_id twin end in LIMIT 1     *)
(* with no ORDER BY: with two accepted applications either may come back.  *)
AcceptedWorkers == IF Accepted = {} THEN {None} ELSE Accepted

Participants == Workers \cup {"customer"}

CountNoShow(who) ==
    noShow' = [p \in Participants |->
                 IF p \in who /\ noShow[p] < MaxNoShow THEN noShow[p] + 1 ELSE noShow[p]]

-----------------------------------------------------------------------------
(* Requests in flight.                                                     *)

(* "complete" is sent by the customer when w = None, by worker w otherwise. *)
Ops == {"apply", "update", "confirm", "withdraw", "start", "complete", "patch", "delete"}

(* How far a handler is: "loaded" its job row, "checked" one more thing it *)
(* loads, "ready" to write, "flushed": its first UPDATEs are sent and the  *)
(* rows locked, "billing": its job is committed COMPLETED and the          *)
(* commission still to be created.                                         *)
Steps == {"idle", "loaded", "checked", "ready", "flushed", "billing"}

Request == [step : Steps,
            op : Ops \cup {None},
            w : Workers \cup {None},                               \* the applicant
            status : JobStatus \cup ApplicationStatus \cup {None}, \* in the payload
            saw : BOOLEAN,                                         \* see each handler
            others : SUBSET Workers]                               \* losing applicants

Idle == [step |-> "idle", op |-> None, w |-> None, status |-> None,
         saw |-> FALSE, others |-> {}]

(* Who sends what: workers are w in requests of their own, and in the      *)
(* customer's decision on w's application.                                 *)
PayloadOK(q) ==
    /\ q.op \in {"apply", "update", "confirm", "withdraw", "start"} => q.w \in Workers
    /\ q.op = "update" => q.status \in {"pending", "accepted", "rejected"}
    /\ q.op = "patch"  => q.status \in PatchStatuses \cup {None}

(* The timeout check: the applications it found due, then the party it     *)
(* found silent.                                                           *)
Check == [step : {"idle", "assignments", "between", "completions"},
          due : SUBSET Workers,
          silent : {None, "customer", "worker"}]

NoCheck == [step |-> "idle", due |-> {}, silent |-> None]

ASSUME ConstantsAssumption ==
    /\ Concurrent \in BOOLEAN
    /\ Aborts \in BOOLEAN
    /\ MaxNoShow \in Nat
    /\ PatchStatuses \subseteq JobStatus
    /\ None \notin Workers \cup Ops \cup DeclineReason \cup {"customer", "worker"}
    /\ "customer" \notin Workers

AllQuiet == req = [r \in Requests |-> Idle] /\ cron = NoCheck
MayBegin == Concurrent \/ AllQuiet

(* The handler has loaded the job row and found what it asks of it.        *)
Load(r, op, w, status, saw) ==
    /\ req[r] = Idle
    /\ MayBegin
    /\ req' = [req EXCEPT ![r] = [Idle EXCEPT !.step = "loaded", !.op = op, !.w = w,
                                              !.status = status, !.saw = saw]]
    /\ UNCHANGED <<rows, cron>>

At(r, op, step) == req[r].op = op /\ req[r].step = step

(* The handler goes on when its guard holds and answers an error otherwise. *)
GoOnIf(guard, r, step) ==
    /\ req' = [req EXCEPT ![r] = IF guard THEN [@ EXCEPT !.step = step] ELSE Idle]
    /\ UNCHANGED <<rows, cron>>

Finish(r) == req' = [req EXCEPT ![r] = Idle]

(* Rows that an UPDATE has locked until its transaction ends.              *)
JobLocked == \E r \in Requests : req[r].step = "flushed"
ApplicationLocked(w) == \E r \in Requests : req[r].step = "flushed" /\ req[r].w = w

-----------------------------------------------------------------------------
(* POST /jobs/{id}/apply.  A second application of the same worker breaks  *)
(* unique_job_application, whichever of the two checks notices.            *)

ApplyLoad(r, w) == job.status = "open" /\ Load(r, "apply", w, None, FALSE)

ApplyCommit(r) ==
    /\ At(r, "apply", "loaded")
    /\ LET w == req[r].w
       IN  apps' = IF apps[w].status = "absent"
                     THEN [apps EXCEPT ![w].status = "pending"] ELSE apps
    /\ Finish(r)
    /\ UNCHANGED <<job, billing, noShow, cron>>

-----------------------------------------------------------------------------
(* PATCH /jobs/{id}/applications/{app_id}: the customer's decision.        *)

UpdateLoad(r, w, status) == job.status = "open" /\ Load(r, "update", w, status, FALSE)

UpdateLoadApplication(r) ==
    /\ At(r, "update", "loaded")
    /\ LET a == apps[req[r].w]
       IN  req' = [req EXCEPT ![r] =
               IF a.status = "absent" THEN Idle
               ELSE [@ EXCEPT !.step = IF req[r].status = "accepted" THEN "checked" ELSE "ready",
                              !.saw = (a.status = "accepted")]]
    /\ UNCHANGED <<rows, cron>>

(* "Another application is already accepted", unless this one was when     *)
(* the handler loaded it (saw).                                            *)
MayAcceptUnchecked(saw) == TRUE                                                      \* mutant

MayAccept(saw) == Accepted = {} \/ saw

UpdateCheckAccepted(r) ==
    At(r, "update", "checked") /\ GoOnIf(MayAccept(req[r].saw), r, "ready")

DecidedKeepsReason(a, status) ==                                                     \* mutant
    CASE status = "accepted" -> [a EXCEPT !.status = status, !.accepted_at = Now]
      [] status = "rejected" -> Declined(a, "given")
      [] OTHER               -> [a EXCEPT !.status = status, !.decline_reason = None]

DecidedUndated(a, status) ==                                                         \* mutant
    IF status = "rejected" THEN Declined(a, "given")
    ELSE [a EXCEPT !.status = status, !.decline_reason = None]

Decided(a, status) ==
    CASE status = "accepted" -> [a EXCEPT !.status = status, !.decline_reason = None,
                                          !.accepted_at = Now]
      [] status = "rejected" -> Declined(a, "given")
      [] OTHER               -> [a EXCEPT !.status = status, !.decline_reason = None]

UpdateCommit(r) ==
    /\ At(r, "update", "ready")
    /\ ~ApplicationLocked(req[r].w)
    /\ apps' = [apps EXCEPT ![req[r].w] = Decided(@, req[r].status)]
    /\ Finish(r)
    /\ UNCHANGED <<job, billing, noShow, cron>>

-----------------------------------------------------------------------------
(* POST .../applications/{app_id}/confirm: the worker's half of the        *)
(* handshake.  The SELECT of the losing applications flushes what the      *)
(* handler has set so far, which locks the job row and the winner's.       *)

ConfirmLoad(r, w) == job.status = "open" /\ Load(r, "confirm", w, None, FALSE)

ConfirmablePending(a) == a.status \in {"pending", "accepted"}                        \* mutant

Confirmable(a) == a.status = "accepted"

ConfirmLoadApplication(r) ==
    At(r, "confirm", "loaded") /\ GoOnIf(Confirmable(apps[req[r].w]), r, "ready")

LosingAcceptedOnly(w) == {o \in Workers \ {w} : apps[o].status = "accepted"}         \* mutant

LosingApplications(w) ==
    {o \in Workers \ {w} : apps[o].status \notin {"absent", "rejected"}}

ConfirmFlush(r) ==
    /\ At(r, "confirm", "ready")
    /\ ~JobLocked
    /\ req' = [req EXCEPT ![r].step = "flushed", ![r].others = LosingApplications(req[r].w)]
    /\ UNCHANGED <<rows, cron>>

ConfirmCommit(r) ==
    /\ At(r, "confirm", "flushed")
    /\ job' = [job EXCEPT !.status = "assigned"]
    /\ apps' = [w \in Workers |->
                  IF w = req[r].w THEN [apps[w] EXCEPT !.worker_confirmed = TRUE]
                  ELSE IF w \in req[r].others THEN Declined(apps[w], "another_applicant_selected")
                  ELSE apps[w]]
    /\ Finish(r)
    /\ UNCHANGED <<billing, noShow, cron>>

-----------------------------------------------------------------------------
(* POST .../applications/{app_id}/withdraw                                 *)

WithdrawLoadAnytime(r, w) == Load(r, "withdraw", w, None, FALSE)                     \* mutant

WithdrawLoad(r, w) == job.status = "open" /\ Load(r, "withdraw", w, None, FALSE)

Withdrawable(a) == a.status \in {"pending", "accepted"}

WithdrawLoadApplication(r) ==
    At(r, "withdraw", "loaded") /\ GoOnIf(Withdrawable(apps[req[r].w]), r, "ready")

WithdrawCommit(r) ==
    /\ At(r, "withdraw", "ready")
    /\ ~ApplicationLocked(req[r].w)
    /\ apps' = [apps EXCEPT ![req[r].w] = Declined(@, "given")]
    /\ Finish(r)
    /\ UNCHANGED <<job, billing, noShow, cron>>

-----------------------------------------------------------------------------
(* POST /jobs/{id}/start: the accepted worker only.                        *)

StartLoad(r, w) == job.status = "assigned" /\ Load(r, "start", w, None, FALSE)

StartCheckWorker(r) ==
    /\ At(r, "start", "loaded")
    /\ \E accepted \in AcceptedWorkers : GoOnIf(accepted = req[r].w, r, "ready")

StartCommit(r) ==
    /\ At(r, "start", "ready")
    /\ ~JobLocked
    /\ job' = [job EXCEPT !.status = "in_progress"]
    /\ Finish(r)
    /\ UNCHANGED <<apps, billing, noShow, cron>>

-----------------------------------------------------------------------------
(* POST /jobs/{id}/complete: one side's mark.  saw: the other side's mark  *)
(* was set in the row the handler loaded.                                  *)

(* The timestamp of the customer (w = None) or of the worker, and the      *)
(* other one.                                                              *)
Mark(w) == IF w = None THEN job.customer_marked_complete_at ELSE job.worker_marked_complete_at

OtherMark(w) == IF w = None THEN job.worker_marked_complete_at ELSE job.customer_marked_complete_at

CompleteLoad(r, w) ==
    /\ job.status = "in_progress"
    /\ ~IsSet(Mark(w))
    /\ Load(r, "complete", w, None, IsSet(OtherMark(w)))

(* The caller is the customer and there is an accepted worker (an assert), *)
(* or the caller is that worker.                                           *)
MayComplete(caller, accepted) ==
    IF caller = None THEN accepted # None ELSE accepted = caller

CompleteCheckWorker(r) ==
    /\ At(r, "complete", "loaded")
    /\ \E accepted \in AcceptedWorkers : GoOnIf(MayComplete(req[r].w, accepted), r, "ready")

Marked(j, w) ==
    IF w = None THEN [j EXCEPT !.customer_marked_complete_at = Now]
                ELSE [j EXCEPT !.worker_marked_complete_at = Now]

(* Both timestamps are set in the row as the handler sees it.              *)
CompletesNever(saw) == FALSE                                                         \* mutant

Completes(saw) == saw

CompleteCommit(r) ==
    /\ At(r, "complete", "ready")
    /\ ~JobLocked
    /\ job' = IF Completes(req[r].saw) THEN [Marked(job, req[r].w) EXCEPT !.status = "completed"]
                                       ELSE Marked(job, req[r].w)
    /\ req' = [req EXCEPT ![r] = IF Completes(@.saw) THEN [@ EXCEPT !.step = "billing"] ELSE Idle]
    /\ UNCHANGED <<apps, billing, noShow, cron>>

(* The commission, in a transaction of its own.  Without an accepted       *)
(* worker an assertion fails; a second row breaks the unique job_id.       *)
CompleteBill(r) ==
    /\ At(r, "complete", "billing")
    /\ \E accepted \in AcceptedWorkers :
          billing' = IF billing = None THEN accepted ELSE billing
    /\ Finish(r)
    /\ UNCHANGED <<job, apps, noShow, cron>>

-----------------------------------------------------------------------------
(* PATCH /jobs/{id} writes the fields present in the payload, the status   *)
(* among them or not (None).  DELETE /jobs/{id} is a soft delete.          *)

PatchLoad(r, status) ==
    /\ job.status = "open" /\ ~job.is_deleted
    /\ Load(r, "patch", None, status, FALSE)

PatchedStatusDefault(status) == IF status = None THEN "open" ELSE status             \* mutant

PatchedStatus(status) == IF status = None THEN job.status ELSE status

PatchCommit(r) ==
    /\ At(r, "patch", "loaded")
    /\ ~JobLocked
    /\ job' = [job EXCEPT !.status = PatchedStatus(req[r].status)]
    /\ Finish(r)
    /\ UNCHANGED <<apps, billing, noShow, cron>>

DeleteLoad(r) == ~job.is_deleted /\ Load(r, "delete", None, None, FALSE)

DeleteCommit(r) ==
    /\ At(r, "delete", "loaded")
    /\ ~JobLocked
    /\ job' = [job EXCEPT !.is_deleted = TRUE]
    /\ Finish(r)
    /\ UNCHANGED <<apps, billing, noShow, cron>>

-----------------------------------------------------------------------------
(* The hourly timeout check: two scans, each with its own commit.          *)

OfferExpiredConfirmed(a) == a.status = "accepted" /\ a.accepted_at = "old"           \* mutant

OfferExpired(a) ==
    a.status = "accepted" /\ ~a.worker_confirmed /\ a.accepted_at = "old"

ScanAssignments ==
    /\ cron = NoCheck
    /\ MayBegin
    /\ cron' = [cron EXCEPT !.step = "assignments",
                            !.due = {w \in Workers : OfferExpired(apps[w])}]
    /\ UNCHANGED <<rows, req>>

ExpireAssignments ==
    /\ cron.step = "assignments"
    /\ \A w \in cron.due : ~ApplicationLocked(w)
    /\ apps' = [w \in Workers |->
                  IF w \in cron.due THEN Declined(apps[w], "unresponsive") ELSE apps[w]]
    /\ CountNoShow(cron.due)
    /\ cron' = [NoCheck EXCEPT !.step = "between"]
    /\ UNCHANGED <<job, billing, req>>

(* The side that stayed silent while the other one's mark grew old.        *)
SilentPartyAtOnce ==                                                                 \* mutant
    CASE job.status = "in_progress" /\ ~IsSet(OtherMark(None)) -> "worker"
      [] job.status = "in_progress" /\ ~IsSet(Mark(None)) -> "customer"
      [] OTHER -> None

SilentPartyWorkerOnly ==                                                             \* mutant
    IF job.status = "in_progress" /\ Mark(None) = "old" /\ ~IsSet(OtherMark(None))
      THEN "worker" ELSE None

SilentParty ==
    CASE job.status = "in_progress" /\ Mark(None) = "old" /\ ~IsSet(OtherMark(None)) -> "worker"
      [] job.status = "in_progress" /\ OtherMark(None) = "old" /\ ~IsSet(Mark(None)) -> "customer"
      [] OTHER -> None

ScanCompletions ==
    /\ cron.step = "between"
    /\ cron' = IF SilentParty = None THEN NoCheck
               ELSE [cron EXCEPT !.step = "completions", !.silent = SilentParty]
    /\ UNCHANGED <<rows, req>>

ExpireCompletions ==
    /\ cron.step = "completions"
    /\ ~JobLocked
    /\ job' = [Marked(job, IF cron.silent = "customer" THEN None ELSE "worker")
                 EXCEPT !.status = "completed"]
    /\ IF cron.silent = "customer" THEN CountNoShow({"customer"})
       ELSE \E accepted \in AcceptedWorkers : CountNoShow({accepted})
    /\ cron' = NoCheck
    /\ UNCHANGED <<apps, billing, req>>

-----------------------------------------------------------------------------
(* The environment: JOB_LIFECYCLE_TIMEOUT_HOURS go by, a process dies.     *)

Aged(t) == IF IsSet(t) THEN "old" ELSE t

TimePasses ==
    /\ job' = [job EXCEPT !.customer_marked_complete_at = Aged(@),
                          !.worker_marked_complete_at = Aged(@)]
    /\ apps' = [w \in Workers |-> [apps[w] EXCEPT !.accepted_at = Aged(@)]]
    /\ <<job, apps>>' # <<job, apps>>
    /\ UNCHANGED <<billing, noShow, req, cron>>

Abort(r) == Aborts /\ req[r] # Idle /\ Finish(r) /\ UNCHANGED <<rows, cron>>

AbortCheck == Aborts /\ cron # NoCheck /\ cron' = NoCheck /\ UNCHANGED <<rows, req>>

-----------------------------------------------------------------------------
Init ==
    /\ job = NewJob
    /\ apps = [w \in Workers |-> NoApplication]
    /\ billing = None
    /\ noShow = [p \in Participants |-> 0]
    /\ req = [r \in Requests |-> Idle]
    /\ cron = NoCheck

(* A request arrives.                                                      *)
Arrive(r) ==
    \/ \E w \in Workers :
          \/ ApplyLoad(r, w)
          \/ \E status \in {"pending", "accepted", "rejected"} : UpdateLoad(r, w, status)
          \/ ConfirmLoad(r, w)
          \/ WithdrawLoad(r, w)
          \/ StartLoad(r, w)
    \/ \E w \in Workers \cup {None} : CompleteLoad(r, w)
    \/ \E status \in PatchStatuses \cup {None} : PatchLoad(r, status)
    \/ DeleteLoad(r)

(* A request in flight takes its next step.                                *)
Advance(r) ==
    \/ ApplyCommit(r)
    \/ UpdateLoadApplication(r) \/ UpdateCheckAccepted(r) \/ UpdateCommit(r)
    \/ ConfirmLoadApplication(r) \/ ConfirmFlush(r) \/ ConfirmCommit(r)
    \/ WithdrawLoadApplication(r) \/ WithdrawCommit(r)
    \/ StartCheckWorker(r) \/ StartCommit(r)
    \/ CompleteCheckWorker(r) \/ CompleteCommit(r) \/ CompleteBill(r)
    \/ PatchCommit(r)
    \/ DeleteCommit(r)

TimeoutCheck == ScanAssignments \/ ExpireAssignments \/ ScanCompletions \/ ExpireCompletions

Next ==
    \/ \E r \in Requests : Arrive(r) \/ Advance(r) \/ Abort(r)
    \/ TimeoutCheck
    \/ AbortCheck
    \/ TimePasses

Spec == Init /\ [][Next]_vars

(* A request that was received is served, the check starts every hour      *)
(* however many requests come and does not die in every run, and time      *)
(* passes.  Nobody has to send a request.                                  *)
Fairness ==
    /\ \A r \in Requests : WF_vars(Advance(r))
    /\ SF_vars(ScanAssignments) /\ SF_vars(ExpireAssignments)
    /\ SF_vars(ScanCompletions) /\ SF_vars(ExpireCompletions)
    /\ WF_vars(TimePasses)

FairSpec == Spec /\ Fairness
-----------------------------------------------------------------------------
(* What holds however requests and the timeout check interleave, as long   *)
(* as no client writes the status itself (PatchStatuses = {}).             *)

(* Every row and every handler's local state has the shape the code gives it. *)
TypeOK ==
    /\ job \in Job
    /\ apps \in [Workers -> JobApplication]
    /\ billing \in Workers \cup {None}
    /\ noShow \in [Participants -> 0..MaxNoShow]
    /\ req \in [Requests -> Request]
    /\ \A r \in Requests : PayloadOK(req[r])
    /\ cron \in Check

(* decline_reason is set exactly on the rejected applications, although    *)
(* five handlers write the pair of columns from what they loaded earlier   *)
(* (ApplicationDeclineReason: "required whenever status moves to           *)
(* REJECTED").                                                             *)
ReasonIffRejected ==
    \A w \in Workers : (apps[w].decline_reason # None) <=> (apps[w].status = "rejected")

(* A job is COMPLETED only with both marks set, each by its own party or   *)
(* by the timeout (mark_job_complete: "neither can force completion        *)
(* alone").                                                                *)
CompletionNeedsBothMarks ==
    job.status = "completed" =>
        IsSet(job.customer_marked_complete_at) /\ IsSet(job.worker_marked_complete_at)

(* A job that is no longer OPEN was confirmed by some worker whom the      *)
(* customer had accepted: the handshake has two halves.                    *)
SomeoneConfirmed == \E w \in Workers : apps[w].worker_confirmed /\ IsSet(apps[w].accepted_at)

LeavesOpenByHandshake == job.status # "open" => SomeoneConfirmed

(* A commission is owed only on a job both sides marked complete.          *)
CommissionNeedsBothMarks ==
    billing # None => /\ IsSet(job.customer_marked_complete_at)
                      /\ IsSet(job.worker_marked_complete_at)

(* What a handler or the timeout check read long ago and still acts upon   *)
(* is true when it acts, however late: a confirming worker was accepted,   *)
(* the job of one who starts or completes it was confirmed, the other      *)
(* side's mark it saw is there, and both marks are when it bills.          *)
StaleFactsHold ==
    /\ \A w \in Workers : apps[w].status = "accepted" => IsSet(apps[w].accepted_at)
    /\ \A r \in Requests :
          /\ At(r, "confirm", "ready") \/ At(r, "confirm", "flushed") =>
                IsSet(apps[req[r].w].accepted_at)
          /\ req[r].op \in {"start", "complete"} => SomeoneConfirmed
          /\ req[r].op = "complete" /\ req[r].saw => IsSet(OtherMark(req[r].w))
          /\ At(r, "complete", "billing") => IsSet(Mark(None)) /\ IsSet(OtherMark(None))
    /\ cron.step = "completions" =>
          /\ cron.silent # None
          /\ SomeoneConfirmed
          /\ IsSet(IF cron.silent = "customer" THEN Mark("worker") ELSE Mark(None))

(* Nothing brings a job back to OPEN: an edit of its title that was loaded *)
(* while it was OPEN and commits after the assignment leaves the status    *)
(* alone, so that no second handshake begins.                              *)
NeverReopens == [][job.status # "open" => job'.status # "open"]_vars

-----------------------------------------------------------------------------
(* What holds when a request or a timeout check runs alone, still with     *)
(* PatchStatuses = {}.                                                     *)

(* The customer accepts one applicant at a time.                           *)
AtMostOneAccepted == \A v, w \in Accepted : v = w

(* From ASSIGNED on there is exactly one accepted worker, who confirmed,   *)
(* and every other application is rejected (confirm_application).          *)
HandshakeComplete ==
    job.status # "open" =>
        \E w \in Workers :
            /\ apps[w].status = "accepted" /\ apps[w].worker_confirmed
            /\ \A o \in Workers \ {w} : apps[o].status \in {"absent", "rejected"}

(* No job waits with both marks set: the second mark completes it.         *)
BothMarksComplete ==
    (/\ IsSet(job.customer_marked_complete_at)
     /\ IsSet(job.worker_marked_complete_at)) => job.status = "completed"

(* The customer accepted w, who has not confirmed yet.                     *)
OfferIsOpen(w) ==
    job.status = "open" /\ apps[w].status = "accepted" /\ ~apps[w].worker_confirmed

(* A no-show is counted against a party that is silent at that moment: the *)
(* customer or the worker who let the other one's mark grow old, the       *)
(* worker who let the customer's offer grow old.                           *)
NoShowIsSilent ==
    [][/\ noShow'["customer"] # noShow["customer"] =>
             job.status = "in_progress" /\ ~IsSet(Mark(None)) /\ OtherMark(None) = "old"
       /\ \A w \in Workers : noShow'[w] # noShow[w] =>
             \/ OfferIsOpen(w) /\ apps[w].accepted_at = "old"
             \/ /\ job.status = "in_progress" /\ apps[w].worker_confirmed
                /\ ~IsSet(OtherMark(None)) /\ Mark(None) = "old"]_vars

-----------------------------------------------------------------------------
(* What the comments of the code say and races or timeouts break.          *)

(* "Exactly one row per job, created automatically when that job           *)
(* completes" (models/worker_billing.py).                                  *)
CompletedJobIsCharged == job.status = "completed" /\ AllQuiet => billing # None

(* "so there's always an accepted worker by this point"                    *)
(* (job_lifecycle_service.py, above an assert).                            *)
JobHasItsWorker == job.status = "in_progress" => Accepted # {}

-----------------------------------------------------------------------------
(* What the timeout check promises under FairSpec.                         *)

(* A side that marked the job is not kept waiting for ever by the other    *)
(* (expire_unconfirmed_completions: "protects the confirming party from    *)
(* being stuck forever").                                                  *)
MarkedJobCompletes ==
    (/\ job.status = "in_progress"
     /\ IsSet(job.customer_marked_complete_at) \/ IsSet(job.worker_marked_complete_at))
        ~> job.status = "completed"

(* An accepted applicant who never answers does not hold the offer for     *)
(* ever: unless requests keep coming, it is confirmed or taken back.       *)
OfferDoesNotLinger ==
    \A w \in Workers :
        []<>(~OfferIsOpen(w) \/ \E r \in Requests : req[r] # Idle)

(* Whoever falls silent, the other side is not stuck: the hourly check     *)
(* ends what he leaves open (job_timeout_service.py).                      *)
NobodyIsStuck == MarkedJobCompletes /\ OfferDoesNotLinger
=============================================================================
