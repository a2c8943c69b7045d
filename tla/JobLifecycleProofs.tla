------------------------- MODULE JobLifecycleProofs -------------------------
(***************************************************************************)
(* Theorems about JobLifecycle, for any number of workers and requests:    *)
(* first what holds however requests interleave, then what holds when a    *)
(* request or a timeout check runs alone, the refinement of JobHandshake   *)
(* included.                                                               *)
(***************************************************************************)
EXTENDS JobLifecycleRefinement, TLAPS

USE ConstantsAssumption DEF JobStatus, Ops, DeclineReason

-----------------------------------------------------------------------------
(* Type correctness.                                                       *)

LEMMA IdleType == Idle \in Request /\ PayloadOK(Idle) /\ NoCheck \in Check
BY DEF Idle, Request, Steps, Ops, JobStatus, ApplicationStatus, PayloadOK, NoCheck, Check

LEMMA TypeInit == Init => TypeOK
<1> SUFFICES ASSUME Init PROVE TypeOK
  OBVIOUS
<1>1. job \in Job
  BY DEF Init, NewJob, Job, JobStatus, Timestamp
<1>2. apps \in [Workers -> JobApplication]
  BY DEF Init, NoApplication, JobApplication, ApplicationStatus, Timestamp
<1>3. billing \in Workers \cup {None} /\ noShow \in [Participants -> 0..MaxNoShow]
  BY DEF Init
<1>4. req \in [Requests -> Request] /\ (\A r \in Requests : PayloadOK(req[r])) /\ cron \in Check
  BY IdleType DEF Init
<1> QED
  BY <1>1, <1>2, <1>3, <1>4 DEF TypeOK

(* A step of request r keeps the requests well typed if r's new state is.  *)
LEMMA RequestUpdateType ==
    ASSUME TypeOK, NEW r \in Requests, NEW q \in Request, PayloadOK(q),
           req' = [req EXCEPT ![r] = q]
    PROVE  req' \in [Requests -> Request] /\ \A s \in Requests : PayloadOK(req'[s])
BY DEF TypeOK

(* A handler that finishes leaves its slot idle.                           *)
LEMMA FinishType ==
    ASSUME TypeOK, NEW r \in Requests, Finish(r)
    PROVE  req' \in [Requests -> Request] /\ \A s \in Requests : PayloadOK(req'[s])
BY IdleType, RequestUpdateType DEF Finish

(* So does one that goes on or answers an error.                           *)
LEMMA GoOnType ==
    ASSUME TypeOK, NEW r \in Requests, NEW guard \in BOOLEAN, NEW step \in Steps,
           GoOnIf(guard, r, step)
    PROVE  TypeOK'
<1> DEFINE q == IF guard THEN [req[r] EXCEPT !.step = step] ELSE Idle
<1>1. q \in Request /\ PayloadOK(q)
  BY IdleType DEF TypeOK, Request, PayloadOK
<1>2. req' = [req EXCEPT ![r] = q]
  BY DEF GoOnIf
<1>3. req' \in [Requests -> Request] /\ \A s \in Requests : PayloadOK(req'[s])
  BY <1>1, <1>2, RequestUpdateType
<1> QED
  BY <1>3 DEF TypeOK, GoOnIf, rows

(* And one that arrives with a well formed payload.                        *)
LEMMA LoadType ==
    ASSUME TypeOK, NEW r \in Requests, NEW op \in Ops, NEW w \in Workers \cup {None},
           NEW status \in JobStatus \cup ApplicationStatus \cup {None}, NEW saw \in BOOLEAN,
           op \in {"apply", "update", "confirm", "withdraw", "start"} => w \in Workers,
           op = "update" => status \in {"pending", "accepted", "rejected"},
           op = "patch" => status \in PatchStatuses \cup {None},
           Load(r, op, w, status, saw)
    PROVE  TypeOK'
<1> DEFINE q == [Idle EXCEPT !.step = "loaded", !.op = op, !.w = w,
                             !.status = status, !.saw = saw]
<1>1. q \in Request /\ PayloadOK(q)
  BY DEF Idle, Request, PayloadOK, Steps
<1>2. req' = [req EXCEPT ![r] = q]
  BY DEF Load
<1>3. req' \in [Requests -> Request] /\ \A s \in Requests : PayloadOK(req'[s])
  BY <1>1, <1>2, RequestUpdateType
<1> QED
  BY <1>3 DEF TypeOK, Load, rows

LEMMA DeclinedType ==
    ASSUME NEW a \in JobApplication, NEW reason \in DeclineReason
    PROVE  Declined(a, reason) \in JobApplication
BY DEF Declined, JobApplication, ApplicationStatus

LEMMA CountNoShowType ==
    ASSUME TypeOK, NEW who, CountNoShow(who)
    PROVE  noShow' \in [Participants -> 0..MaxNoShow]
BY DEF TypeOK, CountNoShow

LEMMA ArriveType == ASSUME TypeOK, NEW r \in Requests, Arrive(r) PROVE TypeOK'
<1>1. ASSUME NEW w \in Workers, ApplyLoad(r, w) PROVE TypeOK'
  BY <1>1, LoadType DEF ApplyLoad, Ops
<1>2. ASSUME NEW w \in Workers, NEW status \in {"pending", "accepted", "rejected"},
             UpdateLoad(r, w, status)
      PROVE  TypeOK'
  BY <1>2, LoadType DEF UpdateLoad, Ops, ApplicationStatus
<1>3. ASSUME NEW w \in Workers, ConfirmLoad(r, w) PROVE TypeOK'
  BY <1>3, LoadType DEF ConfirmLoad, Ops
<1>4. ASSUME NEW w \in Workers, WithdrawLoad(r, w) PROVE TypeOK'
  BY <1>4, LoadType DEF WithdrawLoad, Ops
<1>5. ASSUME NEW w \in Workers, StartLoad(r, w) PROVE TypeOK'
  BY <1>5, LoadType DEF StartLoad, Ops
<1>6. ASSUME NEW w \in Workers \cup {None}, CompleteLoad(r, w) PROVE TypeOK'
  BY <1>6, LoadType DEF CompleteLoad, Ops, IsSet
<1>7. ASSUME NEW status \in PatchStatuses \cup {None}, PatchLoad(r, status) PROVE TypeOK'
  BY <1>7, LoadType DEF PatchLoad, Ops, JobStatus
<1>8. ASSUME DeleteLoad(r) PROVE TypeOK'
  BY <1>8, LoadType DEF DeleteLoad, Ops
<1> QED
  BY <1>1, <1>2, <1>3, <1>4, <1>5, <1>6, <1>7, <1>8 DEF Arrive

LEMMA AdvanceType == ASSUME TypeOK, NEW r \in Requests, Advance(r) PROVE TypeOK'
<1> req[r] \in Request /\ PayloadOK(req[r])
  BY DEF TypeOK
<1> DEFINE w == req[r].w
           ReqsOK == req' \in [Requests -> Request] /\ \A s \in Requests : PayloadOK(req'[s])
<1>1. CASE ApplyCommit(r)
  <2>1. w \in Workers
    BY <1>1 DEF ApplyCommit, At, PayloadOK
  <2>2. [apps[w] EXCEPT !.status = "pending"] \in JobApplication
    BY <2>1 DEF TypeOK, JobApplication, ApplicationStatus
  <2>3. apps' \in [Workers -> JobApplication]
    BY <1>1, <2>1, <2>2 DEF ApplyCommit, TypeOK
  <2>4. ReqsOK
    BY <1>1, FinishType DEF ApplyCommit
  <2> QED
    BY <1>1, <2>3, <2>4 DEF ApplyCommit, TypeOK
<1>2. CASE UpdateLoadApplication(r)
  <2> DEFINE a == apps[w]
             q == IF a.status = "absent" THEN Idle
                  ELSE [req[r] EXCEPT !.step = IF req[r].status = "accepted" THEN "checked" ELSE "ready",
                                      !.saw = (a.status = "accepted")]
  <2>1. q \in Request /\ PayloadOK(q)
    <3>1. ASSUME NEW step \in Steps, NEW saw \in BOOLEAN
          PROVE  LET e == [req[r] EXCEPT !.step = step, !.saw = saw]
                 IN  e \in Request /\ PayloadOK(e)
      BY DEF Request, PayloadOK
    <3>2. (a.status = "accepted") \in BOOLEAN
      OBVIOUS
    <3>3. (IF req[r].status = "accepted" THEN "checked" ELSE "ready") \in Steps
      BY DEF Steps
    <3>4. LET e == [req[r] EXCEPT !.step = IF req[r].status = "accepted" THEN "checked" ELSE "ready",
                                  !.saw = (a.status = "accepted")]
          IN  e \in Request /\ PayloadOK(e)
      BY <3>1, <3>2, <3>3
    <3> QED
      BY <3>4, IdleType
  <2>2. req' = [req EXCEPT ![r] = q]
    BY <1>2 DEF UpdateLoadApplication
  <2>3. ReqsOK
    BY <2>1, <2>2, RequestUpdateType
  <2> QED
    BY <1>2, <2>3 DEF UpdateLoadApplication, TypeOK, rows
<1>3. CASE UpdateCheckAccepted(r)
  <2>1. MayAccept(req[r].saw) \in BOOLEAN
    BY DEF MayAccept, Request
  <2> QED
    BY <1>3, <2>1, GoOnType DEF UpdateCheckAccepted, Steps
<1>4. CASE UpdateCommit(r)
  <2>1. w \in Workers /\ req[r].status \in {"pending", "accepted", "rejected"}
    BY <1>4 DEF UpdateCommit, At, PayloadOK
  <2>2. apps[w] \in JobApplication
    BY <2>1 DEF TypeOK
  <2>3. Decided(apps[w], req[r].status) \in JobApplication
    <3>1. CASE req[r].status = "rejected"
      BY <2>2, <3>1, DeclinedType DEF Decided
    <3>2. CASE req[r].status \in {"pending", "accepted"}
      BY <2>2, <3>2 DEF Decided, JobApplication, ApplicationStatus, Timestamp, Now
    <3> QED
      BY <2>1, <3>1, <3>2
  <2>4. apps' \in [Workers -> JobApplication]
    BY <1>4, <2>1, <2>3 DEF UpdateCommit, TypeOK
  <2>5. ReqsOK
    BY <1>4, FinishType DEF UpdateCommit
  <2> QED
    BY <1>4, <2>4, <2>5 DEF UpdateCommit, TypeOK
<1>5. CASE ConfirmLoadApplication(r)
  BY <1>5, GoOnType DEF ConfirmLoadApplication, Confirmable, Steps
<1>6. CASE ConfirmFlush(r)
  <2> DEFINE q == [req[r] EXCEPT !.step = "flushed", !.others = LosingApplications(w)]
  <2>1. q \in Request /\ PayloadOK(q)
    BY DEF Request, PayloadOK, Steps, LosingApplications
  <2>2. req' = [req EXCEPT ![r] = q]
    BY <1>6 DEF ConfirmFlush, TypeOK
  <2>3. ReqsOK
    BY <2>1, <2>2, RequestUpdateType
  <2> QED
    BY <1>6, <2>3 DEF ConfirmFlush, TypeOK, rows
<1>7. CASE ConfirmCommit(r)
  <2>1. \A v \in Workers : apps[v] \in JobApplication
    BY DEF TypeOK
  <2>2. \A v \in Workers : Declined(apps[v], "another_applicant_selected") \in JobApplication
    BY <2>1, DeclinedType
  <2>3. \A v \in Workers : [apps[v] EXCEPT !.worker_confirmed = TRUE] \in JobApplication
    BY <2>1 DEF JobApplication
  <2>4. apps' \in [Workers -> JobApplication]
    BY <1>7, <2>1, <2>2, <2>3 DEF ConfirmCommit
  <2>5. job' \in Job
    BY <1>7 DEF ConfirmCommit, TypeOK, Job
  <2>6. ReqsOK
    BY <1>7, FinishType DEF ConfirmCommit
  <2> QED
    BY <1>7, <2>4, <2>5, <2>6 DEF ConfirmCommit, TypeOK
<1>8. CASE WithdrawLoadApplication(r)
  <2>1. Withdrawable(apps[w]) \in BOOLEAN
    BY DEF Withdrawable
  <2> QED
    BY <1>8, <2>1, GoOnType DEF WithdrawLoadApplication, Steps
<1>9. CASE WithdrawCommit(r)
  <2>1. w \in Workers
    BY <1>9 DEF WithdrawCommit, At, PayloadOK
  <2>2. Declined(apps[w], "given") \in JobApplication
    BY <2>1, DeclinedType DEF TypeOK
  <2>3. apps' \in [Workers -> JobApplication]
    BY <1>9, <2>1, <2>2 DEF WithdrawCommit, TypeOK
  <2>4. ReqsOK
    BY <1>9, FinishType DEF WithdrawCommit
  <2> QED
    BY <1>9, <2>3, <2>4 DEF WithdrawCommit, TypeOK
<1>10. CASE StartCheckWorker(r)
  BY <1>10, GoOnType DEF StartCheckWorker, Steps
<1>11. CASE StartCommit(r)
  <2>1. ReqsOK
    BY <1>11, FinishType DEF StartCommit
  <2> QED
    BY <1>11, <2>1 DEF StartCommit, TypeOK, Job
<1>12. CASE CompleteCheckWorker(r)
  <2>1. \A accepted : MayComplete(w, accepted) \in BOOLEAN
    BY DEF MayComplete
  <2> QED
    BY <1>12, <2>1, GoOnType DEF CompleteCheckWorker, Steps
<1>13. CASE CompleteCommit(r)
  <2> DEFINE q == IF req[r].saw THEN [req[r] EXCEPT !.step = "billing"] ELSE Idle
  <2>1. q \in Request /\ PayloadOK(q)
    BY IdleType DEF Request, PayloadOK, Steps
  <2>2. req' = [req EXCEPT ![r] = q]
    BY <1>13 DEF CompleteCommit, Completes
  <2>3. ReqsOK
    BY <2>1, <2>2, RequestUpdateType
  <2>4. job' \in Job
    BY <1>13 DEF CompleteCommit, Completes, TypeOK, Job, Marked, Timestamp, Now
  <2> QED
    BY <1>13, <2>3, <2>4 DEF CompleteCommit, Completes, TypeOK
<1>14. CASE CompleteBill(r)
  <2>1. billing' \in Workers \cup {None}
    BY <1>14 DEF CompleteBill, TypeOK, AcceptedWorkers, Accepted
  <2>2. ReqsOK
    BY <1>14, FinishType DEF CompleteBill
  <2> QED
    BY <1>14, <2>1, <2>2 DEF CompleteBill, TypeOK
<1>15. CASE PatchCommit(r)
  <2>1. job' \in Job
    BY <1>15 DEF PatchCommit, PatchedStatus, At, PayloadOK, TypeOK, Job
  <2>2. ReqsOK
    BY <1>15, FinishType DEF PatchCommit, PatchedStatus
  <2> QED
    BY <1>15, <2>1, <2>2 DEF PatchCommit, PatchedStatus, TypeOK
<1>16. CASE DeleteCommit(r)
  <2>1. ReqsOK
    BY <1>16, FinishType DEF DeleteCommit
  <2> QED
    BY <1>16, <2>1 DEF DeleteCommit, TypeOK, Job
<1> QED
  BY <1>1, <1>2, <1>3, <1>4, <1>5, <1>6, <1>7, <1>8, <1>9, <1>10, <1>11, <1>12, <1>13,
     <1>14, <1>15, <1>16 DEF Advance

LEMMA TimeoutCheckType == ASSUME TypeOK, TimeoutCheck PROVE TypeOK'
<1>1. CASE ScanAssignments
  BY <1>1 DEF ScanAssignments, TypeOK, rows, Check
<1>2. CASE ExpireAssignments
  <2>1. \A w \in Workers : Declined(apps[w], "unresponsive") \in JobApplication
    BY DeclinedType DEF TypeOK
  <2>2. apps' \in [Workers -> JobApplication]
    BY <1>2, <2>1 DEF ExpireAssignments, TypeOK
  <2>3. noShow' \in [Participants -> 0..MaxNoShow]
    BY <1>2, CountNoShowType DEF ExpireAssignments
  <2>4. cron' \in Check
    BY <1>2 DEF ExpireAssignments, NoCheck, Check
  <2> QED
    BY <1>2, <2>2, <2>3, <2>4 DEF ExpireAssignments, TypeOK
<1>3. CASE ScanCompletions
  <2>1. SilentParty \in {None, "customer", "worker"}
    BY DEF SilentParty
  <2>2. cron' \in Check
    BY <1>3, <2>1, IdleType DEF ScanCompletions, TypeOK, Check
  <2> QED
    BY <1>3, <2>2 DEF ScanCompletions, TypeOK, rows
<1>4. CASE ExpireCompletions
  <2>1. job' \in Job
    BY <1>4 DEF ExpireCompletions, TypeOK, Job, Marked, Timestamp, Now
  <2>2. noShow' \in [Participants -> 0..MaxNoShow]
    BY <1>4, CountNoShowType DEF ExpireCompletions
  <2>3. cron' \in Check
    BY <1>4, IdleType DEF ExpireCompletions
  <2> QED
    BY <1>4, <2>1, <2>2, <2>3 DEF ExpireCompletions, TypeOK
<1> QED
  BY <1>1, <1>2, <1>3, <1>4 DEF TimeoutCheck

LEMMA EnvironmentType ==
    ASSUME TypeOK, TimePasses \/ AbortCheck \/ \E r \in Requests : Abort(r)
    PROVE  TypeOK'
<1>1. CASE TimePasses
  <2>1. job' \in Job
    BY <1>1 DEF TimePasses, TypeOK, Job, Timestamp, Aged
  <2>2. apps' \in [Workers -> JobApplication]
    BY <1>1 DEF TimePasses, TypeOK, JobApplication, Timestamp, Aged
  <2> QED
    BY <1>1, <2>1, <2>2 DEF TimePasses, TypeOK
<1>2. CASE AbortCheck
  BY <1>2, IdleType DEF AbortCheck, TypeOK, rows
<1>3. ASSUME NEW r \in Requests, Abort(r) PROVE TypeOK'
  BY <1>3, FinishType DEF Abort, TypeOK, rows
<1> QED
  BY <1>1, <1>2, <1>3

LEMMA TypeStep == TypeOK /\ [Next]_vars => TypeOK'
<1> SUFFICES ASSUME TypeOK, [Next]_vars PROVE TypeOK'
  OBVIOUS
<1>1. CASE UNCHANGED vars
  BY <1>1 DEF vars, TypeOK
<1>2. CASE Next
  BY <1>2, ArriveType, AdvanceType, TimeoutCheckType, EnvironmentType DEF Next
<1> QED
  BY <1>1, <1>2

(* Whatever is sent, in whatever order it commits, every row and every     *)
(* handler's local state keeps the shape the models and schemas declare.   *)
THEOREM TypeCorrect == Spec => []TypeOK
BY TypeInit, TypeStep, PTL DEF Spec

-----------------------------------------------------------------------------
(* The two columns of a rejection agree.                                   *)

ReasonOK(a) == (a.decline_reason # None) <=> (a.status = "rejected")

LEMMA DeclinedReason ==
    ASSUME NEW a \in JobApplication, NEW reason \in DeclineReason
    PROVE  ReasonOK(Declined(a, reason))
BY DEF ReasonOK, Declined, JobApplication

LEMMA DecidedReason ==
    ASSUME NEW a \in JobApplication, NEW status \in {"pending", "accepted", "rejected"}
    PROVE  ReasonOK(Decided(a, status))
<1>1. CASE status = "rejected"
  BY <1>1, DeclinedReason DEF Decided
<1>2. CASE status # "rejected"
  BY <1>2 DEF Decided, ReasonOK, JobApplication
<1> QED
  BY <1>1, <1>2

LEMMA ReasonStep == TypeOK /\ ReasonIffRejected /\ [Next]_vars => ReasonIffRejected'
<1> SUFFICES ASSUME TypeOK, \A w \in Workers : ReasonOK(apps[w]), [Next]_vars,
                    NEW v \in Workers
             PROVE  ReasonOK(apps'[v])
  BY DEF ReasonIffRejected, ReasonOK
<1>a. apps \in [Workers -> JobApplication] /\ apps[v] \in JobApplication /\ ReasonOK(apps[v])
  BY DEF TypeOK
<1>b. \A r \in Requests : PayloadOK(req[r])
  BY DEF TypeOK
<1>1. CASE apps' = apps
  BY <1>1, <1>a
<1>2. ASSUME NEW r \in Requests, ApplyCommit(r) PROVE ReasonOK(apps'[v])
  <2>1. apps[v].status = "absent" => ReasonOK([apps[v] EXCEPT !.status = "pending"])
    BY <1>a DEF ReasonOK, JobApplication
  <2> QED
    BY <1>2, <1>a, <2>1 DEF ApplyCommit
<1>3. ASSUME NEW r \in Requests, UpdateCommit(r) PROVE ReasonOK(apps'[v])
  <2>1. req[r].status \in {"pending", "accepted", "rejected"}
    BY <1>3, <1>b DEF UpdateCommit, At, PayloadOK
  <2> QED
    BY <1>3, <1>a, <2>1, DecidedReason DEF UpdateCommit
<1>4. ASSUME NEW r \in Requests, ConfirmCommit(r) PROVE ReasonOK(apps'[v])
  <2>1. ReasonOK([apps[v] EXCEPT !.worker_confirmed = TRUE])
    BY <1>a DEF ReasonOK, JobApplication
  <2> QED
    BY <1>4, <1>a, <2>1, DeclinedReason DEF ConfirmCommit
<1>5. ASSUME NEW r \in Requests, WithdrawCommit(r) PROVE ReasonOK(apps'[v])
  BY <1>5, <1>a, DeclinedReason DEF WithdrawCommit
<1>6. CASE ExpireAssignments
  BY <1>6, <1>a, DeclinedReason DEF ExpireAssignments
<1>7. CASE TimePasses
  <2>1. ReasonOK([apps[v] EXCEPT !.accepted_at = Aged(@)])
    BY <1>a DEF ReasonOK, JobApplication
  <2> QED
    BY <1>7, <2>1 DEF TimePasses
<1> QED
  <2>1. ASSUME NEW r \in Requests, Arrive(r) PROVE apps' = apps
    BY <2>1 DEF Arrive, ApplyLoad, UpdateLoad, ConfirmLoad, WithdrawLoad, StartLoad,
                CompleteLoad, PatchLoad, DeleteLoad, Load, rows
  <2>2. ASSUME NEW r \in Requests, Advance(r) PROVE ReasonOK(apps'[v])
    BY <2>2, <1>1, <1>2, <1>3, <1>4, <1>5
       DEF Advance, GoOnIf, rows, UpdateLoadApplication, UpdateCheckAccepted,
           ConfirmLoadApplication, ConfirmFlush, WithdrawLoadApplication, StartCheckWorker,
           StartCommit, CompleteCheckWorker, CompleteCommit, Completes, CompleteBill, PatchCommit, PatchedStatus,
           DeleteCommit
  <2>3. CASE TimeoutCheck
    BY <2>3, <1>1, <1>6 DEF TimeoutCheck, ScanAssignments, ScanCompletions,
                            ExpireCompletions, rows
  <2>4. CASE AbortCheck \/ (\E r \in Requests : Abort(r)) \/ UNCHANGED vars
    BY <2>4, <1>1 DEF AbortCheck, Abort, vars, rows
  <2> QED
    BY <1>1, <1>7, <2>1, <2>2, <2>3, <2>4 DEF Next

(* A decline reason is recorded on the rejected applications and on no     *)
(* other, whatever the clients send and however the handlers interleave:   *)
(* no handler writes one of the two columns without the other.             *)
THEOREM ReasonsAgree == Spec => []ReasonIffRejected
<1>1. Init => ReasonIffRejected
  BY DEF Init, ReasonIffRejected, NoApplication
<1> QED
  BY <1>1, TypeCorrect, ReasonStep, PTL DEF Spec

-----------------------------------------------------------------------------
(* The handshake and the completion, when no client writes the status.     *)

(* The inductive invariant: what the rows must satisfy, and the facts that *)
(* the handlers in flight have read and still rely on.                     *)
HandshakeInv ==
    /\ LeavesOpenByHandshake
    /\ CompletionNeedsBothMarks
    /\ CommissionNeedsBothMarks
    /\ StaleFactsHold

(* No step of the program takes back a mark, an acceptance's timestamp or  *)
(* a confirmation.                                                         *)
LEMMA NothingIsTakenBack ==
    ASSUME TypeOK, [Next]_vars
    PROVE  /\ IsSet(job.customer_marked_complete_at) => IsSet(job'.customer_marked_complete_at)
           /\ IsSet(job.worker_marked_complete_at) => IsSet(job'.worker_marked_complete_at)
           /\ \A w \in Workers :
                /\ IsSet(apps[w].accepted_at) => IsSet(apps'[w].accepted_at)
                /\ apps[w].worker_confirmed => apps'[w].worker_confirmed
<1> DEFINE JobKept == /\ IsSet(job.customer_marked_complete_at) => IsSet(job'.customer_marked_complete_at)
                      /\ IsSet(job.worker_marked_complete_at) => IsSet(job'.worker_marked_complete_at)
           AppKept(a, b) == /\ IsSet(a.accepted_at) => IsSet(b.accepted_at)
                            /\ a.worker_confirmed => b.worker_confirmed
           Kept == JobKept /\ \A w \in Workers : AppKept(apps[w], apps'[w])
<1>a. /\ job \in Job /\ apps \in [Workers -> JobApplication]
      /\ \A w \in Workers : apps[w] \in JobApplication
      /\ \A r \in Requests : PayloadOK(req[r])
  BY DEF TypeOK
<1>b. ASSUME NEW w, NEW a \in JobApplication
      PROVE  /\ \A reason \in DeclineReason : AppKept(a, Declined(a, reason))
             /\ AppKept(a, a)
             /\ AppKept(a, [a EXCEPT !.worker_confirmed = TRUE])
             /\ AppKept(a, [a EXCEPT !.accepted_at = Aged(@)])
             /\ \A status \in {"pending", "accepted", "rejected"} : AppKept(a, Decided(a, status))
  <2>1. \A reason \in DeclineReason : AppKept(a, Declined(a, reason))
    BY DEF Declined, JobApplication
  <2>2. AppKept(a, [a EXCEPT !.worker_confirmed = TRUE])
    BY DEF JobApplication
  <2>3. AppKept(a, [a EXCEPT !.accepted_at = Aged(@)])
    BY DEF JobApplication, Aged, IsSet
  <2>4. \A status \in {"pending", "accepted", "rejected"} : AppKept(a, Decided(a, status))
    BY <2>1 DEF Decided, JobApplication, IsSet, Now
  <2> QED
    BY <2>1, <2>2, <2>3, <2>4
<1>c. (job' = job => JobKept) /\ (apps' = apps => \A w \in Workers : AppKept(apps[w], apps'[w]))
  OBVIOUS
<1>d. \A w : job' = Marked(job, w) \/ job' = [Marked(job, w) EXCEPT !.status = "completed"] => JobKept
  BY <1>a DEF Marked, Job, IsSet, Now
<1>1. ASSUME NEW r \in Requests, Arrive(r) PROVE Kept
  BY <1>1, <1>c DEF Arrive, ApplyLoad, UpdateLoad, ConfirmLoad, WithdrawLoad, StartLoad,
                    CompleteLoad, PatchLoad, DeleteLoad, Load, rows
<1>2. ASSUME NEW r \in Requests, Advance(r) PROVE Kept
  <2>1. CASE ApplyCommit(r)
    <3>1. \A w \in Workers : AppKept(apps[w], [apps[w] EXCEPT !.status = "pending"])
      BY <1>a DEF JobApplication
    <3>2. \A w \in Workers : \/ apps'[w] = apps[w]
                             \/ apps'[w] = [apps[w] EXCEPT !.status = "pending"]
      BY <2>1, <1>a DEF ApplyCommit
    <3> QED
      BY <3>1, <3>2, <2>1, <1>c DEF ApplyCommit
  <2>2. CASE UpdateCommit(r)
    <3>1. req[r].status \in {"pending", "accepted", "rejected"} /\ req[r].w \in Workers
      BY <2>2, <1>a DEF UpdateCommit, At, PayloadOK
    <3> QED
      BY <2>2, <3>1, <1>a, <1>b, <1>c DEF UpdateCommit
  <2>3. CASE ConfirmCommit(r)
    <3>1. JobKept
      BY <2>3, <1>a DEF ConfirmCommit, Job
    <3> QED
      BY <2>3, <3>1, <1>a, <1>b DEF ConfirmCommit
  <2>4. CASE WithdrawCommit(r)
    BY <2>4, <1>a, <1>b, <1>c DEF WithdrawCommit
  <2>5. CASE StartCommit(r) \/ PatchCommit(r) \/ DeleteCommit(r)
    BY <2>5, <1>a, <1>c DEF StartCommit, PatchCommit, PatchedStatus, DeleteCommit, Job
  <2>6. CASE CompleteCommit(r)
    BY <2>6, <1>c, <1>d DEF CompleteCommit, Completes
  <2>7. CASE CompleteBill(r)
    BY <2>7, <1>c DEF CompleteBill
  <2>8. CASE UNCHANGED rows
    BY <2>8, <1>c DEF rows
  <2> QED
    BY <1>2, <2>1, <2>2, <2>3, <2>4, <2>5, <2>6, <2>7, <2>8
       DEF Advance, GoOnIf, UpdateLoadApplication, UpdateCheckAccepted,
           ConfirmLoadApplication, ConfirmFlush, WithdrawLoadApplication, StartCheckWorker,
           CompleteCheckWorker
<1>3. CASE TimeoutCheck
  <2>1. CASE ExpireAssignments
    BY <2>1, <1>a, <1>b, <1>c DEF ExpireAssignments
  <2>2. CASE ExpireCompletions
    BY <2>2, <1>c, <1>d DEF ExpireCompletions
  <2> QED
    BY <1>3, <1>c, <2>1, <2>2 DEF TimeoutCheck, ScanAssignments, ScanCompletions, rows
<1>4. CASE TimePasses
  <2>1. JobKept
    BY <1>4, <1>a DEF TimePasses, Job, Aged, IsSet
  <2> QED
    BY <1>4, <2>1, <1>a, <1>b DEF TimePasses
<1>5. CASE AbortCheck \/ (\E r \in Requests : Abort(r)) \/ UNCHANGED vars
  BY <1>5, <1>c DEF AbortCheck, Abort, vars, rows
<1> QED
  BY <1>1, <1>2, <1>3, <1>4, <1>5 DEF Next

LEMMA ConfirmationsLast ==
    ASSUME TypeOK, [Next]_vars, SomeoneConfirmed
    PROVE  SomeoneConfirmed'
BY NothingIsTakenBack DEF SomeoneConfirmed

(* What the handler of request r relies on.                                *)
RequestFacts(r) ==
    /\ At(r, "confirm", "ready") \/ At(r, "confirm", "flushed") =>
          IsSet(apps[req[r].w].accepted_at)
    /\ req[r].op \in {"start", "complete"} => SomeoneConfirmed
    /\ req[r].op = "complete" /\ req[r].saw => IsSet(OtherMark(req[r].w))
    /\ At(r, "complete", "billing") => IsSet(Mark(None)) /\ IsSet(OtherMark(None))

LEMMA IdleFacts == ASSUME NEW r \in Requests, req[r] = Idle PROVE RequestFacts(r)
BY DEF Idle, RequestFacts, At

(* They survive the steps of everybody else.                               *)
LEMMA FactsLast ==
    ASSUME TypeOK, [Next]_vars, NEW r \in Requests, RequestFacts(r), req'[r] = req[r]
    PROVE  RequestFacts(r)'
<1>1. req[r].op = "confirm" => req[r].w \in Workers
  BY DEF TypeOK, PayloadOK
<1> QED
  BY <1>1, NothingIsTakenBack, ConfirmationsLast DEF RequestFacts, At, Mark, OtherMark

(* And the handler's own steps.                                            *)
LEMMA OwnFacts ==
    ASSUME PatchStatuses = {}, TypeOK, HandshakeInv, NEW r \in Requests,
           Arrive(r) \/ Advance(r) \/ Abort(r)
    PROVE  RequestFacts(r)'
<1>a. [Next]_vars
  BY DEF Next
<1>b. /\ RequestFacts(r) /\ req[r] \in Request /\ PayloadOK(req[r]) /\ r \in DOMAIN req
      /\ \A w \in Workers : apps[w].status = "accepted" => IsSet(apps[w].accepted_at)
  BY DEF HandshakeInv, StaleFactsHold, RequestFacts, TypeOK
<1>c. req'[r] = Idle => RequestFacts(r)'
  BY DEF Idle, RequestFacts, At
<1>1. ASSUME NEW op, NEW w, NEW status, NEW saw, Load(r, op, w, status, saw),
             op \in {"start", "complete"} => job.status # "open",
             op = "complete" => saw = IsSet(OtherMark(w))
      PROVE  RequestFacts(r)'
  <2>1. req'[r] = [Idle EXCEPT !.step = "loaded", !.op = op, !.w = w, !.status = status, !.saw = saw]
    BY <1>1, <1>b DEF Load
  <2>2. req'[r].step = "loaded" /\ req'[r].op = op /\ req'[r].w = w /\ req'[r].saw = saw
    BY <2>1 DEF Idle
  <2>3. op \in {"start", "complete"} => SomeoneConfirmed
    BY <1>1 DEF HandshakeInv, LeavesOpenByHandshake
  <2>4. UNCHANGED rows
    BY <1>1 DEF Load
  <2> QED
    BY <1>1, <2>2, <2>3, <2>4 DEF RequestFacts, At, rows, SomeoneConfirmed, OtherMark
<1>2. CASE Arrive(r)
  BY <1>1, <1>2 DEF Arrive, ApplyLoad, UpdateLoad, ConfirmLoad, WithdrawLoad, StartLoad,
                    CompleteLoad, PatchLoad, DeleteLoad
<1>3. CASE Abort(r)
  BY <1>3, <1>b, <1>c DEF Abort, Finish
(* A step that leaves the rows, the kind of request and what it saw.       *)
<1>4. ASSUME UNCHANGED rows, req'[r].op = req[r].op, req'[r].w = req[r].w,
             req'[r].saw = req[r].saw, req'[r].step # "billing",
             req[r].op = "confirm" => req[r].step = "ready" \/ Confirmable(apps[req[r].w])
      PROVE  RequestFacts(r)'
  BY <1>4, <1>b DEF RequestFacts, At, rows, SomeoneConfirmed, OtherMark, Mark, Confirmable, PayloadOK
<1>5. ASSUME NEW guard, NEW step, GoOnIf(guard, r, step), step # "billing",
             guard /\ req[r].op = "confirm" => Confirmable(apps[req[r].w])
      PROVE  RequestFacts(r)'
  <2>1. CASE guard
    <3>1. req'[r] = [req[r] EXCEPT !.step = step]
      BY <1>5, <2>1, <1>b DEF GoOnIf
    <3>2. req'[r].op = req[r].op /\ req'[r].w = req[r].w /\ req'[r].saw = req[r].saw
          /\ req'[r].step = step
      BY <3>1, <1>b DEF Request
    <3> QED
      BY <1>5, <2>1, <3>2, <1>4 DEF GoOnIf
  <2>2. CASE ~guard
    BY <1>5, <2>2, <1>b, <1>c DEF GoOnIf
  <2> QED
    BY <2>1, <2>2
<1>6. CASE Advance(r)
  <2>1. CASE ApplyCommit(r) \/ UpdateCommit(r) \/ ConfirmCommit(r) \/ WithdrawCommit(r)
             \/ StartCommit(r) \/ CompleteBill(r) \/ PatchCommit(r) \/ DeleteCommit(r)
    BY <2>1, <1>b, <1>c DEF Finish, ApplyCommit, UpdateCommit, ConfirmCommit, WithdrawCommit,
                            StartCommit, CompleteBill, PatchCommit, PatchedStatus, DeleteCommit
  <2>2. CASE UpdateLoadApplication(r)
    <3>1. req'[r] = Idle \/ req'[r].op = "update"
      BY <2>2, <1>b DEF UpdateLoadApplication, At, Request
    <3>2. req'[r].op = "update" => RequestFacts(r)'
      BY DEF RequestFacts, At
    <3> QED
      BY <3>1, <3>2, <1>c
  <2>3. CASE UpdateCheckAccepted(r)
    BY <2>3, <1>5 DEF UpdateCheckAccepted, At
  <2>4. CASE ConfirmLoadApplication(r)
    BY <2>4, <1>5 DEF ConfirmLoadApplication, At
  <2>5. CASE ConfirmFlush(r)
    <3>1. /\ req'[r].op = req[r].op /\ req'[r].w = req[r].w /\ req'[r].saw = req[r].saw
          /\ req'[r].step = "flushed"
      BY <2>5, <1>b DEF ConfirmFlush, Request
    <3> QED
      BY <2>5, <3>1, <1>4 DEF ConfirmFlush, At
  <2>6. CASE WithdrawLoadApplication(r)
    BY <2>6, <1>5 DEF WithdrawLoadApplication, At
  <2>7. CASE StartCheckWorker(r)
    BY <2>7, <1>5 DEF StartCheckWorker, At
  <2>8. CASE CompleteCheckWorker(r)
    BY <2>8, <1>5 DEF CompleteCheckWorker, At
  <2>9. CASE CompleteCommit(r)
    <3>1. CASE ~req[r].saw
      BY <2>9, <3>1, <1>b, <1>c DEF CompleteCommit, Completes
    <3>2. CASE req[r].saw
      <4>1. /\ req'[r].op = "complete" /\ req'[r].w = req[r].w /\ req'[r].saw = req[r].saw
        BY <2>9, <3>2, <1>b DEF CompleteCommit, Completes, At, Request
      <4>2. IsSet(OtherMark(req[r].w)) /\ SomeoneConfirmed
        BY <2>9, <3>2, <1>b DEF CompleteCommit, Completes, At, RequestFacts
      <4>3. IsSet(OtherMark(req[r].w))' /\ SomeoneConfirmed'
        BY <4>1, <4>2, <1>a, NothingIsTakenBack, ConfirmationsLast DEF OtherMark
      <4>4. IsSet(Mark(None))' /\ IsSet(OtherMark(None))'
        BY <2>9, <3>2, <4>2 DEF CompleteCommit, Completes, Marked, Mark, OtherMark, TypeOK, Job, IsSet, Now
      <4> QED
        BY <4>1, <4>3, <4>4 DEF RequestFacts, At
    <3> QED
      BY <3>1, <3>2
  <2> QED
    BY <1>6, <2>1, <2>2, <2>3, <2>4, <2>5, <2>6, <2>7, <2>8, <2>9 DEF Advance
<1> QED
  BY <1>2, <1>3, <1>6

LEMMA HandshakeInit == Init => HandshakeInv
<1> SUFFICES ASSUME Init PROVE HandshakeInv
  OBVIOUS
<1>1. LeavesOpenByHandshake /\ CompletionNeedsBothMarks /\ CommissionNeedsBothMarks
  BY DEF Init, LeavesOpenByHandshake, CompletionNeedsBothMarks, CommissionNeedsBothMarks, NewJob
<1>2. \A w \in Workers : apps[w].status = "accepted" => IsSet(apps[w].accepted_at)
  BY DEF Init, NoApplication
<1>3. \A r \in Requests : RequestFacts(r)
  BY IdleFacts DEF Init
<1>4. cron.step = "idle"
  BY DEF Init, NoCheck
<1> QED
  BY <1>1, <1>2, <1>3, <1>4 DEF HandshakeInv, StaleFactsHold, RequestFacts

(* Which steps write what.                                                 *)
LEMMA StatusWriters ==
    ASSUME PatchStatuses = {}, TypeOK, [Next]_vars, job'.status # job.status
    PROVE  \/ \E r \in Requests : ConfirmCommit(r) \/ StartCommit(r) \/ CompleteCommit(r)
           \/ ExpireCompletions
<1>1. ASSUME NEW r \in Requests, Arrive(r) PROVE FALSE
  BY <1>1 DEF Arrive, ApplyLoad, UpdateLoad, ConfirmLoad, WithdrawLoad, StartLoad,
              CompleteLoad, PatchLoad, DeleteLoad, Load, rows
<1>2. ASSUME NEW r \in Requests, PatchCommit(r) \/ DeleteCommit(r) PROVE FALSE
  BY <1>2 DEF PatchCommit, PatchedStatus, DeleteCommit, At, TypeOK, PayloadOK, Job
<1>3. ASSUME NEW r \in Requests, Advance(r)
      PROVE  ConfirmCommit(r) \/ StartCommit(r) \/ CompleteCommit(r)
  BY <1>2, <1>3 DEF Advance, GoOnIf, rows, ApplyCommit, UpdateLoadApplication,
     UpdateCheckAccepted, UpdateCommit, ConfirmLoadApplication, ConfirmFlush,
     WithdrawLoadApplication, WithdrawCommit, StartCheckWorker, CompleteCheckWorker, CompleteBill
<1>4. TimePasses => FALSE
  BY DEF TimePasses, TypeOK, Job
<1> QED
  BY <1>1, <1>3, <1>4 DEF Next, TimeoutCheck, ScanAssignments, ExpireAssignments,
     ScanCompletions, AbortCheck, Abort, vars, rows

LEMMA BillingWriters ==
    ASSUME [Next]_vars, billing' # billing
    PROVE  \E r \in Requests : CompleteBill(r)
<1>1. ASSUME NEW r \in Requests, Arrive(r) PROVE FALSE
  BY <1>1 DEF Arrive, ApplyLoad, UpdateLoad, ConfirmLoad, WithdrawLoad, StartLoad,
              CompleteLoad, PatchLoad, DeleteLoad, Load, rows
<1>2. ASSUME NEW r \in Requests, Advance(r) PROVE CompleteBill(r)
  BY <1>2 DEF Advance, GoOnIf, rows, ApplyCommit, UpdateLoadApplication,
     UpdateCheckAccepted, UpdateCommit, ConfirmLoadApplication, ConfirmFlush, ConfirmCommit,
     WithdrawLoadApplication, WithdrawCommit, StartCheckWorker, StartCommit,
     CompleteCheckWorker, CompleteCommit, Completes, PatchCommit, PatchedStatus, DeleteCommit
<1> QED
  BY <1>1, <1>2 DEF Next, TimeoutCheck, ScanAssignments, ExpireAssignments, ScanCompletions,
     ExpireCompletions, TimePasses, AbortCheck, Abort, vars, rows

LEMMA RequestWriters ==
    ASSUME TypeOK, [Next]_vars, NEW r \in Requests, req'[r] # req[r]
    PROVE  Arrive(r) \/ Advance(r) \/ Abort(r)
<1>1. ASSUME NEW s \in Requests, Arrive(s), s # r PROVE FALSE
  BY <1>1 DEF Arrive, ApplyLoad, UpdateLoad, ConfirmLoad, WithdrawLoad, StartLoad,
              CompleteLoad, PatchLoad, DeleteLoad, Load, TypeOK
<1>2. ASSUME NEW s \in Requests, Advance(s), s # r PROVE FALSE
  BY <1>2 DEF Advance, GoOnIf, Finish, ApplyCommit, UpdateLoadApplication,
     UpdateCheckAccepted, UpdateCommit, ConfirmLoadApplication, ConfirmFlush, ConfirmCommit,
     WithdrawLoadApplication, WithdrawCommit, StartCheckWorker, StartCommit,
     CompleteCheckWorker, CompleteCommit, Completes, CompleteBill, PatchCommit, PatchedStatus, DeleteCommit, TypeOK
<1>3. ASSUME NEW s \in Requests, Abort(s), s # r PROVE FALSE
  BY <1>3 DEF Abort, Finish, TypeOK
<1> QED
  BY <1>1, <1>2, <1>3 DEF Next, TimeoutCheck, ScanAssignments, ExpireAssignments,
     ScanCompletions, ExpireCompletions, TimePasses, AbortCheck, vars

LEMMA CheckWriters ==
    ASSUME [Next]_vars
    PROVE  cron' = cron \/ ScanCompletions \/ cron'.step # "completions"
<1>1. ASSUME NEW r \in Requests, Arrive(r) PROVE cron' = cron
  BY <1>1 DEF Arrive, ApplyLoad, UpdateLoad, ConfirmLoad, WithdrawLoad, StartLoad,
              CompleteLoad, PatchLoad, DeleteLoad, Load
<1>2. ASSUME NEW r \in Requests, Advance(r) PROVE cron' = cron
  BY <1>2 DEF Advance, GoOnIf, ApplyCommit, UpdateLoadApplication,
     UpdateCheckAccepted, UpdateCommit, ConfirmLoadApplication, ConfirmFlush, ConfirmCommit,
     WithdrawLoadApplication, WithdrawCommit, StartCheckWorker, StartCommit,
     CompleteCheckWorker, CompleteCommit, Completes, CompleteBill, PatchCommit, PatchedStatus, DeleteCommit
<1>3. ScanAssignments => cron'.step # "completions"
  <2>1. ScanAssignments => cron' = [NoCheck EXCEPT !.step = "assignments",
                                        !.due = {w \in Workers : OfferExpired(apps[w])}]
    BY DEF ScanAssignments
  <2> QED
    BY <2>1 DEF NoCheck
<1>4. ExpireAssignments => cron'.step # "completions"
  BY DEF ExpireAssignments, NoCheck
<1>5. ExpireCompletions \/ AbortCheck => cron'.step # "completions"
  BY DEF ExpireCompletions, AbortCheck, NoCheck
<1> QED
  BY <1>1, <1>2, <1>3, <1>4, <1>5 DEF Next, TimeoutCheck, TimePasses, Abort, vars

(* accepted_at is set along with status = ACCEPTED.                        *)
LEMMA AcceptanceIsDated ==
    ASSUME TypeOK, [Next]_vars, NEW w \in Workers,
           apps[w].status = "accepted" => IsSet(apps[w].accepted_at)
    PROVE  apps'[w].status = "accepted" => IsSet(apps'[w].accepted_at)
<1> DEFINE Dated(a) == a.status = "accepted" => IsSet(a.accepted_at)
<1>a. /\ apps \in [Workers -> JobApplication] /\ apps[w] \in JobApplication
      /\ Dated(apps[w]) /\ \A r \in Requests : PayloadOK(req[r])
  BY DEF TypeOK
<1>b. \A reason \in DeclineReason : Dated(Declined(apps[w], reason))
  BY <1>a DEF Declined, JobApplication
<1>c. \A status \in {"pending", "accepted", "rejected"} : Dated(Decided(apps[w], status))
  BY <1>a, <1>b DEF Decided, JobApplication, IsSet, Now
<1>d. Dated([apps[w] EXCEPT !.status = "pending"])
  BY <1>a DEF JobApplication
<1>e. Dated([apps[w] EXCEPT !.worker_confirmed = TRUE])
  BY <1>a DEF JobApplication
<1>f. Dated([apps[w] EXCEPT !.accepted_at = Aged(@)])
  BY <1>a DEF JobApplication, Aged, IsSet
<1>1. ASSUME NEW r \in Requests, Arrive(r) PROVE apps' = apps
  BY <1>1 DEF Arrive, ApplyLoad, UpdateLoad, ConfirmLoad, WithdrawLoad, StartLoad,
              CompleteLoad, PatchLoad, DeleteLoad, Load, rows
<1>2. ASSUME NEW r \in Requests, Advance(r) PROVE Dated(apps'[w])
  <2>1. CASE ApplyCommit(r)
    BY <2>1, <1>a, <1>d DEF ApplyCommit
  <2>2. CASE UpdateCommit(r)
    BY <2>2, <1>a, <1>c DEF UpdateCommit, At, PayloadOK
  <2>3. CASE ConfirmCommit(r)
    BY <2>3, <1>a, <1>b, <1>e DEF ConfirmCommit
  <2>4. CASE WithdrawCommit(r)
    BY <2>4, <1>a, <1>b DEF WithdrawCommit
  <2> QED
    BY <1>2, <1>a, <2>1, <2>2, <2>3, <2>4 DEF Advance, GoOnIf, rows, UpdateLoadApplication,
       UpdateCheckAccepted, ConfirmLoadApplication, ConfirmFlush, WithdrawLoadApplication,
       StartCheckWorker, StartCommit, CompleteCheckWorker, CompleteCommit, Completes, CompleteBill,
       PatchCommit, PatchedStatus, DeleteCommit
<1>3. CASE ExpireAssignments
  BY <1>3, <1>a, <1>b DEF ExpireAssignments
<1>4. CASE TimePasses
  BY <1>4, <1>a, <1>f DEF TimePasses
<1> QED
  BY <1>a, <1>1, <1>2, <1>3, <1>4 DEF Next, TimeoutCheck, ScanAssignments, ScanCompletions,
     ExpireCompletions, AbortCheck, Abort, vars, rows

LEMMA HandshakeStep ==
    ASSUME PatchStatuses = {}, TypeOK, HandshakeInv, [Next]_vars
    PROVE  HandshakeInv'
<1> USE DEF HandshakeInv
<1>a. /\ job \in Job /\ apps \in [Workers -> JobApplication] /\ cron \in Check
      /\ req \in [Requests -> Request]
      /\ \A w \in Workers : apps[w] \in JobApplication
      /\ \A r \in Requests : PayloadOK(req[r])
      /\ \A r \in Requests : RequestFacts(r)
      /\ \A w \in Workers : apps[w].status = "accepted" => IsSet(apps[w].accepted_at)
  BY DEF TypeOK, StaleFactsHold, RequestFacts
<1> DEFINE MarksSet == IsSet(Mark(None)) /\ IsSet(OtherMark(None))
<1>b. MarksSet => MarksSet'
  BY NothingIsTakenBack DEF Mark, OtherMark
<1>1. LeavesOpenByHandshake'
  <2>1. CASE job'.status = job.status
    BY <2>1, ConfirmationsLast DEF LeavesOpenByHandshake
  <2>2. ASSUME NEW r \in Requests, ConfirmCommit(r) PROVE SomeoneConfirmed'
    <3> DEFINE w == req[r].w
    <3>1. w \in Workers /\ IsSet(apps[w].accepted_at)
      BY <2>2, <1>a DEF ConfirmCommit, At, PayloadOK, RequestFacts
    <3>2. apps'[w].worker_confirmed /\ apps'[w].accepted_at = apps[w].accepted_at
      BY <2>2, <3>1, <1>a DEF ConfirmCommit, JobApplication
    <3> QED
      BY <3>1, <3>2 DEF SomeoneConfirmed
  <2>3. ASSUME NEW r \in Requests, StartCommit(r) \/ CompleteCommit(r) PROVE SomeoneConfirmed'
    BY <2>3, <1>a, ConfirmationsLast DEF StartCommit, CompleteCommit, Completes, At, RequestFacts
  <2>4. CASE ExpireCompletions
    <3>1. SomeoneConfirmed
      BY <2>4 DEF ExpireCompletions, StaleFactsHold
    <3> QED
      BY <3>1, ConfirmationsLast DEF LeavesOpenByHandshake
  <2> QED
    BY <2>1, <2>2, <2>3, <2>4, StatusWriters DEF LeavesOpenByHandshake
<1>2. CompletionNeedsBothMarks'
  <2>1. CASE job'.status = job.status
    BY <2>1, <1>b DEF CompletionNeedsBothMarks, Mark, OtherMark
  <2>2. ASSUME NEW r \in Requests, ConfirmCommit(r) \/ StartCommit(r)
        PROVE  CompletionNeedsBothMarks'
    BY <2>2, <1>a DEF ConfirmCommit, StartCommit, CompletionNeedsBothMarks, Job
  <2>3. ASSUME NEW r \in Requests, CompleteCommit(r) PROVE CompletionNeedsBothMarks'
    <3>1. req[r].saw => IsSet(OtherMark(req[r].w))
      BY <2>3, <1>a DEF CompleteCommit, Completes, At, RequestFacts
    <3>2. job'.status # job.status => req[r].saw
      BY <2>3, <1>a DEF CompleteCommit, Completes, Marked, Job
    <3>3. req[r].saw => CompletionNeedsBothMarks'
      BY <2>3, <3>1, <1>a DEF CompleteCommit, Completes, Marked, OtherMark, CompletionNeedsBothMarks, Job,
                              IsSet, Now
    <3> QED
      BY <2>1, <3>2, <3>3
  <2>4. CASE ExpireCompletions
    <3>1. cron.silent \in {"customer", "worker"}
          /\ IsSet(IF cron.silent = "customer" THEN Mark("worker") ELSE Mark(None))
      BY <2>4, <1>a DEF ExpireCompletions, StaleFactsHold, Check
    <3> QED
      BY <2>4, <3>1, <1>a DEF ExpireCompletions, Marked, Mark, CompletionNeedsBothMarks, Job,
                              IsSet, Now
  <2> QED
    BY <2>1, <2>2, <2>3, <2>4, StatusWriters
<1>3. CommissionNeedsBothMarks'
  <2>1. CASE billing' = billing
    BY <2>1, <1>b DEF CommissionNeedsBothMarks, Mark, OtherMark
  <2>2. ASSUME NEW r \in Requests, CompleteBill(r) PROVE CommissionNeedsBothMarks'
    BY <2>2, <1>a, <1>b DEF CompleteBill, At, RequestFacts, CommissionNeedsBothMarks, Mark, OtherMark
  <2> QED
    BY <2>1, <2>2, BillingWriters
<1>4. \A w \in Workers : apps'[w].status = "accepted" => IsSet(apps'[w].accepted_at)
  BY <1>a, AcceptanceIsDated
<1>5. \A r \in Requests : RequestFacts(r)'
  <2> SUFFICES ASSUME NEW r \in Requests PROVE RequestFacts(r)'
    OBVIOUS
  <2>1. CASE req'[r] = req[r]
    BY <2>1, <1>a, FactsLast
  <2>2. CASE req'[r] # req[r]
    BY <2>2, RequestWriters, OwnFacts
  <2> QED
    BY <2>1, <2>2
<1>6. cron'.step = "completions" =>
          /\ cron'.silent # None
          /\ SomeoneConfirmed'
          /\ IsSet(IF cron'.silent = "customer" THEN Mark("worker")' ELSE Mark(None)')
  <2>1. CASE cron' = cron
    BY <2>1, <1>b, ConfirmationsLast, NothingIsTakenBack DEF StaleFactsHold, Mark
  <2>2. CASE ScanCompletions
    <3>1. CASE SilentParty = None
      BY <2>2, <3>1 DEF ScanCompletions, NoCheck
    <3>2. CASE SilentParty # None
      <4>1. cron'.silent = SilentParty /\ job.status = "in_progress" /\ UNCHANGED rows
        BY <2>2, <3>2, <1>a DEF ScanCompletions, SilentParty, Check
      <4>2. IsSet(IF SilentParty = "customer" THEN Mark("worker") ELSE Mark(None))
        BY <3>2 DEF SilentParty, Mark, OtherMark, IsSet
      <4> QED
        BY <3>2, <4>1, <4>2 DEF LeavesOpenByHandshake, SomeoneConfirmed, Mark, rows
    <3> QED
      BY <3>1, <3>2
  <2>3. CASE cron'.step # "completions"
    BY <2>3
  <2> QED
    BY <2>1, <2>2, <2>3, CheckWriters
<1> QED
  BY <1>1, <1>2, <1>3, <1>4, <1>5, <1>6
     DEF StaleFactsHold, RequestFacts, Mark

(* The first theorem on the handshake: if clients leave the status alone,  *)
(* then however many requests interleave with each other, with the timeout *)
(* check and with crashes, the inductive invariant holds.                  *)
THEOREM HandshakeInvariant == ASSUME PatchStatuses = {} PROVE Spec => []HandshakeInv
BY HandshakeInit, HandshakeStep, TypeCorrect, PTL DEF Spec

(* A job leaves OPEN only after a worker whom the customer had accepted    *)
(* confirmed (confirm_application is the only door out).                   *)
THEOREM OpenUntilHandshake == ASSUME PatchStatuses = {} PROVE Spec => []LeavesOpenByHandshake
<1>1. HandshakeInv => LeavesOpenByHandshake
  BY DEF HandshakeInv
<1> QED
  BY <1>1, HandshakeInvariant, PTL

(* Neither party completes a job alone: COMPLETED comes with both marks.   *)
THEOREM NoUnilateralCompletion ==
    ASSUME PatchStatuses = {} PROVE Spec => []CompletionNeedsBothMarks
<1>1. HandshakeInv => CompletionNeedsBothMarks
  BY DEF HandshakeInv
<1> QED
  BY <1>1, HandshakeInvariant, PTL

(* No commission is charged on a job that one side has not marked.         *)
THEOREM NoEarlyCommission ==
    ASSUME PatchStatuses = {} PROVE Spec => []CommissionNeedsBothMarks
<1>1. HandshakeInv => CommissionNeedsBothMarks
  BY DEF HandshakeInv
<1> QED
  BY <1>1, HandshakeInvariant, PTL

(* The commission is charged to a worker whom the customer had accepted,   *)
(* of a job that an accepted worker had confirmed.                         *)
ChargesAnAcceptedWorker ==
    billing # None => IsSet(apps[billing].accepted_at) /\ SomeoneConfirmed

(* Nobody is charged out of the blue, however many requests are under way: *)
(* the second transaction of mark_job_complete looks the worker up anew    *)
(* (get_accepted_worker_profile_id), when withdrawals, decisions and the   *)
(* timeout check may have rewritten the applications, and whom it finds    *)
(* had been accepted.  It does not say that the one who is charged is the  *)
(* one who confirmed: of two accepted at once LIMIT 1 may find either.     *)
THEOREM CommissionHasItsWorker ==
    ASSUME PatchStatuses = {} PROVE Spec => []ChargesAnAcceptedWorker
<1>1. Init => ChargesAnAcceptedWorker
  BY DEF Init, ChargesAnAcceptedWorker
<1>2. TypeOK /\ HandshakeInv /\ ChargesAnAcceptedWorker /\ [Next]_vars => ChargesAnAcceptedWorker'
  <2> SUFFICES ASSUME TypeOK, HandshakeInv, ChargesAnAcceptedWorker, [Next]_vars, billing' # None
               PROVE  IsSet(apps'[billing'].accepted_at) /\ SomeoneConfirmed'
    BY DEF ChargesAnAcceptedWorker
  <2>1. CASE billing' = billing
    <3>1. billing \in Workers /\ IsSet(apps[billing].accepted_at) /\ SomeoneConfirmed
      BY <2>1 DEF TypeOK, ChargesAnAcceptedWorker
    <3> QED
      BY <2>1, <3>1, NothingIsTakenBack, ConfirmationsLast
  <2>2. ASSUME NEW r \in Requests, CompleteBill(r), billing' # billing
        PROVE  IsSet(apps'[billing'].accepted_at) /\ SomeoneConfirmed'
    <3>1. billing' \in Accepted
      BY <2>2 DEF CompleteBill, AcceptedWorkers
    <3>2. billing' \in Workers /\ IsSet(apps[billing'].accepted_at)
      BY <3>1 DEF Accepted, HandshakeInv, StaleFactsHold
    <3>3. SomeoneConfirmed
      BY <2>2 DEF CompleteBill, At, HandshakeInv, StaleFactsHold
    <3>4. apps' = apps
      BY <2>2 DEF CompleteBill
    <3> QED
      BY <3>2, <3>3, <3>4 DEF SomeoneConfirmed
  <2> QED
    BY <2>1, <2>2, BillingWriters
<1> QED
  BY <1>1, <1>2, TypeCorrect, HandshakeInvariant, PTL DEF Spec

(* Whatever a handler or the timeout check read before it was overtaken,   *)
(* the part of it that it still relies on is true when it writes.          *)
THEOREM ReadsStayTrue == ASSUME PatchStatuses = {} PROVE Spec => []StaleFactsHold
<1>1. HandshakeInv => StaleFactsHold
  BY DEF HandshakeInv
<1> QED
  BY <1>1, HandshakeInvariant, PTL

(* A job that left OPEN never is OPEN again, stale edits of it included    *)
(* (crud_jobs.py, update_job).                                             *)
THEOREM StaysClosed == ASSUME PatchStatuses = {} PROVE Spec => NeverReopens
<1>1. TypeOK /\ [Next]_vars => [job.status # "open" => job'.status # "open"]_vars
  <2> SUFFICES ASSUME TypeOK, [Next]_vars, job.status # "open", job'.status # job.status
               PROVE  job'.status # "open"
    OBVIOUS
  <2>1. ASSUME NEW r \in Requests, ConfirmCommit(r) PROVE job'.status = "assigned"
    BY <2>1 DEF ConfirmCommit, TypeOK, Job
  <2>2. ASSUME NEW r \in Requests, StartCommit(r) PROVE job'.status = "in_progress"
    BY <2>2 DEF StartCommit, TypeOK, Job
  <2>3. ASSUME NEW r \in Requests, CompleteCommit(r) PROVE job'.status = "completed"
    BY <2>3 DEF CompleteCommit, Marked, TypeOK, Job
  <2>4. ExpireCompletions => job'.status = "completed"
    BY DEF ExpireCompletions, Marked, TypeOK, Job
  <2> QED
    BY <2>1, <2>2, <2>3, <2>4, StatusWriters
<1> QED
  BY <1>1, TypeCorrect, PTL DEF Spec, NeverReopens

-----------------------------------------------------------------------------
(* Requests that run alone.  The inductive invariant.                      *)

(* One request or one timeout check is in flight.                          *)
Alone ==
    /\ \A r, s \in Requests : req[r] # Idle /\ req[s] # Idle => r = s
    /\ cron # NoCheck => \A r \in Requests : req[r] = Idle

RowsAgree == AtMostOneAccepted /\ HandshakeComplete /\ BothMarksComplete

(* The handlers that ask of the job they load that it is OPEN.             *)
OpenOps == {"apply", "update", "confirm", "withdraw", "patch"}

(* What the handler of request r has loaded is what the rows still say.    *)
StillTrue(r) ==
    LET q == req[r]
    IN  /\ q.op \in OpenOps => job.status = "open"
        /\ At(r, "update", "checked") \/ At(r, "update", "ready") =>
              (q.saw <=> apps[q.w].status = "accepted")
        /\ At(r, "update", "ready") /\ q.status = "accepted" => Accepted \subseteq {q.w}
        /\ At(r, "confirm", "ready") \/ At(r, "confirm", "flushed") =>
              apps[q.w].status = "accepted"
        /\ At(r, "confirm", "flushed") => q.others = LosingApplications(q.w)
        /\ q.op = "start" => job.status = "assigned"
        /\ q.op = "complete" /\ q.step # "billing" =>
              /\ job.status = "in_progress" /\ ~IsSet(Mark(q.w))
              /\ q.saw <=> IsSet(OtherMark(q.w))
        /\ q.op = "complete" /\ q.step = "billing" => job.status = "completed"

(* What the timeout check has found is still so.                           *)
CheckStillTrue ==
    /\ cron.step = "assignments" => \A w \in cron.due : OfferExpired(apps[w])
    /\ cron.step = "completions" => cron.silent # None /\ SilentParty = cron.silent

SerialInv == Alone /\ RowsAgree /\ (\A r \in Requests : StillTrue(r)) /\ CheckStillTrue

LEMMA IdleIsTrue == ASSUME NEW r \in Requests, req[r] = Idle PROVE StillTrue(r)
BY DEF Idle, StillTrue, At, OpenOps

LEMMA NoCheckIsTrue == cron = NoCheck => CheckStillTrue
BY DEF NoCheck, CheckStillTrue

LEMMA SerialInit == Init => SerialInv
<1> SUFFICES ASSUME Init PROVE SerialInv
  OBVIOUS
<1>1. Alone
  BY DEF Init, Alone
<1>2. RowsAgree
  BY DEF Init, NewJob, NoApplication, RowsAgree, AtMostOneAccepted, Accepted, HandshakeComplete,
         BothMarksComplete, IsSet
<1>3. \A r \in Requests : StillTrue(r)
  BY IdleIsTrue DEF Init
<1>4. CheckStillTrue
  BY NoCheckIsTrue DEF Init
<1> QED
  BY <1>1, <1>2, <1>3, <1>4 DEF SerialInv

(* A request begins when nothing is in flight, and works alone.            *)
LEMMA OthersIdle ==
    ASSUME Alone, NEW r \in Requests, req[r] # Idle
    PROVE  cron = NoCheck /\ \A s \in Requests \ {r} : req[s] = Idle
BY DEF Alone

LEMMA AtIsBusy == ASSUME NEW r, NEW op \in Ops, NEW step, At(r, op, step) PROVE req[r] # Idle
BY DEF At, Idle

LEMMA ArriveAlone ==
    ASSUME Concurrent = FALSE, TypeOK, NEW r \in Requests, Arrive(r)
    PROVE  /\ AllQuiet /\ UNCHANGED <<rows, cron>>
           /\ \A s \in Requests \ {r} : req'[s] = Idle
<1>1. ASSUME NEW op, NEW w, NEW status, NEW saw, Load(r, op, w, status, saw)
      PROVE  /\ AllQuiet /\ UNCHANGED <<rows, cron>>
             /\ \A s \in Requests \ {r} : req'[s] = Idle
  BY <1>1 DEF Load, MayBegin, AllQuiet
<1> QED
  BY <1>1 DEF Arrive, ApplyLoad, UpdateLoad, ConfirmLoad, WithdrawLoad, StartLoad,
              CompleteLoad, PatchLoad, DeleteLoad

LEMMA AdvanceAlone ==
    ASSUME TypeOK, NEW r \in Requests, Advance(r) \/ Abort(r)
    PROVE  req[r] # Idle /\ cron' = cron /\ \A s \in Requests \ {r} : req'[s] = req[s]
<1>1. ASSUME NEW op \in Ops, NEW step, At(r, op, step) PROVE req[r] # Idle
  BY <1>1, AtIsBusy
<1>2. CASE Abort(r)
  BY <1>2 DEF Abort, Finish, TypeOK
<1>3. CASE Advance(r)
  <2>1. req[r] # Idle
    BY <1>1, <1>3 DEF Advance, ApplyCommit, UpdateLoadApplication, UpdateCheckAccepted,
       UpdateCommit, ConfirmLoadApplication, ConfirmFlush, ConfirmCommit,
       WithdrawLoadApplication, WithdrawCommit, StartCheckWorker, StartCommit,
       CompleteCheckWorker, CompleteCommit, CompleteBill, PatchCommit, DeleteCommit
  <2>2. cron' = cron /\ \A s \in Requests \ {r} : req'[s] = req[s]
    BY <1>3 DEF Advance, GoOnIf, Finish, ApplyCommit, UpdateLoadApplication,
       UpdateCheckAccepted, UpdateCommit, ConfirmLoadApplication, ConfirmFlush, ConfirmCommit,
       WithdrawLoadApplication, WithdrawCommit, StartCheckWorker, StartCommit,
       CompleteCheckWorker, CompleteCommit, CompleteBill, PatchCommit, DeleteCommit, TypeOK
  <2> QED
    BY <2>1, <2>2
<1> QED
  BY <1>2, <1>3

-----------------------------------------------------------------------------
(* How the rows may change and still agree.                                *)

LEMMA SameStatuses ==
    ASSUME RowsAgree, job'.status = job.status,
           IsSet(job'.customer_marked_complete_at) => IsSet(job.customer_marked_complete_at),
           IsSet(job'.worker_marked_complete_at) => IsSet(job.worker_marked_complete_at),
           \A w \in Workers : /\ apps'[w].status = apps[w].status
                              /\ apps'[w].worker_confirmed = apps[w].worker_confirmed
    PROVE  RowsAgree'
<1>1. AtMostOneAccepted'
  BY DEF RowsAgree, AtMostOneAccepted, Accepted
<1>2. HandshakeComplete'
  BY DEF RowsAgree, HandshakeComplete
<1>3. BothMarksComplete'
  BY DEF RowsAgree, BothMarksComplete
<1> QED
  BY <1>1, <1>2, <1>3 DEF RowsAgree

(* While the job is OPEN at most one applicant may be accepted.            *)
LEMMA WhileOpen ==
    ASSUME RowsAgree, job.status = "open", job' = job,
           Accepted' \subseteq Accepted \/ \E w : Accepted' \subseteq {w}
    PROVE  RowsAgree'
<1>1. AtMostOneAccepted'
  BY DEF RowsAgree, AtMostOneAccepted
<1>2. HandshakeComplete' /\ BothMarksComplete'
  BY DEF RowsAgree, HandshakeComplete, BothMarksComplete
<1> QED
  BY <1>1, <1>2 DEF RowsAgree

(* From then on only the job row moves on.                                 *)
LEMMA OnceAssigned ==
    ASSUME RowsAgree, job.status # "open", apps' = apps,
           BothMarksComplete'
    PROVE  RowsAgree'
<1>1. AtMostOneAccepted' /\ HandshakeComplete'
  BY DEF RowsAgree, AtMostOneAccepted, Accepted, HandshakeComplete
<1> QED
  BY <1>1 DEF RowsAgree

(* When r is all there is in flight, r's facts are all there is to show.   *)
LEMMA OnlyRequest ==
    ASSUME NEW r \in Requests, cron' = NoCheck, \A s \in Requests \ {r} : req'[s] = Idle,
           RowsAgree', StillTrue(r)'
    PROVE  SerialInv'
<1>1. Alone'
  BY DEF Alone
<1>2. ASSUME NEW s \in Requests PROVE StillTrue(s)'
  <2>1. req'[s] = Idle => StillTrue(s)'
    BY DEF Idle, StillTrue, At, OpenOps
  <2> QED
    BY <2>1
<1>3. CheckStillTrue'
  BY DEF NoCheck, CheckStillTrue
<1> QED
  BY <1>1, <1>2, <1>3 DEF SerialInv

(* A handler that goes on must find its own facts true.                    *)
LEMMA GoOnAlone ==
    ASSUME SerialInv, TypeOK, NEW r \in Requests, Advance(r) \/ Abort(r), RowsAgree', StillTrue(r)'
    PROVE  SerialInv'
BY AdvanceAlone, OthersIdle, OnlyRequest DEF SerialInv

(* One that finishes has none left.                                        *)
LEMMA FinishAlone ==
    ASSUME SerialInv, TypeOK, NEW r \in Requests, Advance(r) \/ Abort(r), Finish(r), RowsAgree'
    PROVE  SerialInv'
<1>1. req'[r] = Idle
  BY DEF Finish, TypeOK
<1>2. StillTrue(r)'
  BY <1>1 DEF Idle, StillTrue, At, OpenOps
<1> QED
  BY <1>2, GoOnAlone

LEMMA ArriveSerial ==
    ASSUME Concurrent = FALSE, TypeOK, SerialInv, NEW r \in Requests, Arrive(r)
    PROVE  SerialInv'
<1>1. RowsAgree'
  BY ArriveAlone DEF SerialInv, rows, RowsAgree, AtMostOneAccepted, Accepted, HandshakeComplete,
                     BothMarksComplete
<1>2. cron' = NoCheck /\ \A s \in Requests \ {r} : req'[s] = Idle
  BY ArriveAlone DEF AllQuiet
<1>3. ASSUME NEW op \in Ops, NEW w, NEW status, NEW saw, Load(r, op, w, status, saw),
             op \in OpenOps => job.status = "open",
             op = "start" => job.status = "assigned",
             op = "complete" => /\ job.status = "in_progress" /\ ~IsSet(Mark(w))
                                /\ saw = IsSet(OtherMark(w))
      PROVE  StillTrue(r)'
  <2>1. req'[r] = [Idle EXCEPT !.step = "loaded", !.op = op, !.w = w, !.status = status, !.saw = saw]
    BY <1>3 DEF Load, TypeOK
  <2>2. /\ req'[r].step = "loaded" /\ req'[r].op = op /\ req'[r].w = w /\ req'[r].saw = saw
    BY <2>1 DEF Idle
  <2>3. UNCHANGED rows
    BY <1>3 DEF Load
  <2> QED
    BY <1>3, <2>2, <2>3 DEF StillTrue, At, rows, Mark, OtherMark
<1>4. StillTrue(r)'
  BY <1>3 DEF Arrive, ApplyLoad, UpdateLoad, ConfirmLoad, WithdrawLoad, StartLoad,
              CompleteLoad, PatchLoad, DeleteLoad, OpenOps
<1> QED
  BY <1>1, <1>2, <1>4, OnlyRequest

(* The confirmation ends the handshake: one worker is left.                *)
LEMMA ConfirmLeavesOne ==
    ASSUME TypeOK, SerialInv, NEW r \in Requests, ConfirmCommit(r)
    PROVE  /\ job.status = "open"
           /\ \E w \in Workers :
                 /\ Accepted = {w}
                 /\ apps'[w].status = "accepted" /\ apps'[w].worker_confirmed
                 /\ \A o \in Workers \ {w} : apps'[o].status \in {"absent", "rejected"}
<1> DEFINE w == req[r].w
<1>a. /\ apps \in [Workers -> JobApplication] /\ \A v \in Workers : apps[v] \in JobApplication
      /\ PayloadOK(req[r]) /\ RowsAgree /\ StillTrue(r)
  BY DEF TypeOK, SerialInv
<1>1. /\ w \in Workers /\ job.status = "open" /\ apps[w].status = "accepted"
      /\ req[r].others = LosingApplications(w)
  BY <1>a DEF ConfirmCommit, StillTrue, At, OpenOps, PayloadOK
<1>2. apps'[w].status = "accepted" /\ apps'[w].worker_confirmed
  BY <1>1, <1>a DEF ConfirmCommit, JobApplication
<1>3. ASSUME NEW o \in Workers \ {w} PROVE apps'[o].status \in {"absent", "rejected"}
  <2>1. CASE o \in LosingApplications(w)
    BY <1>1, <2>1, <1>a DEF ConfirmCommit, Declined, JobApplication
  <2>2. CASE o \notin LosingApplications(w)
    BY <1>1, <2>2, <1>a DEF ConfirmCommit, LosingApplications
  <2> QED
    BY <2>1, <2>2
<1>4. Accepted = {w}
  BY <1>1, <1>a DEF Accepted, RowsAgree, AtMostOneAccepted
<1> QED
  BY <1>1, <1>2, <1>3, <1>4

LEMMA AdvanceSerial ==
    ASSUME PatchStatuses = {}, TypeOK, SerialInv, NEW r \in Requests, Advance(r)
    PROVE  SerialInv'
<1> DEFINE w == req[r].w
<1>a. /\ job \in Job /\ apps \in [Workers -> JobApplication]
      /\ \A v \in Workers : apps[v] \in JobApplication
      /\ req \in [Requests -> Request] /\ req[r] \in Request /\ PayloadOK(req[r])
      /\ RowsAgree /\ StillTrue(r)
  BY DEF TypeOK, SerialInv
<1>b. UNCHANGED rows => RowsAgree'
  BY <1>a, SameStatuses DEF rows
<1>c. Finish(r) /\ RowsAgree' => SerialInv'
  BY FinishAlone
<1>d. ASSUME NEW guard, NEW step, GoOnIf(guard, r, step),
             guard => \A q : /\ q = [req[r] EXCEPT !.step = step]
                             /\ req'[r] = q /\ UNCHANGED rows
                             => StillTrue(r)'
      PROVE  SerialInv'
  <2>1. UNCHANGED rows
    BY <1>d DEF GoOnIf
  <2>2. CASE guard
    <3>1. req'[r] = [req[r] EXCEPT !.step = step]
      BY <1>d, <2>2, <1>a DEF GoOnIf
    <3> QED
      BY <3>1, <2>1, <2>2, <1>b, <1>d, GoOnAlone
  <2>3. CASE ~guard
    BY <1>d, <2>1, <2>3, <1>b, <1>c DEF GoOnIf, Finish
  <2> QED
    BY <2>2, <2>3
<1>1. CASE ApplyCommit(r)
  <2>1. w \in Workers /\ job.status = "open"
    BY <1>1, <1>a DEF ApplyCommit, At, PayloadOK, StillTrue, OpenOps
  <2>2. \A v \in Workers : apps'[v].status = "accepted" => apps[v].status = "accepted"
    BY <1>1, <1>a, <2>1 DEF ApplyCommit, JobApplication
  <2>3. RowsAgree'
    BY <1>1, <1>a, <2>1, <2>2, WhileOpen DEF ApplyCommit, Accepted
  <2> QED
    BY <1>1, <2>3, <1>c DEF ApplyCommit
<1>2. CASE UpdateLoadApplication(r)
  <2>1. UNCHANGED rows /\ job.status = "open" /\ w \in Workers /\ req[r].op = "update"
    BY <1>2, <1>a DEF UpdateLoadApplication, StillTrue, At, OpenOps, PayloadOK
  <2>2. CASE apps[w].status = "absent"
    BY <1>2, <2>1, <2>2, <1>b, <1>c DEF UpdateLoadApplication, Finish
  <2>3. CASE apps[w].status # "absent"
    <3> DEFINE q == [req[r] EXCEPT !.step = IF req[r].status = "accepted" THEN "checked" ELSE "ready",
                                   !.saw = (apps[w].status = "accepted")]
    <3>1. req'[r] = q
      BY <1>2, <2>3, <1>a DEF UpdateLoadApplication
    <3>2. /\ req'[r].op = "update" /\ req'[r].w = w
          /\ req'[r].step = "ready" => req'[r].status # "accepted"
          /\ req'[r].saw <=> apps[w].status = "accepted"
      BY <2>1, <3>1, <1>a DEF Request
    <3>3. StillTrue(r)'
      BY <2>1, <3>2 DEF StillTrue, At, rows, OpenOps
    <3> QED
      BY <3>3, <2>1, <1>b, GoOnAlone
  <2> QED
    BY <2>2, <2>3
<1>3. CASE UpdateCheckAccepted(r)
  <2>1. job.status = "open" /\ w \in Workers /\ req[r].op = "update"
        /\ (req[r].saw <=> apps[w].status = "accepted")
    BY <1>3, <1>a DEF UpdateCheckAccepted, StillTrue, At, OpenOps, PayloadOK
  <2>2. MayAccept(req[r].saw) => Accepted \subseteq {w}
    BY <2>1, <1>a DEF MayAccept, RowsAgree, AtMostOneAccepted, Accepted
  <2>3. ASSUME NEW q, q = [req[r] EXCEPT !.step = "ready"], req'[r] = q, UNCHANGED rows,
               MayAccept(req[r].saw)
        PROVE  StillTrue(r)'
    <3>1. q.op = "update" /\ q.w = w /\ q.status = req[r].status /\ q.saw = req[r].saw
          /\ q.step = "ready"
      BY <2>1, <2>3, <1>a DEF Request
    <3> QED
      BY <2>1, <2>2, <2>3, <3>1 DEF StillTrue, At, rows, OpenOps, Accepted
  <2> QED
    BY <1>3, <2>3, <1>d DEF UpdateCheckAccepted
<1>4. CASE UpdateCommit(r)
  <2>1. /\ w \in Workers /\ job.status = "open"
        /\ req[r].status = "accepted" => Accepted \subseteq {w}
    BY <1>4, <1>a DEF UpdateCommit, StillTrue, At, OpenOps, PayloadOK
  <2>2. \A v \in Workers \ {w} : apps'[v] = apps[v]
    BY <1>4, <1>a DEF UpdateCommit
  <2>3. req[r].status # "accepted" => apps'[w].status # "accepted"
    BY <1>4, <1>a, <2>1 DEF UpdateCommit, Decided, Declined, At, PayloadOK, JobApplication
  <2>4. Accepted' \subseteq Accepted \/ Accepted' \subseteq {w}
    BY <2>1, <2>2, <2>3 DEF Accepted
  <2>5. RowsAgree'
    BY <1>4, <1>a, <2>1, <2>4, WhileOpen DEF UpdateCommit
  <2> QED
    BY <1>4, <2>5, <1>c DEF UpdateCommit
<1>5. CASE ConfirmLoadApplication(r)
  <2>1. job.status = "open" /\ req[r].op = "confirm"
    BY <1>5, <1>a DEF ConfirmLoadApplication, StillTrue, At, OpenOps
  <2>2. ASSUME NEW q, q = [req[r] EXCEPT !.step = "ready"], req'[r] = q, UNCHANGED rows,
               Confirmable(apps[w])
        PROVE  StillTrue(r)'
    <3>1. q.op = "confirm" /\ q.w = w /\ q.step = "ready"
      BY <2>1, <2>2, <1>a DEF Request
    <3> QED
      BY <2>1, <2>2, <3>1 DEF StillTrue, At, rows, OpenOps, Confirmable
  <2> QED
    BY <1>5, <2>2, <1>d DEF ConfirmLoadApplication
<1>6. CASE ConfirmFlush(r)
  <2>1. job.status = "open" /\ req[r].op = "confirm" /\ apps[w].status = "accepted"
    BY <1>6, <1>a DEF ConfirmFlush, StillTrue, At, OpenOps
  <2>2. req'[r].op = "confirm" /\ req'[r].w = w /\ req'[r].step = "flushed"
        /\ req'[r].others = LosingApplications(w)
    BY <1>6, <2>1, <1>a DEF ConfirmFlush, Request
  <2>3. StillTrue(r)'
    BY <1>6, <2>1, <2>2 DEF ConfirmFlush, StillTrue, At, rows, OpenOps, LosingApplications
  <2> QED
    BY <1>6, <2>3, <1>b, GoOnAlone DEF ConfirmFlush
<1>7. CASE ConfirmCommit(r)
  <2>1. /\ job.status = "open" /\ AtMostOneAccepted' /\ HandshakeComplete'
    BY <1>7, ConfirmLeavesOne DEF AtMostOneAccepted, Accepted, HandshakeComplete
  <2>2. BothMarksComplete'
    BY <1>7, <2>1, <1>a DEF ConfirmCommit, RowsAgree, BothMarksComplete, Job
  <2> QED
    BY <1>7, <2>1, <2>2, <1>c DEF ConfirmCommit, RowsAgree
<1>8. CASE WithdrawLoadApplication(r)
  <2>1. job.status = "open" /\ req[r].op = "withdraw"
    BY <1>8, <1>a DEF WithdrawLoadApplication, StillTrue, At, OpenOps
  <2>2. ASSUME NEW q, q = [req[r] EXCEPT !.step = "ready"], req'[r] = q, UNCHANGED rows
        PROVE  StillTrue(r)'
    <3>1. q.op = "withdraw"
      BY <2>1, <2>2, <1>a DEF Request
    <3> QED
      BY <2>1, <2>2, <3>1 DEF StillTrue, At, rows, OpenOps
  <2> QED
    BY <1>8, <2>2, <1>d DEF WithdrawLoadApplication
<1>9. CASE WithdrawCommit(r)
  <2>1. w \in Workers /\ job.status = "open"
    BY <1>9, <1>a DEF WithdrawCommit, StillTrue, At, OpenOps, PayloadOK
  <2>2. \A v \in Workers : apps'[v].status = "accepted" => apps[v].status = "accepted"
    BY <1>9, <2>1, <1>a DEF WithdrawCommit, Declined, JobApplication
  <2>3. RowsAgree'
    BY <1>9, <1>a, <2>1, <2>2, WhileOpen DEF WithdrawCommit, Accepted
  <2> QED
    BY <1>9, <2>3, <1>c DEF WithdrawCommit
<1>10. CASE StartCheckWorker(r)
  <2>1. job.status = "assigned" /\ req[r].op = "start"
    BY <1>10, <1>a DEF StartCheckWorker, StillTrue, At
  <2>2. ASSUME NEW q, q = [req[r] EXCEPT !.step = "ready"], req'[r] = q, UNCHANGED rows
        PROVE  StillTrue(r)'
    <3>1. q.op = "start"
      BY <2>1, <2>2, <1>a DEF Request
    <3> QED
      BY <2>1, <2>2, <3>1 DEF StillTrue, At, rows, OpenOps
  <2> QED
    BY <1>10, <2>2, <1>d DEF StartCheckWorker
<1>11. CASE StartCommit(r)
  <2>1. job.status = "assigned"
    BY <1>11, <1>a DEF StartCommit, StillTrue, At
  <2>2. BothMarksComplete'
    BY <1>11, <2>1, <1>a DEF StartCommit, RowsAgree, BothMarksComplete, Job
  <2>3. RowsAgree'
    BY <1>11, <2>1, <2>2, <1>a, OnceAssigned DEF StartCommit
  <2> QED
    BY <1>11, <2>3, <1>c DEF StartCommit
<1>12. CASE CompleteCheckWorker(r)
  <2>1. req[r].op = "complete" /\ req[r].step # "billing"
    BY <1>12 DEF CompleteCheckWorker, At
  <2>2. ASSUME NEW q, q = [req[r] EXCEPT !.step = "ready"], req'[r] = q, UNCHANGED rows
        PROVE  StillTrue(r)'
    <3>1. q.op = "complete" /\ q.step = "ready" /\ q.w = w /\ q.saw = req[r].saw
      BY <2>1, <2>2, <1>a DEF Request
    <3> QED
      BY <2>1, <2>2, <3>1, <1>a DEF StillTrue, At, rows, OpenOps, Mark, OtherMark
  <2> QED
    BY <1>12, <2>2, <1>d DEF CompleteCheckWorker
<1>13. CASE CompleteCommit(r)
  <2>1. /\ job.status = "in_progress" /\ ~IsSet(Mark(w)) /\ req[r].op = "complete"
        /\ req[r].saw <=> IsSet(OtherMark(w))
    BY <1>13, <1>a DEF CompleteCommit, StillTrue, At
  <2>2. BothMarksComplete'
    BY <1>13, <2>1, <1>a DEF CompleteCommit, Completes, Marked, Mark, OtherMark,
                             BothMarksComplete, Job, IsSet, Now
  <2>3. RowsAgree'
    BY <1>13, <2>1, <2>2, <1>a, OnceAssigned DEF CompleteCommit
  <2>4. CASE ~req[r].saw
    BY <1>13, <2>3, <2>4, <1>c DEF CompleteCommit, Completes, Finish
  <2>5. CASE req[r].saw
    <3>1. req'[r].op = "complete" /\ req'[r].step = "billing"
      BY <1>13, <2>1, <2>5, <1>a DEF CompleteCommit, Completes, Request
    <3>2. job'.status = "completed"
      BY <1>13, <2>5, <1>a DEF CompleteCommit, Completes, Marked, Job
    <3>3. StillTrue(r)'
      BY <3>1, <3>2 DEF StillTrue, At, OpenOps
    <3> QED
      BY <2>3, <3>3, GoOnAlone
  <2> QED
    BY <2>4, <2>5
<1>14. CASE CompleteBill(r)
  BY <1>14, <1>a, <1>c, SameStatuses DEF CompleteBill
<1>15. CASE PatchCommit(r)
  <2>1. job' = job
    BY <1>15, <1>a DEF PatchCommit, PatchedStatus, At, PayloadOK, Job
  <2> QED
    BY <1>15, <2>1, <1>a, <1>c, SameStatuses DEF PatchCommit
<1>16. CASE DeleteCommit(r)
  <2>1. /\ job'.status = job.status
        /\ job'.customer_marked_complete_at = job.customer_marked_complete_at
        /\ job'.worker_marked_complete_at = job.worker_marked_complete_at
    BY <1>16, <1>a DEF DeleteCommit, Job
  <2> QED
    BY <1>16, <2>1, <1>a, <1>c, SameStatuses DEF DeleteCommit
<1> QED
  BY <1>1, <1>2, <1>3, <1>4, <1>5, <1>6, <1>7, <1>8, <1>9, <1>10, <1>11, <1>12, <1>13,
     <1>14, <1>15, <1>16 DEF Advance

LEMMA CheckAlone ==
    ASSUME \A r \in Requests : req'[r] = Idle,
           RowsAgree', CheckStillTrue'
    PROVE  SerialInv'
<1>1. Alone'
  BY DEF Alone
<1>2. ASSUME NEW r \in Requests PROVE StillTrue(r)'
  <2>1. req'[r] = Idle
    OBVIOUS
  <2> QED
    BY <2>1 DEF Idle, StillTrue, At, OpenOps
<1> QED
  BY <1>1, <1>2 DEF SerialInv

LEMMA TimeoutCheckSerial ==
    ASSUME Concurrent = FALSE, TypeOK, SerialInv, TimeoutCheck
    PROVE  SerialInv'
<1>a. /\ job \in Job /\ apps \in [Workers -> JobApplication] /\ cron \in Check
      /\ \A v \in Workers : apps[v] \in JobApplication
      /\ RowsAgree /\ CheckStillTrue
  BY DEF TypeOK, SerialInv
<1>b. \A r \in Requests : req'[r] = Idle
  <2>1. CASE ScanAssignments
    BY <2>1 DEF ScanAssignments, MayBegin, AllQuiet
  <2>2. CASE cron.step # "idle"
    BY <2>2 DEF TimeoutCheck, ExpireAssignments, ScanCompletions, ExpireCompletions,
                ScanAssignments, NoCheck, SerialInv, Alone
  <2> QED
    BY <2>1, <2>2 DEF TimeoutCheck, ExpireAssignments, ScanCompletions, ExpireCompletions
<1>c. UNCHANGED rows => RowsAgree'
  BY <1>a, SameStatuses DEF rows
<1>d. RowsAgree' /\ CheckStillTrue' => SerialInv'
  BY <1>b, CheckAlone
<1>1. CASE ScanAssignments
  <2>1. cron' = [NoCheck EXCEPT !.step = "assignments",
                                !.due = {w \in Workers : OfferExpired(apps[w])}]
    BY <1>1 DEF ScanAssignments
  <2>2. cron'.step = "assignments" /\ cron'.due = {w \in Workers : OfferExpired(apps[w])}
    BY <2>1 DEF NoCheck
  <2>3. CheckStillTrue'
    BY <1>1, <2>2 DEF ScanAssignments, CheckStillTrue, rows
  <2> QED
    BY <1>1, <2>3, <1>c, <1>d DEF ScanAssignments
<1>2. CASE ExpireAssignments
  <2>1. cron.due \subseteq Workers /\ \A w \in cron.due : OfferExpired(apps[w])
    BY <1>2, <1>a DEF ExpireAssignments, CheckStillTrue, Check
  <2>2. \A v \in Workers : apps'[v].status = "accepted" => apps[v].status = "accepted"
    BY <1>2, <1>a DEF ExpireAssignments, Declined, JobApplication
  <2>c. job' = job
    BY <1>2 DEF ExpireAssignments
  <2>3. ASSUME job.status = "open" PROVE RowsAgree'
    <3>1. Accepted' \subseteq Accepted
      BY <2>2 DEF Accepted
    <3> QED
      BY <2>3, <2>c, <3>1, <1>a, WhileOpen
  <2>4. ASSUME job.status # "open" PROVE RowsAgree'
    <3>1. cron.due = {}
      BY <2>1, <2>4, <1>a DEF OfferExpired, RowsAgree, HandshakeComplete
    <3>2. \A v \in Workers : apps'[v] = apps[v]
      BY <1>2, <3>1 DEF ExpireAssignments
    <3> QED
      BY <2>c, <3>2, <1>a, SameStatuses
  <2>5. CheckStillTrue'
    BY <1>2 DEF ExpireAssignments, NoCheck, CheckStillTrue
  <2> QED
    BY <2>3, <2>4, <2>5, <1>d
<1>3. CASE ScanCompletions
  <2>1. CASE SilentParty = None
    BY <1>3, <2>1, <1>c, <1>d DEF ScanCompletions, NoCheck, CheckStillTrue
  <2>2. CASE SilentParty # None
    <3>1. cron'.step = "completions" /\ cron'.silent = SilentParty
      BY <1>3, <2>2, <1>a DEF ScanCompletions, Check
    <3>2. CheckStillTrue'
      BY <1>3, <2>2, <3>1 DEF ScanCompletions, CheckStillTrue, SilentParty, Mark, OtherMark, rows
    <3> QED
      BY <1>3, <3>2, <1>c, <1>d DEF ScanCompletions
  <2> QED
    BY <2>1, <2>2
<1>4. CASE ExpireCompletions
  <2>1. job.status = "in_progress"
    BY <1>4, <1>a DEF ExpireCompletions, CheckStillTrue, SilentParty
  <2>2. BothMarksComplete'
    BY <1>4, <1>a DEF ExpireCompletions, Marked, BothMarksComplete, Job
  <2>3. RowsAgree'
    BY <1>4, <2>1, <2>2, <1>a, OnceAssigned DEF ExpireCompletions
  <2> QED
    BY <1>4, <2>3, <1>d DEF ExpireCompletions, NoCheck, CheckStillTrue
<1> QED
  BY <1>1, <1>2, <1>3, <1>4 DEF TimeoutCheck

(* Time ages the timestamps under a handler's feet; it relies only on      *)
(* which of them are set.                                                  *)
LEMMA TimePassesSerial == ASSUME TypeOK, SerialInv, TimePasses PROVE SerialInv'
<1>a. /\ job \in Job /\ apps \in [Workers -> JobApplication]
      /\ \A v \in Workers : apps[v] \in JobApplication
      /\ \A r \in Requests : PayloadOK(req[r])
  BY DEF TypeOK
<1>1. /\ job'.status = job.status
      /\ job'.customer_marked_complete_at = Aged(job.customer_marked_complete_at)
      /\ job'.worker_marked_complete_at = Aged(job.worker_marked_complete_at)
  BY <1>a DEF TimePasses, Job
<1>2. \A w \in Workers : /\ apps'[w].status = apps[w].status
                         /\ apps'[w].worker_confirmed = apps[w].worker_confirmed
                         /\ apps[w].accepted_at = "old" => apps'[w].accepted_at = "old"
  BY <1>a DEF TimePasses, JobApplication, Aged, IsSet
<1>3. RowsAgree'
  BY <1>1, <1>2, SameStatuses DEF SerialInv, Aged, IsSet
<1>4. ASSUME NEW r \in Requests PROVE StillTrue(r)'
  <2>1. StillTrue(r) /\ req' = req
    BY DEF SerialInv, TimePasses
  <2>2. Accepted' = Accepted /\ \A w : LosingApplications(w)' = LosingApplications(w)
    BY <1>2 DEF Accepted, LosingApplications
  <2>3. \A w : (IsSet(Mark(w))' <=> IsSet(Mark(w))) /\ (IsSet(OtherMark(w))' <=> IsSet(OtherMark(w)))
    BY <1>1 DEF Mark, OtherMark, Aged, IsSet
  <2>4. req[r].op \in {"update", "confirm"} => apps'[req[r].w].status = apps[req[r].w].status
    BY <1>2, <1>a DEF PayloadOK
  <2> QED
    BY <2>1, <2>2, <2>3, <2>4, <1>1 DEF StillTrue, At
<1>5. CheckStillTrue'
  <2>1. \A w \in Workers : OfferExpired(apps[w]) => OfferExpired(apps'[w])
    BY <1>2 DEF OfferExpired
  <2>2. SilentParty # None => SilentParty' = SilentParty
    BY <1>1 DEF SilentParty, Mark, OtherMark, Aged, IsSet
  <2> QED
    BY <2>1, <2>2 DEF CheckStillTrue, SerialInv, TimePasses, TypeOK, Check
<1> QED
  BY <1>3, <1>4, <1>5 DEF SerialInv, Alone, TimePasses

LEMMA SerialStep ==
    ASSUME Concurrent = FALSE, PatchStatuses = {}, TypeOK, SerialInv, [Next]_vars
    PROVE  SerialInv'
<1>1. ASSUME NEW r \in Requests, Abort(r) PROVE SerialInv'
  BY <1>1, SameStatuses, FinishAlone DEF Abort, rows, SerialInv
<1>2. CASE AbortCheck
  <2>1. \A r \in Requests : req'[r] = Idle
    BY <1>2 DEF AbortCheck, SerialInv, Alone
  <2>2. RowsAgree' /\ CheckStillTrue'
    BY <1>2, SameStatuses DEF AbortCheck, rows, SerialInv, CheckStillTrue, NoCheck
  <2> QED
    BY <2>1, <2>2, CheckAlone
<1>3. CASE UNCHANGED vars
  BY <1>3 DEF vars, SerialInv, Alone, RowsAgree, AtMostOneAccepted, Accepted, HandshakeComplete,
              BothMarksComplete, StillTrue, At, LosingApplications, Mark, OtherMark,
              CheckStillTrue, SilentParty
<1> QED
  BY <1>1, <1>2, <1>3, ArriveSerial, AdvanceSerial, TimeoutCheckSerial, TimePassesSerial DEF Next

(* The inductive invariant holds of every job whose requests and timeout   *)
(* checks are served one at a time, crashes included.                      *)
THEOREM SerialInvariant ==
    ASSUME Concurrent = FALSE, PatchStatuses = {} PROVE Spec => []SerialInv
BY SerialInit, SerialStep, TypeCorrect, PTL DEF Spec

(* The customer never has two accepted applicants                          *)
(* (update_application: "Another application is already accepted").        *)
THEOREM OneAccepted ==
    ASSUME Concurrent = FALSE, PatchStatuses = {} PROVE Spec => []AtMostOneAccepted
<1>1. SerialInv => AtMostOneAccepted
  BY DEF SerialInv, RowsAgree
<1> QED
  BY <1>1, SerialInvariant, PTL

(* From ASSIGNED on the job has its worker, who confirmed, and nobody else *)
(* is in play (confirm_application).                                       *)
THEOREM ConfirmedAlone ==
    ASSUME Concurrent = FALSE, PatchStatuses = {} PROVE Spec => []HandshakeComplete
<1>1. SerialInv => HandshakeComplete
  BY DEF SerialInv, RowsAgree
<1> QED
  BY <1>1, SerialInvariant, PTL

(* The second mark completes the job, whoever sets it (mark_job_complete,  *)
(* expire_unconfirmed_completions).                                        *)
THEOREM SecondMarkCompletes ==
    ASSUME Concurrent = FALSE, PatchStatuses = {} PROVE Spec => []BothMarksComplete
<1>1. SerialInv => BothMarksComplete
  BY DEF SerialInv, RowsAgree
<1> QED
  BY <1>1, SerialInvariant, PTL

-----------------------------------------------------------------------------
(* No-shows.                                                               *)

LEMMA NoShowWriters ==
    ASSUME [Next]_vars, noShow' # noShow
    PROVE  ExpireAssignments \/ ExpireCompletions
<1>1. ASSUME NEW r \in Requests, Arrive(r) PROVE FALSE
  BY <1>1 DEF Arrive, ApplyLoad, UpdateLoad, ConfirmLoad, WithdrawLoad, StartLoad,
              CompleteLoad, PatchLoad, DeleteLoad, Load, rows
<1>2. ASSUME NEW r \in Requests, Advance(r) PROVE FALSE
  BY <1>2 DEF Advance, GoOnIf, rows, ApplyCommit, UpdateLoadApplication,
     UpdateCheckAccepted, UpdateCommit, ConfirmLoadApplication, ConfirmFlush, ConfirmCommit,
     WithdrawLoadApplication, WithdrawCommit, StartCheckWorker, StartCommit,
     CompleteCheckWorker, CompleteCommit, CompleteBill, PatchCommit, DeleteCommit
<1> QED
  BY <1>1, <1>2 DEF Next, TimeoutCheck, ScanAssignments, ScanCompletions, TimePasses,
     AbortCheck, Abort, vars, rows

(* Only those who are counted change.                                      *)
LEMMA CountedOnly ==
    ASSUME TypeOK, NEW who, CountNoShow(who), NEW p \in Participants, noShow'[p] # noShow[p]
    PROVE  p \in who
BY DEF CountNoShow, TypeOK

(* A due offer is one that is still open.                                  *)
LEMMA DueIsOpen ==
    ASSUME SerialInv, NEW w \in Workers, OfferExpired(apps[w])
    PROVE  OfferIsOpen(w)
BY DEF SerialInv, RowsAgree, HandshakeComplete, OfferExpired, OfferIsOpen

(* The timeout check counts a no-show only against a party that is silent  *)
(* when it counts (expire_stale_assignments,                               *)
(* expire_unconfirmed_completions).                                        *)
THEOREM NoShowsAreEarned ==
    ASSUME Concurrent = FALSE, PatchStatuses = {} PROVE Spec => NoShowIsSilent
<1> DEFINE CustomerSilent ==
               job.status = "in_progress" /\ ~IsSet(Mark(None)) /\ OtherMark(None) = "old"
           WorkerSilent(w) ==
               \/ OfferIsOpen(w) /\ apps[w].accepted_at = "old"
               \/ /\ job.status = "in_progress" /\ apps[w].worker_confirmed
                  /\ ~IsSet(OtherMark(None)) /\ Mark(None) = "old"
           Earned == /\ noShow'["customer"] # noShow["customer"] => CustomerSilent
                     /\ \A w \in Workers : noShow'[w] # noShow[w] => WorkerSilent(w)
<1>1. ASSUME TypeOK, SerialInv, [Next]_vars PROVE Earned
  <2>a. cron \in Check /\ CheckStillTrue /\ RowsAgree
    BY <1>1 DEF TypeOK, SerialInv
  <2>b. "customer" \in Participants /\ Workers \subseteq Participants
    BY DEF Participants
  <2>1. CASE noShow' = noShow
    BY <2>1
  <2>2. CASE ExpireAssignments
    <3>1. CountNoShow(cron.due) /\ cron.due \subseteq Workers
      BY <2>2, <2>a DEF ExpireAssignments, Check
    <3>2. \A w \in cron.due : OfferExpired(apps[w])
      BY <2>2, <2>a DEF ExpireAssignments, CheckStillTrue
    <3>3. noShow'["customer"] = noShow["customer"]
      BY <1>1, <2>b, <3>1, CountedOnly
    <3>4. ASSUME NEW w \in Workers, noShow'[w] # noShow[w] PROVE WorkerSilent(w)
      <4>1. w \in cron.due
        BY <1>1, <2>b, <3>1, <3>4, CountedOnly
      <4> QED
        BY <1>1, <3>2, <4>1, DueIsOpen DEF OfferExpired
    <3> QED
      BY <3>3, <3>4
  <2>3. CASE ExpireCompletions
    <3>1. cron.silent \in {"customer", "worker"} /\ SilentParty = cron.silent
      BY <2>3, <2>a DEF ExpireCompletions, CheckStillTrue, Check
    <3>2. CASE cron.silent = "customer"
      <4>1. CountNoShow({"customer"})
        BY <2>3, <3>2 DEF ExpireCompletions
      <4>2. \A w \in Workers : noShow'[w] = noShow[w]
        BY <1>1, <2>b, <4>1, CountedOnly
      <4>3. CustomerSilent
        BY <3>1, <3>2 DEF SilentParty
      <4> QED
        BY <4>2, <4>3
    <3>3. CASE cron.silent = "worker"
      <4>1. PICK accepted \in AcceptedWorkers : CountNoShow({accepted})
        BY <2>3, <3>3 DEF ExpireCompletions
      <4>2. job.status = "in_progress" /\ ~IsSet(OtherMark(None)) /\ Mark(None) = "old"
        BY <3>1, <3>3 DEF SilentParty
      <4>3. accepted \in Workers /\ apps[accepted].worker_confirmed
        BY <4>2, <2>a DEF AcceptedWorkers, Accepted, RowsAgree, AtMostOneAccepted, HandshakeComplete
      <4>4. \A w \in Workers : noShow'[w] # noShow[w] => w = accepted
        BY <1>1, <2>b, <4>1, CountedOnly
      <4>5. noShow'["customer"] = noShow["customer"]
        BY <1>1, <2>b, <4>1, <4>3, CountedOnly
      <4> QED
        BY <4>2, <4>3, <4>4, <4>5
    <3> QED
      BY <3>1, <3>2, <3>3
  <2> QED
    BY <1>1, <2>1, <2>2, <2>3, NoShowWriters
<1>2. TypeOK /\ SerialInv /\ [Next]_vars => [Earned]_vars
  BY <1>1
<1> QED
  BY <1>2, TypeCorrect, SerialInvariant, PTL DEF Spec, NoShowIsSilent

-----------------------------------------------------------------------------
(* The handlers, one at a time, implement the handshake.                   *)

(* The terms that JobLifecycleRefinement substitutes for the variables of  *)
(* JobHandshake.                                                           *)
InPlay == {w \in Workers : apps[w].status \in {"pending", "accepted"}}
ChosenOf(S) == IF S = {} THEN None ELSE CHOOSE w \in Workers : w \in S
MarkedSides ==
    {side \in {"customer", "worker"} :
        IsSet(IF side = "customer" THEN job.customer_marked_complete_at
                                   ELSE job.worker_marked_complete_at)}

LEMMA ChosenIsTheOne ==
    ASSUME NEW w \in Workers, NEW S, S = {w} PROVE ChosenOf(S) = w
BY DEF ChosenOf

LEMMA ChosenIsNone == ASSUME NEW S, S = {} PROVE ChosenOf(S) = None
BY DEF ChosenOf

LEMMA ChosenCases ==
    ASSUME RowsAgree
    PROVE  \/ Accepted = {} /\ ChosenOf(Accepted) = None
           \/ \E w \in Workers : Accepted = {w} /\ ChosenOf(Accepted) = w
<1>1. CASE Accepted = {}
  BY <1>1, ChosenIsNone
<1>2. CASE Accepted # {}
  <2>1. PICK w \in Workers : Accepted = {w}
    BY <1>2 DEF RowsAgree, AtMostOneAccepted, Accepted
  <2> QED
    BY <2>1, ChosenIsTheOne
<1> QED
  BY <1>1, <1>2

(* A step that keeps these terms is a stutter of the handshake.            *)
LEMMA Stutters ==
    ASSUME job'.status = job.status, InPlay' = InPlay, Accepted' = Accepted,
           MarkedSides' = MarkedSides, billing' = billing
    PROVE  UNCHANGED Handshake!vars
BY DEF Handshake!vars, InPlay, MarkedSides

LEMMA StuttersBySame ==
    ASSUME job'.status = job.status,
           IsSet(job'.customer_marked_complete_at) <=> IsSet(job.customer_marked_complete_at),
           IsSet(job'.worker_marked_complete_at) <=> IsSet(job.worker_marked_complete_at),
           \A w \in Workers : apps'[w].status = apps[w].status, billing' = billing
    PROVE  UNCHANGED Handshake!vars
<1>1. InPlay' = InPlay /\ Accepted' = Accepted
  BY DEF InPlay, Accepted
<1>2. MarkedSides' = MarkedSides
  BY DEF MarkedSides
<1> QED
  BY <1>1, <1>2, Stutters

LEMMA StuttersByRows == ASSUME UNCHANGED rows PROVE UNCHANGED Handshake!vars
BY StuttersBySame DEF rows

(* An applicant who comes into play joins the handshake.                   *)
LEMMA Joins ==
    ASSUME job.status = "open", job' = job, billing' = billing, NEW w \in Workers,
           InPlay' = InPlay \cup {w}, Accepted' = Accepted
    PROVE  Handshake!Next
<1>1. Handshake!Join(w)
  BY DEF Handshake!Join, InPlay
<1> QED
  BY <1>1 DEF Handshake!Next

(* The first applicant accepted is the one chosen.                         *)
LEMMA Chooses ==
    ASSUME job.status = "open", job' = job, billing' = billing, NEW w \in Workers,
           Accepted = {}, InPlay' = InPlay \cup {w}, Accepted' = {w}
    PROVE  Handshake!Next
<1>1. ChosenOf(Accepted) = None /\ ChosenOf(Accepted') = w
  BY ChosenIsNone, ChosenIsTheOne
<1>2. Handshake!Choose(w)
  BY <1>1 DEF Handshake!Choose, InPlay, ChosenOf
<1> QED
  BY <1>2 DEF Handshake!Next

(* An applicant who ends up rejected leaves the handshake.                 *)
LEMMA Leaves ==
    ASSUME RowsAgree, job.status = "open", job' = job, billing' = billing, NEW w \in Workers,
           apps'[w].status = "rejected",
           \A v \in Workers \ {w} : apps'[v].status = apps[v].status
    PROVE  Handshake!Next
<1>1. InPlay' = InPlay \ {w} /\ Accepted' = Accepted \ {w}
  BY DEF InPlay, Accepted
<1>2. ChosenOf(Accepted') = IF ChosenOf(Accepted) = w THEN None ELSE ChosenOf(Accepted)
  BY <1>1, ChosenCases, ChosenIsNone, ChosenIsTheOne
<1>3. MarkedSides' = MarkedSides
  BY DEF MarkedSides
<1>4. Handshake!Leave(w)
  BY <1>1, <1>2, <1>3 DEF Handshake!Leave, InPlay, ChosenOf, MarkedSides
<1> QED
  BY <1>4 DEF Handshake!Next

(* A side that marks an unfinished job marks the handshake.                *)
LEMMA Marks ==
    ASSUME TypeOK, RowsAgree, NEW w, job.status = "in_progress", ~IsSet(Mark(w)),
           UNCHANGED <<apps, billing>>,
           job' = IF IsSet(OtherMark(w)) THEN [Marked(job, w) EXCEPT !.status = "completed"]
                                         ELSE Marked(job, w)
    PROVE  Handshake!Next
<1> DEFINE side == IF w = None THEN "customer" ELSE "worker"
<1>1. side \notin MarkedSides /\ MarkedSides' = MarkedSides \cup {side}
  BY DEF MarkedSides, Mark, Marked, TypeOK, Job, IsSet, Now
<1>2. MarkedSides' = {"customer", "worker"} <=> IsSet(OtherMark(w))
  BY <1>1 DEF MarkedSides, OtherMark
<1>3. job'.status = IF IsSet(OtherMark(w)) THEN "completed" ELSE job.status
  BY DEF Marked, TypeOK, Job
<1>4. InPlay' = InPlay /\ Accepted' = Accepted
  BY DEF InPlay, Accepted
<1>5. Handshake!Mark(side)
  BY <1>1, <1>2, <1>3, <1>4 DEF Handshake!Mark, Handshake!Sides, InPlay, MarkedSides
<1> QED
  BY <1>5 DEF Handshake!Next, Handshake!Sides

LEMMA AdvanceImplements ==
    ASSUME PatchStatuses = {}, TypeOK, SerialInv, NEW r \in Requests, Advance(r)
    PROVE  [Handshake!Next]_Handshake!vars
<1> DEFINE w == req[r].w
<1>a. /\ job \in Job /\ apps \in [Workers -> JobApplication]
      /\ \A v \in Workers : apps[v] \in JobApplication
      /\ req[r] \in Request /\ PayloadOK(req[r])
      /\ RowsAgree /\ StillTrue(r) /\ billing \in Workers \cup {None}
  BY DEF TypeOK, SerialInv
<1>1. CASE UNCHANGED rows
  BY <1>1, StuttersByRows
<1>2. CASE ApplyCommit(r)
  <2>1. w \in Workers /\ job.status = "open"
    BY <1>2, <1>a DEF ApplyCommit, At, PayloadOK, StillTrue, OpenOps
  <2>2. CASE apps[w].status # "absent"
    BY <1>2, <2>2, StuttersBySame DEF ApplyCommit
  <2>3. CASE apps[w].status = "absent"
    <3>1. apps'[w].status = "pending" /\ \A v \in Workers \ {w} : apps'[v] = apps[v]
      BY <1>2, <2>1, <2>3, <1>a DEF ApplyCommit, JobApplication
    <3>2. InPlay' = InPlay \cup {w} /\ Accepted' = Accepted
      BY <2>1, <2>3, <3>1 DEF InPlay, Accepted
    <3> QED
      BY <1>2, <2>1, <3>2, Joins DEF ApplyCommit
  <2> QED
    BY <2>2, <2>3
<1>3. CASE UpdateCommit(r)
  <2>1. /\ w \in Workers /\ job.status = "open" /\ UNCHANGED <<job, billing>>
        /\ req[r].status \in {"pending", "accepted", "rejected"}
        /\ req[r].status = "accepted" => Accepted \subseteq {w}
    BY <1>3, <1>a DEF UpdateCommit, StillTrue, At, OpenOps, PayloadOK
  <2>2. apps'[w].status = req[r].status /\ \A v \in Workers \ {w} : apps'[v] = apps[v]
    BY <1>3, <2>1, <1>a DEF UpdateCommit, Decided, Declined, JobApplication
  <2>3. CASE req[r].status = "rejected"
    BY <2>1, <2>2, <2>3, <1>a, Leaves
  <2>4. CASE req[r].status = "pending"
    <3>1. InPlay' = InPlay \cup {w} /\ Accepted' = Accepted \ {w}
      BY <2>1, <2>2, <2>4 DEF InPlay, Accepted
    <3>2. CASE w \notin Accepted
      <4>1. Accepted' = Accepted
        BY <3>1, <3>2
      <4> QED
        BY <2>1, <3>1, <4>1, Joins
    <3>3. CASE w \in Accepted
      <4>1. InPlay' = InPlay /\ Accepted' = {}
        BY <3>1, <3>3, <1>a DEF InPlay, Accepted, RowsAgree, AtMostOneAccepted
      <4>2. Handshake!Reconsider
        BY <2>1, <4>1 DEF Handshake!Reconsider, InPlay
      <4> QED
        BY <4>2 DEF Handshake!Next
    <3> QED
      BY <3>2, <3>3
  <2>5. CASE req[r].status = "accepted"
    <3>1. InPlay' = InPlay \cup {w} /\ Accepted' = {w}
      BY <2>1, <2>2, <2>5 DEF InPlay, Accepted
    <3>2. CASE Accepted = {}
      BY <2>1, <3>1, <3>2, Chooses
    <3>3. CASE Accepted # {}
      <4>1. Accepted = {w}
        BY <2>1, <2>5, <3>3
      <4>2. InPlay' = InPlay /\ Accepted' = Accepted /\ MarkedSides' = MarkedSides
        BY <2>1, <3>1, <4>1 DEF InPlay, Accepted, MarkedSides
      <4> QED
        BY <2>1, <4>2, Stutters
    <3> QED
      BY <3>2, <3>3
  <2> QED
    BY <2>1, <2>3, <2>4, <2>5
<1>4. CASE ConfirmCommit(r)
  <2>1. PICK v \in Workers :
            /\ Accepted = {v} /\ apps'[v].status = "accepted"
            /\ \A o \in Workers \ {v} : apps'[o].status \in {"absent", "rejected"}
    BY <1>4, ConfirmLeavesOne
  <2>2. Accepted' = {v} /\ InPlay' = {v}
    BY <2>1 DEF Accepted, InPlay
  <2>3. ChosenOf(Accepted) = v /\ ChosenOf(Accepted') = v
    BY <2>1, <2>2, ChosenIsTheOne
  <2>4. /\ job.status = "open" /\ job'.status = "assigned"
        /\ MarkedSides' = MarkedSides /\ billing' = billing
    BY <1>4, <1>a, ConfirmLeavesOne DEF ConfirmCommit, Job, MarkedSides
  <2>5. Handshake!Confirm
    BY <2>2, <2>3, <2>4 DEF Handshake!Confirm, InPlay, ChosenOf, MarkedSides
  <2> QED
    BY <2>5 DEF Handshake!Next
<1>5. CASE WithdrawCommit(r)
  <2>1. w \in Workers /\ job.status = "open" /\ UNCHANGED <<job, billing>>
    BY <1>5, <1>a DEF WithdrawCommit, StillTrue, At, OpenOps, PayloadOK
  <2>2. apps'[w].status = "rejected" /\ \A v \in Workers \ {w} : apps'[v] = apps[v]
    BY <1>5, <2>1, <1>a DEF WithdrawCommit, Declined, JobApplication
  <2> QED
    BY <2>1, <2>2, <1>a, Leaves
<1>6. CASE StartCommit(r)
  <2>1. job.status = "assigned" /\ job'.status = "in_progress" /\ UNCHANGED <<apps, billing>>
    BY <1>6, <1>a DEF StartCommit, StillTrue, At, Job
  <2>2. InPlay' = InPlay /\ Accepted' = Accepted /\ MarkedSides' = MarkedSides
    BY <1>6, <1>a DEF StartCommit, InPlay, Accepted, MarkedSides, Job
  <2>3. Handshake!Start
    BY <2>1, <2>2 DEF Handshake!Start, InPlay, MarkedSides
  <2> QED
    BY <2>3 DEF Handshake!Next
<1>7. CASE CompleteCommit(r)
  <2>1. /\ job.status = "in_progress" /\ ~IsSet(Mark(w))
        /\ req[r].saw <=> IsSet(OtherMark(w))
        /\ req[r].saw \in BOOLEAN
    BY <1>7, <1>a DEF CompleteCommit, StillTrue, At, Request
  <2>2. /\ job' = IF IsSet(OtherMark(w)) THEN [Marked(job, w) EXCEPT !.status = "completed"]
                                         ELSE Marked(job, w)
        /\ UNCHANGED <<apps, billing>>
    BY <1>7, <2>1 DEF CompleteCommit, Completes
  <2> QED
    BY <2>1, <2>2, <1>a, Marks
<1>8. CASE CompleteBill(r)
  <2>1. job.status = "completed" /\ UNCHANGED <<job, apps>>
    BY <1>8, <1>a DEF CompleteBill, StillTrue, At
  <2>2. InPlay' = InPlay /\ Accepted' = Accepted /\ MarkedSides' = MarkedSides
    BY <2>1 DEF InPlay, Accepted, MarkedSides
  <2>3. CASE billing # None
    <3>1. billing' = billing
      BY <1>8, <2>3 DEF CompleteBill
    <3> QED
      BY <2>1, <2>2, <3>1, Stutters
  <2>4. CASE billing = None
    <3>1. billing' \in AcceptedWorkers
      BY <1>8, <2>4 DEF CompleteBill
    <3>2. billing' = ChosenOf(Accepted)
      BY <2>1, <3>1, <1>a, ChosenCases DEF AcceptedWorkers
    <3>3. Handshake!Charge
      BY <2>1, <2>2, <2>4, <3>2 DEF Handshake!Charge, InPlay, ChosenOf, MarkedSides
    <3> QED
      BY <3>3 DEF Handshake!Next
  <2> QED
    BY <2>3, <2>4
<1>9. CASE PatchCommit(r) \/ DeleteCommit(r)
  <2>1. /\ job'.status = job.status
        /\ job'.customer_marked_complete_at = job.customer_marked_complete_at
        /\ job'.worker_marked_complete_at = job.worker_marked_complete_at
    BY <1>9, <1>a DEF PatchCommit, PatchedStatus, At, PayloadOK, DeleteCommit, Job
  <2> QED
    BY <1>9, <2>1, StuttersBySame DEF PatchCommit, DeleteCommit
<1> QED
  BY <1>1, <1>2, <1>3, <1>4, <1>5, <1>6, <1>7, <1>8, <1>9
     DEF Advance, GoOnIf, UpdateLoadApplication, UpdateCheckAccepted, ConfirmLoadApplication,
         ConfirmFlush, WithdrawLoadApplication, StartCheckWorker, CompleteCheckWorker

LEMMA TimeoutCheckImplements ==
    ASSUME TypeOK, SerialInv, TimeoutCheck
    PROVE  [Handshake!Next]_Handshake!vars
<1>a. /\ job \in Job /\ apps \in [Workers -> JobApplication] /\ cron \in Check
      /\ \A v \in Workers : apps[v] \in JobApplication
      /\ RowsAgree /\ CheckStillTrue
  BY DEF TypeOK, SerialInv
<1>1. CASE ScanAssignments \/ ScanCompletions
  BY <1>1, StuttersByRows DEF ScanAssignments, ScanCompletions
<1>2. CASE ExpireAssignments
  <2>1. /\ cron.due \subseteq Workers /\ UNCHANGED <<job, billing>>
        /\ \A w \in cron.due : OfferExpired(apps[w])
        /\ \A w \in Workers : apps'[w] = IF w \in cron.due THEN Declined(apps[w], "unresponsive")
                                                           ELSE apps[w]
    BY <1>2, <1>a DEF ExpireAssignments, CheckStillTrue, Check
  <2>2. CASE cron.due = {}
    BY <2>1, <2>2, StuttersBySame
  <2>3. CASE cron.due # {}
    <3>1. PICK w \in Workers : w \in cron.due
      BY <2>1, <2>3
    <3>2. job.status = "open"
      BY <2>1, <3>1, DueIsOpen DEF OfferIsOpen
    <3>3. apps'[w].status = "rejected"
      BY <2>1, <3>1, <1>a DEF Declined, JobApplication
    <3>4. \A v \in Workers \ {w} : apps'[v].status = apps[v].status
      BY <2>1, <3>1, <1>a DEF OfferExpired, RowsAgree, AtMostOneAccepted, Accepted
    <3> QED
      BY <2>1, <3>2, <3>3, <3>4, <1>a, Leaves
  <2> QED
    BY <2>2, <2>3
<1>3. CASE ExpireCompletions
  <2> DEFINE side == IF cron.silent = "customer" THEN None ELSE "worker"
  <2>1. cron.silent \in {"customer", "worker"} /\ SilentParty = cron.silent
    BY <1>3, <1>a DEF ExpireCompletions, CheckStillTrue, Check
  <2>2. job.status = "in_progress" /\ ~IsSet(Mark(side)) /\ IsSet(OtherMark(side))
    BY <2>1 DEF SilentParty, Mark, OtherMark, IsSet
  <2>3. job' = [Marked(job, side) EXCEPT !.status = "completed"] /\ UNCHANGED <<apps, billing>>
    BY <1>3 DEF ExpireCompletions
  <2> QED
    BY <2>2, <2>3, <1>a, Marks
<1> QED
  BY <1>1, <1>2, <1>3 DEF TimeoutCheck

LEMMA ImplementsInit == Init => Handshake!Init
<1> SUFFICES ASSUME Init PROVE Handshake!Init
  OBVIOUS
<1>1. job.status = "open" /\ billing = None
  BY DEF Init, NewJob
<1>2. InPlay = {} /\ Accepted = {} /\ MarkedSides = {}
  BY DEF Init, NewJob, NoApplication, InPlay, Accepted, MarkedSides, IsSet
<1> QED
  BY <1>1, <1>2 DEF Handshake!Init, InPlay, MarkedSides

LEMMA ImplementsStep ==
    ASSUME Concurrent = FALSE, PatchStatuses = {}, TypeOK, SerialInv, [Next]_vars
    PROVE  [Handshake!Next]_Handshake!vars
<1>1. ASSUME NEW r \in Requests, Arrive(r) \/ Abort(r) PROVE UNCHANGED rows
  BY <1>1, ArriveAlone DEF Abort
<1>2. CASE TimePasses
  <2>1. /\ job'.status = job.status
        /\ job'.customer_marked_complete_at = Aged(job.customer_marked_complete_at)
        /\ job'.worker_marked_complete_at = Aged(job.worker_marked_complete_at)
    BY <1>2 DEF TimePasses, TypeOK, Job
  <2>2. \A w \in Workers : apps'[w].status = apps[w].status
    BY <1>2 DEF TimePasses, TypeOK, JobApplication
  <2> QED
    BY <1>2, <2>1, <2>2, StuttersBySame DEF TimePasses, Aged, IsSet
<1> QED
  BY <1>1, <1>2, AdvanceImplements, TimeoutCheckImplements, StuttersByRows
     DEF Next, AbortCheck, vars, rows

(* The handlers and the timeout check, served one at a time and dying      *)
(* wherever they may, implement the handshake that the service promises:   *)
(* every commit is one step of it or none (job_lifecycle_service.py and    *)
(* job_timeout_service.py as a whole).                                     *)
THEOREM HandlersImplementHandshake ==
    ASSUME Concurrent = FALSE, PatchStatuses = {} PROVE Spec => ImplementsHandshake
<1>1. Init => Handshake!Init
  BY ImplementsInit
<1>2. TypeOK /\ SerialInv /\ [Next]_vars => [Handshake!Next]_Handshake!vars
  BY ImplementsStep
<1> QED
  BY <1>1, <1>2, TypeCorrect, SerialInvariant, PTL DEF Spec, ImplementsHandshake, Handshake!Spec

=============================================================================
