------------------------------ MODULE JobPages ------------------------------
(***************************************************************************)
(* The job pages of the web client (src/frontend/src/features/job): what   *)
(* the customer and the workers see of one job, which buttons that offers  *)
(* them, and what a click does to the server and to the query cache.       *)
(*                                                                         *)
(* Nothing pushes a change to these pages: a browser learns of the others' *)
(* moves when it fetches again, at a mount, a reconnection, or because a   *)
(* mutation of its own invalidated the query.  Handlers of the server run  *)
(* one at a time; JobLifecycle interleaves them and models the timeouts.   *)
(* A fetch is one step, the list of applications excepted: the only query  *)
(* whose cache a mutation writes without cancelling the fetches in flight. *)
(***************************************************************************)
EXTENDS FiniteSets, Naturals

CONSTANTS Workers,      \* those who may apply
          Browsers,     \* the sets of users who are at a browser together;
                        \* in each behaviour the others call the API
          MaxClicks,    \* bound: what users at a browser do
          None          \* undefined: not loaded, not open, not in flight

Customer == "customer"
Users == Workers \cup {Customer}

ASSUME JobPagesAssumption ==
    /\ Browsers \subseteq SUBSET Users
    /\ Customer \notin Workers
    /\ MaxClicks \in Nat

VARIABLES
    \* the server
    job,         \* [status, marks, deleted]
    apps,        \* the application of each worker
    \* query caches; None: no data
    jobOf,       \* ['job', id] in each browser
    mine,        \* ['my-job-application', id] in each worker's
    myJobs,      \* ['jobs', {user_id}] in the customer's: the status it shows
    list,        \* ['job-applications', id] in the customer's
    listFetch,   \* the GET of that list, with its answer
    due,         \* invalidated queries
    \* pages
    page,        \* where each browser is
    act,         \* mutations of the detail and edit pages: [user, op, phase]
    applied,     \* hasApplied of ApplyToJobDialog, by worker
    draft,       \* the edit form is dirty
    dialog,      \* appPendingAction of JobApplicationsPanel
    decisions,   \* the PATCH requests; heard: by the panel now mounted
    clicks,
    \* history, read by properties only
    told,        \* decided applications of which the browser had the answer
    crossed,     \* two writes of the list overlapped: a GET or a second PATCH
    turnedAway   \* workers whose page heard that the job is not open

rows == <<job, apps>>
lists == <<list, listFetch, told, crossed>>
panel == <<dialog, decisions>>
forms == <<applied, turnedAway, draft>>
vars == <<rows, jobOf, mine, myJobs, lists, due, page, act, forms, panel, clicks>>

JobStatus == {"open", "assigned", "in_progress", "completed"}
Sides == {"customer", "worker"}
Side(u) == IF u = Customer THEN "customer" ELSE "worker"
Jobs == [status : JobStatus, marks : SUBSET Sides, deleted : BOOLEAN]

\* "none": no row.  "confirmed": accepted, with worker_confirmed_at.
ApplicationStatus == {"none", "pending", "accepted", "confirmed", "rejected"}
Taken == {"accepted", "confirmed"}
Lists == [Workers -> ApplicationStatus]
\* What is undefined is no status, nor a list of them.
ASSUME UndefinedAssumption == None \notin Workers \cup ApplicationStatus \cup Lists

\* Query keys; ["jobs"] is a prefix of the customer's list of jobs.
Queries == ({"job"} \X Users) \cup ({"mine"} \X Workers)
             \cup {<<"jobs", Customer>>, <<"list", Customer>>}
Own(u) == IF u = Customer THEN {} ELSE {<<"mine", u>>}
Everything(u) == {<<"job", u>>} \cup (IF u = Customer THEN {<<"jobs", u>>} ELSE {})

\* The queries some mounted component observes.
Observed(u, p) ==
    CASE p = "detail" -> {<<"job", u>>} \cup Own(u)
      [] p = "edit" -> {<<"job", u>>}
      [] p = "jobs" -> {<<"jobs", u>>, <<"list", u>>}
      [] OTHER -> {}
Active == UNION {Observed(u, page[u]) : u \in Users}

NoFetch == [phase |-> "idle", data |-> None, clean |-> TRUE]
Ops == {"apply", "confirm", "withdraw", "start", "complete", "edit", "delete"}

Browsing == {u \in Users : page[u] # "elsewhere"}
Click == clicks < MaxClicks /\ clicks' = clicks + 1
Pending(u, op) == \E a \in act : a.user = u /\ a.op = op
NewJob == [status |-> "open", marks |-> {}, deleted |-> FALSE]

\* The customer has published the job: useCreateJob seeded its query and opened
\* its page; or has come back to the list of jobs.
Init == \E browsing \in Browsers, p \in {"detail", "jobs"} :
    /\ job = NewJob /\ apps = [w \in Workers |-> "none"]
    /\ page = [u \in Users |-> IF u \notin browsing THEN "elsewhere"
                              ELSE IF u = Customer THEN p ELSE "detail"]
    /\ jobOf = [u \in Users |-> IF u = Customer THEN NewJob ELSE None]
    /\ mine = [w \in Workers |-> None]
    /\ myJobs = None /\ list = None /\ listFetch = NoFetch
    /\ due = {q \in Active : q # <<"job", Customer>>}
    /\ act = {} /\ applied = [w \in Workers |-> FALSE] /\ turnedAway = {} /\ draft = FALSE
    /\ dialog = None /\ decisions = {}
    /\ clicks = 0 /\ told = {} /\ crossed = FALSE
-----------------------------------------------------------------------------
(* The server: the guard of each handler, then what it commits.            *)

MayApply(w) == job.status = "open" /\ apps[w] = "none"
MayConfirm(w) == job.status = "open" /\ apps[w] = "accepted"
\* mutant: an application may be withdrawn at any time
MayWithdrawLate(w) == apps[w] \in {"pending"} \cup Taken
MayWithdraw(w) == job.status = "open" /\ apps[w] \in {"pending", "accepted"}
MayStart(w) == job.status = "assigned" /\ apps[w] \in Taken
MayComplete(u) ==
    /\ job.status = "in_progress" /\ Side(u) \notin job.marks
    /\ u # Customer => apps[u] \in Taken
MayEdit == job.status = "open" /\ ~job.deleted

Accepts(u, op) ==
    CASE op = "apply" -> MayApply(u)
      [] op = "confirm" -> MayConfirm(u)
      [] op = "withdraw" -> MayWithdraw(u)
      [] op = "start" -> MayStart(u)
      [] op = "complete" -> MayComplete(u)
      [] op = "edit" -> MayEdit
      [] op = "delete" -> ~job.deleted

CommitConfirm(w) ==
    /\ job' = [job EXCEPT !.status = "assigned"]
    /\ apps' = [v \in Workers |-> IF v = w THEN "confirmed"
                                  ELSE IF apps[v] = "none" THEN "none" ELSE "rejected"]
CommitStart == job' = [job EXCEPT !.status = "in_progress"] /\ UNCHANGED apps
CommitComplete(u) ==
    /\ LET marks == job.marks \cup {Side(u)}
       IN  job' = [job EXCEPT !.marks = marks,
                              !.status = IF marks = Sides THEN "completed" ELSE @]
    /\ UNCHANGED apps

Commit(u, op) ==
    CASE op = "apply" -> apps' = [apps EXCEPT ![u] = "pending"] /\ UNCHANGED job
      [] op = "confirm" -> CommitConfirm(u)
      [] op = "withdraw" -> apps' = [apps EXCEPT ![u] = "rejected"] /\ UNCHANGED job
      [] op = "start" -> CommitStart
      [] op = "complete" -> CommitComplete(u)
      [] op = "edit" -> UNCHANGED rows
      [] op = "delete" -> job' = [job EXCEPT !.deleted = TRUE] /\ UNCHANGED apps

\* The customer's decision: one acceptance at a time, on an open job.
AcceptsDecision(w, status) ==
    /\ job.status = "open" /\ apps[w] # "none"
    /\ status = "accepted" => \A v \in Workers \ {w} : apps[v] # "accepted"

CommitDecision(w, status) == apps' = [apps EXCEPT ![w] = status] /\ UNCHANGED job

\* A client that is no browser of this model calls the API.
Elsewhere ==
    /\ \/ \E u \in Users \ Browsing, op \in Ops \ {"edit", "delete"} :
            /\ u = Customer => op = "complete"
            /\ Accepts(u, op) /\ Commit(u, op)
       \/ /\ Customer \notin Browsing
          /\ \E w \in Workers, s \in {"accepted", "rejected"} :
               apps[w] # s /\ AcceptsDecision(w, s) /\ CommitDecision(w, s)
    /\ UNCHANGED <<jobOf, mine, myJobs, lists, due, page, act, forms, panel, clicks>>

\* A mutation of a page is answered: done, refused, done but unheard of.  Only
\* an application looks at why: "already applied" (refused), "not open" (closed).
Answer(a) ==
    /\ a \in act /\ a.phase = "sent"
    /\ \E phase \in {"ok", "failed", "refused", "closed"} :
         /\ act' = (act \ {a}) \cup {[a EXCEPT !.phase = phase]}
         /\ \/ phase \in {"ok", "failed"} /\ Accepts(a.user, a.op) /\ Commit(a.user, a.op)
            \/ phase = "failed" /\ UNCHANGED rows
            \/ /\ a.op = "apply" /\ ~Accepts(a.user, a.op) /\ UNCHANGED rows
               /\ phase = IF job.status = "open" THEN "refused" ELSE "closed"
    /\ UNCHANGED <<jobOf, mine, myJobs, lists, due, page, forms, panel, clicks>>

AnswerDecision(d) ==
    /\ d.phase = "sent"
    /\ \E phase \in {"ok", "failed"} :
         /\ decisions' = (decisions \ {d}) \cup {[d EXCEPT !.phase = phase]}
         /\ \/ AcceptsDecision(d.w, d.status) /\ CommitDecision(d.w, d.status)
            \/ phase = "failed" /\ UNCHANGED rows
    /\ UNCHANGED <<jobOf, mine, myJobs, lists, due, page, act, forms, dialog, clicks>>
-----------------------------------------------------------------------------
(* The query cache.                                                        *)

\* A new job object resets the form, whatever was typed.
DraftAfter(j) == draft /\ jobOf[Customer] = j

\* An invalidated query that a mounted component observes is fetched.  A job
\* deleted meanwhile answers 404.
Refetch(q) ==
    /\ q \in due \cap Active /\ q # <<"list", Customer>>
    /\ due' = due \ {q}
    /\ \/ /\ q[1] = "job" /\ jobOf' = [jobOf EXCEPT ![q[2]] = job]
          /\ draft' = IF q[2] = Customer THEN DraftAfter(job) ELSE draft
          /\ UNCHANGED <<mine, myJobs>>
       \/ /\ q[1] = "mine" /\ mine' = [mine EXCEPT ![q[2]] = apps[q[2]]]
          /\ UNCHANGED <<jobOf, myJobs, draft>>
       \/ /\ q[1] = "jobs" /\ myJobs' = (IF job.deleted THEN "gone" ELSE job.status)
          /\ UNCHANGED <<jobOf, mine, draft>>
    /\ UNCHANGED <<rows, lists, page, act, applied, turnedAway, panel, clicks>>

Loaded(q) ==
    CASE q[1] = "job" -> jobOf[q[2]] # None
      [] q[1] = "mine" -> mine[q[2]] # None
      [] q[1] = "jobs" -> myJobs # None
      [] OTHER -> list # None

\* The list of applications, mounted with its job's card: sent, answered,
\* received.
FetchList ==
    /\ <<"list", Customer>> \in due \cap Active /\ listFetch = NoFetch
    /\ myJobs \notin {None, "gone"}
    /\ due' = due \ {<<"list", Customer>>}
    /\ listFetch' = [phase |-> "sent", data |-> None, clean |-> decisions = {}]
    /\ UNCHANGED <<rows, jobOf, mine, myJobs, list, told, crossed, page, act, forms, panel, clicks>>

AnswerList ==
    /\ listFetch.phase = "sent"
    /\ listFetch' = [listFetch EXCEPT !.phase = "answered", !.data = apps]
    /\ UNCHANGED <<rows, jobOf, mine, myJobs, list, told, crossed, due, page, act, forms,
                   panel, clicks>>

\* The answer replaces the cached list, whatever was written there meanwhile.
ReceiveList ==
    /\ listFetch.phase = "answered"
    /\ list' = listFetch.data /\ listFetch' = NoFetch
    /\ crossed' = ~listFetch.clean
    /\ UNCHANGED <<rows, jobOf, mine, myJobs, told, due, page, act, forms, panel, clicks>>
-----------------------------------------------------------------------------
(* What the pages offer.                                                   *)

\* The detail page shows the job it has, until a fetch finds it gone.
Shown(u) == page[u] = "detail" /\ jobOf[u] # None /\ ~jobOf[u].deleted

\* The dialog itself stops offering once it has heard of an application.
ApplyDialogOffers(w) == ~applied[w]
CanApply(w) ==
    /\ Shown(w) /\ mine[w] \in {None, "none"}
    /\ jobOf[w].status = "open" /\ ApplyDialogOffers(w)

CanConfirm(w) == Shown(w) /\ jobOf[w].status = "open" /\ mine[w] = "accepted"
CanWithdraw(w) == Shown(w) /\ jobOf[w].status = "open" /\ mine[w] \in {"pending", "accepted"}

\* mutant: an accepted worker starts without confirming
CanStartOpen(w) == Shown(w) /\ jobOf[w].status \in {"open", "assigned"} /\ mine[w] \in Taken
CanStart(w) == Shown(w) /\ jobOf[w].status = "assigned" /\ mine[w] \in Taken

CanComplete(u) ==
    /\ Shown(u) /\ jobOf[u].status = "in_progress"
    /\ u # Customer => mine[u] \in Taken
    /\ Side(u) \notin jobOf[u].marks

CanSubmitEdit == page[Customer] = "edit" /\ draft
CanDelete == page[Customer] = "jobs" /\ myJobs \notin {None, "gone"}

Offered(u, op) ==
    /\ ~Pending(u, op)
    /\ IF u = Customer
       THEN CASE op = "complete" -> CanComplete(u)
              [] op = "edit" -> CanSubmitEdit
              [] op = "delete" -> CanDelete
              [] OTHER -> FALSE
       ELSE CASE op = "apply" -> CanApply(u)
              [] op = "confirm" -> CanConfirm(u)
              [] op = "withdraw" -> CanWithdraw(u)
              [] op = "start" -> CanStart(u)
              [] op = "complete" -> CanComplete(u)
              [] OTHER -> FALSE

IsUpdating == \E d \in decisions : d.heard

\* The panel's buttons on a card, disabled while this panel updates.
CanAct(w) ==
    /\ page[Customer] = "jobs" /\ myJobs = "open"
    /\ list # None /\ list[w] = "pending" /\ ~IsUpdating
-----------------------------------------------------------------------------
(* Clicks.                                                                 *)

\* The network comes back: every observed query that is stale is fetched.
Reconnect ==
    /\ Click
    /\ due' = due \cup Active
    /\ UNCHANGED <<rows, jobOf, mine, myJobs, lists, page, act, forms, panel>>

\* A page opens; its queries are fetched if they have no data or old data, and
\* what its components kept for themselves starts anew.
Open(u, p) ==
    /\ Click
    /\ page[u] # p
    /\ p = "edit" => page[u] = "jobs" /\ myJobs = "open"
    /\ page' = [page EXCEPT ![u] = p]
    /\ applied' = [w \in Workers |-> applied[w] /\ w # u] /\ turnedAway' = turnedAway \ {u}
    /\ IF u = Customer THEN draft' = FALSE /\ dialog' = None
                            /\ decisions' = {[d EXCEPT !.heard = FALSE] : d \in decisions}
                       ELSE UNCHANGED <<draft, panel>>
    /\ \E old \in BOOLEAN : due' = due \cup {q \in Observed(u, p) : old \/ ~Loaded(q)}
    /\ UNCHANGED <<rows, jobOf, mine, myJobs, lists, act>>

Submit(u, op) ==
    /\ Click
    /\ Offered(u, op)
    /\ act' = act \cup {[user |-> u, op |-> op, phase |-> "sent"]}
    /\ UNCHANGED <<rows, jobOf, mine, myJobs, lists, due, page, forms, panel>>

\* A field of the edit form, which shows the cached job.
Type ==
    /\ Click
    /\ page[Customer] = "edit" /\ jobOf[Customer] # None /\ ~draft
    /\ draft' = TRUE
    /\ UNCHANGED <<rows, jobOf, mine, myJobs, lists, due, page, act, applied, turnedAway, panel>>

\* Accept or Reject on a card opens the dialog, which keeps both.
OpenActionDialog(w, status) ==
    /\ dialog = None /\ CanAct(w)
    /\ dialog' = [w |-> w, status |-> status]
    /\ UNCHANGED <<rows, jobOf, mine, myJobs, lists, due, page, act, forms, decisions, clicks>>

CloseActionDialog ==
    /\ Click
    /\ dialog # None /\ dialog' = None
    /\ UNCHANGED <<rows, jobOf, mine, myJobs, lists, due, page, act, forms, decisions>>

\* onMutate: keep the list of now, show the decision, send it.  A fetch that
\* is out is not cancelled.
ConfirmAction ==
    /\ Click
    /\ dialog # None /\ ~IsUpdating
    /\ decisions' = decisions \cup {[phase |-> "sent", w |-> dialog.w, status |-> dialog.status,
                                     previous |-> list, heard |-> TRUE]}
    /\ list' = IF list = None THEN None ELSE [list EXCEPT ![dialog.w] = dialog.status]
    /\ listFetch' = [listFetch EXCEPT !.clean = (listFetch = NoFetch)]
    /\ crossed' = (crossed \/ listFetch # NoFetch \/ decisions # {})
    /\ UNCHANGED <<rows, jobOf, mine, myJobs, told, due, page, act, forms, dialog>>
-----------------------------------------------------------------------------
(* Answers.                                                                *)

\* onSuccess: the server's entry, the list of jobs, and the dialog closes.
DecisionDone(d) ==
    /\ d.phase = "ok"
    /\ list' = IF list = None THEN None ELSE [list EXCEPT ![d.w] = d.status]
    /\ told' = told \cup {d.w}
    /\ due' = due \cup {<<"jobs", Customer>>}
    /\ dialog' = IF d.heard THEN None ELSE dialog
    /\ decisions' = decisions \ {d}
    /\ UNCHANGED <<rows, jobOf, mine, myJobs, listFetch, crossed, page, act, forms, clicks>>

\* mutant: nothing is rolled back
DecisionFailedShown(d) ==
    /\ d.phase = "failed"
    /\ decisions' = decisions \ {d}
    /\ UNCHANGED <<rows, jobOf, mine, myJobs, lists, due, page, act, forms, dialog, clicks>>

\* onError: the whole list as it was before this decision.
DecisionFailed(d) ==
    /\ d.phase = "failed"
    /\ list' = IF d.previous = None THEN list ELSE d.previous
    /\ decisions' = decisions \ {d}
    /\ UNCHANGED <<rows, jobOf, mine, myJobs, listFetch, told, crossed, due, page, act, forms,
                   dialog, clicks>>

\* What the success of each mutation invalidates.
Invalidated(u, op) ==
    CASE op = "apply" -> {<<"job", u>>}
      [] op \in {"confirm", "withdraw"} -> Everything(u) \cup Own(u)
      [] op \in {"start", "complete"} -> Everything(u)
      [] op \in {"edit", "delete"} -> {<<"jobs", u>>}

\* The dialog, if still there, hears that the worker has applied, now or before.
HearsOfApplication(a, phase) ==
    applied' = [w \in Workers |-> \/ applied[w]
                                 \/ /\ a.user = w /\ a.op = "apply" /\ a.phase = phase
                                    /\ page[w] = "detail"]

\* An edit puts the answered job in its query and opens its page; a deletion
\* removes that query.
Succeed(a) ==
    /\ a \in act /\ a.phase = "ok"
    /\ act' = act \ {a}
    /\ due' = due \cup Invalidated(a.user, a.op)
    /\ HearsOfApplication(a, "ok")
    /\ jobOf' = CASE a.op = "edit" -> [jobOf EXCEPT ![Customer] = [NewJob EXCEPT !.deleted = job.deleted]]
                  [] a.op = "delete" -> [jobOf EXCEPT ![Customer] = None]
                  [] OTHER -> jobOf
    /\ IF a.op = "edit" /\ page[Customer] = "edit"
       THEN page' = [page EXCEPT ![Customer] = "detail"] /\ draft' = FALSE
       ELSE UNCHANGED <<page, draft>>
    /\ UNCHANGED <<rows, mine, myJobs, lists, turnedAway, panel, clicks>>

\* A toast, and no more, but for an application: "already applied" closes its
\* dialog for good, "not open" fetches the job again.
Fail(a) ==
    /\ a \in act /\ a.phase \in {"failed", "refused", "closed"}
    /\ act' = act \ {a}
    /\ HearsOfApplication(a, "refused")
    /\ due' = due \cup {q \in {<<"job", a.user>>} : a.phase = "closed"}
    /\ turnedAway' = turnedAway \cup {u \in {a.user} : a.phase = "closed" /\ page[u] = "detail"}
    /\ UNCHANGED <<rows, jobOf, mine, myJobs, lists, page, draft, panel, clicks>>
-----------------------------------------------------------------------------
UserStep ==
    \/ \E u \in Browsing, p \in {"detail", "away"} : Open(u, p)
    \/ \E u \in Browsing, op \in Ops : Submit(u, op)
    \/ Customer \in Browsing /\ \/ \E p \in {"jobs", "edit"} : Open(Customer, p)
                                \/ Type \/ CloseActionDialog
    \/ Reconnect
    \/ \E w \in Workers, s \in {"accepted", "rejected"} : OpenActionDialog(w, s)
    \/ ConfirmAction

Settle(u) == \E a \in act : a.user = u /\ (Answer(a) \/ Succeed(a) \/ Fail(a))

Next ==
    \/ UserStep \/ Elsewhere
    \/ \E u \in Users : Settle(u)
    \/ \E d \in decisions : AnswerDecision(d) \/ DecisionDone(d) \/ DecisionFailed(d)
    \/ \E q \in Queries : Refetch(q)
    \/ FetchList \/ AnswerList \/ ReceiveList

Spec == Init /\ [][Next]_vars
-----------------------------------------------------------------------------
\* Type correctness.
TypeOK ==
    /\ job \in Jobs /\ apps \in Lists
    /\ jobOf \in [Users -> Jobs \cup {None}] /\ mine \in [Workers -> ApplicationStatus \cup {None}]
    /\ myJobs \in JobStatus \cup {None, "gone"}
    /\ list \in Lists \cup {None} /\ listFetch \in [phase : {"idle", "sent", "answered"}, data : Lists \cup {None},
                                                clean : BOOLEAN]
    /\ due \subseteq Queries
    /\ page \in [Users -> {"elsewhere", "away", "detail", "jobs", "edit"}]
    /\ act \subseteq [user : Users, op : Ops, phase : {"sent", "ok", "failed", "refused", "closed"}]
    /\ applied \in [Workers -> BOOLEAN] /\ draft \in BOOLEAN
    /\ dialog \in [w : Workers, status : {"accepted", "rejected"}] \cup {None}
    /\ decisions \subseteq [phase : {"sent", "ok", "failed"}, w : Workers, heard : BOOLEAN,
                           status : {"accepted", "rejected"}, previous : Lists \cup {None}]
    /\ clicks \in 0..MaxClicks /\ told \subseteq Workers
    /\ crossed \in BOOLEAN /\ turnedAway \subseteq Workers

\* The detail page of u shows what the server holds, and nothing of u's is out.
UpToDate(u) ==
    /\ jobOf[u] = job /\ (u # Customer => mine[u] = apps[u])
    /\ \A a \in act : a.user # u

\* A page that is up to date offers its user exactly what the server accepts
\* from him: nothing is refused, nobody who has the next move is left without
\* a button.
UpToDateOffersAreExact ==
    \A u \in Users : (UpToDate(u) /\ Shown(u)) =>
        \A op \in (IF u = Customer THEN {"complete"} ELSE Ops \ {"edit", "delete"}) :
            Offered(u, op) <=> Accepts(u, op)

\* An application refused because the job closed disables the button without
\* a reload: the page fetches the job, and what it then has is not open, for
\* nothing reopens a job (useApplyToJob.ts:32-35).
ApplySelfCorrects ==
    \A w \in turnedAway : <<"job", w>> \in due \/ ~CanApply(w)

\* Two cached queries decide on the buttons, the server on the rows they were
\* fetched from: up to date they agree, whatever the others did before, and
\* the page that is told it was not does not ask again (JobLifecycleActions.tsx
\* and JobDetailPage.tsx against job_lifecycle_service.py).
OffersMatchTheServer == UpToDateOffersAreExact /\ ApplySelfCorrects

\* Unless a fetch or a second decision crossed it, an optimistic decision
\* ends in the truth: at rest the list shows no decision the server did not
\* take, and once the answer is in, never the old status again
\* (useUpdateJobApplication.ts:34-56).
DecisionsEndInTruth ==
    (~crossed /\ list # None) =>
        /\ \A w \in told : list[w] # "pending"
        /\ decisions = {} => \A w \in Workers :
              list[w] \in Taken \cup {"rejected"} => apps[w] \notin {"none", "pending"}

\* The server, driven by these pages, implements the handshake.
Handshake == INSTANCE JobHandshake WITH
    stage <- job.status,
    inPlay <- {w \in Workers : apps[w] \in {"pending"} \cup Taken},
    chosen <- IF \E w \in Workers : apps[w] \in Taken
              THEN CHOOSE w \in Workers : apps[w] \in Taken ELSE None,
    marked <- job.marks,
    charged <- None
ImplementsHandshake == Handshake!Spec

\* useUpdateJobApplication.ts:41-44 takes care that the correct data just
\* received is not overwritten and the UI not reverted to the old status.
ConfirmedDecisionStays == list # None => \A w \in told : list[w] # "pending"
=============================================================================
