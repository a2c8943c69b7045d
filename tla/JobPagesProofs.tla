---------------------------- MODULE JobPagesProofs ----------------------------
(***************************************************************************)
(* Theorems about JobPages, for any number of workers, browsers and        *)
(* clicks.                                                                 *)
(***************************************************************************)
EXTENDS JobPages, TLAPS

USE JobPagesAssumption, UndefinedAssumption

-----------------------------------------------------------------------------
(* What a step does to the rows of the server.                             *)

Decided == {"accepted", "confirmed", "rejected"}

Applies(w) ==
    /\ job.status = "open" /\ apps[w] = "none"
    /\ apps' = [apps EXCEPT ![w] = "pending"] /\ UNCHANGED job
Confirms(w) ==
    /\ job.status = "open" /\ apps[w] = "accepted"
    /\ job' = [job EXCEPT !.status = "assigned"]
    /\ apps' = [v \in Workers |-> IF v = w THEN "confirmed"
                  ELSE IF apps[v] = "none" THEN "none" ELSE "rejected"]
Accepted(w) ==
    /\ job.status = "open" /\ apps[w] # "none"
    /\ \A v \in Workers \ {w} : apps[v] # "accepted"
    /\ apps' = [apps EXCEPT ![w] = "accepted"] /\ UNCHANGED job
Rejected(w) ==
    /\ job.status = "open" /\ apps[w] # "none"
    /\ apps' = [apps EXCEPT ![w] = "rejected"] /\ UNCHANGED job
Starts ==
    /\ job.status = "assigned"
    /\ job' = [job EXCEPT !.status = "in_progress"] /\ UNCHANGED apps
Marks(side) ==
    /\ job.status = "in_progress" /\ side \notin job.marks
    /\ job' = [job EXCEPT !.marks = job.marks \cup {side},
                          !.status = IF job.marks \cup {side} = Sides THEN "completed" ELSE @]
    /\ UNCHANGED apps
Deletes == job' = [job EXCEPT !.deleted = TRUE] /\ UNCHANGED apps

RowStep ==
    \/ \E w \in Workers : Applies(w) \/ Confirms(w) \/ Accepted(w) \/ Rejected(w)
    \/ Starts \/ Deletes \/ \E side \in Sides : Marks(side)
    \/ UNCHANGED rows

(* The mutations a user is offered.                                        *)
Fits(u, op) ==
    IF u = Customer THEN op \in {"complete", "edit", "delete"} ELSE op \in Ops \ {"edit", "delete"}
ActsFit ==
    \A a \in act : /\ Fits(a.user, a.op)
                   /\ a.phase \in {"refused", "closed"} => a.op = "apply"

LEMMA CommitIsRowStep ==
    ASSUME NEW u \in Users, NEW op \in Ops, Fits(u, op), Accepts(u, op), Commit(u, op)
    PROVE  RowStep
<1>1. CASE u = Customer
  <2>1. op \in {"complete", "edit", "delete"}
    BY <1>1 DEF Fits
  <2>2. CASE op = "complete"
    BY <1>1, <2>2 DEF Accepts, MayComplete, Commit, CommitComplete, RowStep, Marks, Side, Sides
  <2>3. CASE op = "edit"
    BY <2>3 DEF Commit, RowStep
  <2>4. CASE op = "delete"
    BY <2>4 DEF Commit, RowStep, Deletes
  <2> QED
    BY <2>1, <2>2, <2>3, <2>4
<1>2. CASE u # Customer
  <2>1. u \in Workers /\ op \in {"apply", "confirm", "withdraw", "start", "complete"}
    BY <1>2 DEF Fits, Ops, Users
  <2>2. CASE op = "apply"
    BY <2>1, <2>2 DEF Accepts, MayApply, Commit, RowStep, Applies
  <2>3. CASE op = "confirm"
    BY <2>1, <2>3 DEF Accepts, MayConfirm, Commit, CommitConfirm, RowStep, Confirms
  <2>4. CASE op = "withdraw"
    BY <2>1, <2>4 DEF Accepts, MayWithdraw, Commit, RowStep, Rejected
  <2>5. CASE op = "start"
    BY <2>1, <2>5 DEF Accepts, MayStart, Commit, CommitStart, RowStep, Starts
  <2>6. CASE op = "complete"
    BY <1>2, <2>6 DEF Accepts, MayComplete, Commit, CommitComplete, RowStep, Marks, Side, Sides
  <2> QED
    BY <2>1, <2>2, <2>3, <2>4, <2>5, <2>6
<1> QED
  BY <1>1, <1>2

LEMMA DecisionIsRowStep ==
    ASSUME NEW w \in Workers, NEW status \in {"accepted", "rejected"},
           AcceptsDecision(w, status), CommitDecision(w, status)
    PROVE  RowStep /\ job.status = "open"
<1>1. CASE status = "accepted"
  BY <1>1 DEF AcceptsDecision, CommitDecision, RowStep, Accepted
<1>2. CASE status = "rejected"
  BY <1>2 DEF AcceptsDecision, CommitDecision, RowStep, Rejected
<1> QED
  BY <1>1, <1>2, Zenon DEF AcceptsDecision

(* Whatever the step is, the rows change as one handler changes them.      *)
LEMMA NextIsRowStep == TypeOK /\ ActsFit /\ [Next]_vars => RowStep
<1> SUFFICES ASSUME TypeOK, ActsFit, [Next]_vars, ~UNCHANGED rows PROVE RowStep
  BY DEF RowStep
<1>1. ASSUME Elsewhere PROVE RowStep
  <2>1. ASSUME NEW u \in Users \ Browsing, NEW op \in Ops \ {"edit", "delete"},
               u = Customer => op = "complete", Accepts(u, op), Commit(u, op)
        PROVE  RowStep
    <3>1. Fits(u, op)
      BY <2>1 DEF Fits
    <3> QED
      BY <2>1, <3>1, CommitIsRowStep
  <2>2. ASSUME NEW w \in Workers, NEW s \in {"accepted", "rejected"},
               AcceptsDecision(w, s), CommitDecision(w, s)
        PROVE  RowStep
    BY <2>2, DecisionIsRowStep
  <2> QED
    BY <1>1, <2>1, <2>2 DEF Elsewhere
<1>2. ASSUME NEW a \in act, Answer(a) PROVE RowStep
  <2>1. Fits(a.user, a.op) /\ a.user \in Users /\ a.op \in Ops
    BY DEF TypeOK, ActsFit
  <2>2. Accepts(a.user, a.op) /\ Commit(a.user, a.op)
    BY <1>2 DEF Answer
  <2> QED
    BY <2>1, <2>2, CommitIsRowStep
<1>3. ASSUME NEW d \in decisions, AnswerDecision(d) PROVE RowStep
  <2>1. d.w \in Workers /\ d.status \in {"accepted", "rejected"}
    BY DEF TypeOK
  <2>2. AcceptsDecision(d.w, d.status) /\ CommitDecision(d.w, d.status)
    BY <1>3 DEF AnswerDecision
  <2> QED
    BY <2>1, <2>2, DecisionIsRowStep
<1>4. UserStep => UNCHANGED rows
  BY DEF UserStep, Open, Submit, Type, CloseActionDialog, Reconnect, OpenActionDialog, ConfirmAction
<1>5. \A a : Succeed(a) \/ Fail(a) => UNCHANGED rows
  BY DEF Succeed, Fail
<1>6. \A d : DecisionDone(d) \/ DecisionFailed(d) => UNCHANGED rows
  BY DEF DecisionDone, DecisionFailed
<1>7. (\E q \in Queries : Refetch(q)) \/ FetchList \/ AnswerList \/ ReceiveList => UNCHANGED rows
  BY DEF Refetch, FetchList, AnswerList, ReceiveList
<1>8. UNCHANGED vars => UNCHANGED rows
  BY DEF vars
<1> QED
  BY <1>1, <1>2, <1>3, <1>4, <1>5, <1>6, <1>7, <1>8 DEF Next, Settle

RowsType == job \in Jobs /\ apps \in Lists
LEMMA RowStepType == RowsType /\ RowStep => RowsType'
<1> SUFFICES ASSUME RowsType, RowStep PROVE RowsType'
  OBVIOUS
<1> USE DEF RowsType
<1>1. ASSUME NEW w \in Workers, Applies(w) \/ Accepted(w) \/ Rejected(w) PROVE RowsType'
  BY <1>1 DEF Applies, Accepted, Rejected, Lists, ApplicationStatus
<1>2. ASSUME NEW w \in Workers, Confirms(w) PROVE RowsType'
  BY <1>2 DEF Confirms, Lists, ApplicationStatus, Jobs, JobStatus
<1>3. Starts \/ Deletes => RowsType'
  BY DEF Starts, Deletes, Jobs, JobStatus
<1>4. ASSUME NEW side \in Sides, Marks(side) PROVE RowsType'
  BY <1>4 DEF Marks, Jobs, JobStatus
<1> QED
  BY <1>1, <1>2, <1>3, <1>4 DEF RowStep, rows

(* What the rows do not take back: a status that is not open, an           *)
(* application, and a decision on it.                                      *)
LEMMA RowsLast ==
    ASSUME RowsType, RowStep
    PROVE  /\ job.status # "open" => job'.status # "open"
           /\ \A w \in Workers : apps[w] # "none" => apps'[w] # "none"
           /\ \A w \in Workers : apps[w] \in Decided => apps'[w] \in Decided
<1> USE DEF RowsType, Decided, Lists, ApplicationStatus
<1>1. ASSUME NEW w \in Workers, Applies(w) \/ Accepted(w) \/ Rejected(w)
      PROVE  /\ UNCHANGED job
             /\ \A v \in Workers : apps[v] # "none" => apps'[v] # "none"
             /\ \A v \in Workers : apps[v] \in Decided => apps'[v] \in Decided
  BY <1>1 DEF Applies, Accepted, Rejected
<1>2. ASSUME NEW w \in Workers, Confirms(w)
      PROVE  /\ job.status = "open"
             /\ \A v \in Workers : apps[v] # "none" => apps'[v] # "none"
             /\ \A v \in Workers : apps[v] \in Decided => apps'[v] \in Decided
  BY <1>2 DEF Confirms
<1>3. Starts \/ Deletes => UNCHANGED apps /\ (job.status # "open" => job'.status # "open")
  BY DEF Starts, Deletes, Jobs
<1>4. ASSUME NEW side \in Sides, Marks(side)
      PROVE  UNCHANGED apps /\ (job.status # "open" => job'.status # "open")
  BY <1>4 DEF Marks, Jobs
<1> QED
  BY <1>1, <1>2, <1>3, <1>4 DEF RowStep, rows

-----------------------------------------------------------------------------
(* The shape of everything, and the mutations that are sent.               *)



Pages == {"elsewhere", "away", "detail", "jobs", "edit"}
Mutation == [user : Users, op : Ops, phase : {"sent", "ok", "failed", "refused", "closed"}]
Decision == [phase : {"sent", "ok", "failed"}, w : Workers, heard : BOOLEAN,
             status : {"accepted", "rejected"}, previous : Lists \cup {None}]
ListFetch == [phase : {"idle", "sent", "answered"}, data : Lists \cup {None}, clean : BOOLEAN]

(* The page of a worker is never one of the customer's.                    *)
LEMMA ObservedQueries ==
    ASSUME NEW u \in Users, NEW p \in Pages, u # Customer => p \in {"elsewhere", "away", "detail"}
    PROVE  Observed(u, p) \subseteq Queries
BY DEF Observed, Own, Queries, Users, Pages

LEMMA InvalidatedQueries ==
    ASSUME NEW u \in Users, NEW op \in Ops, Fits(u, op)
    PROVE  Invalidated(u, op) \subseteq Queries
BY DEF Invalidated, Everything, Own, Queries, Users, Ops, Fits

CacheTypes ==
    /\ jobOf \in [Users -> Jobs \cup {None}] /\ mine \in [Workers -> ApplicationStatus \cup {None}]
    /\ myJobs \in JobStatus \cup {None, "gone"}
    /\ list \in Lists \cup {None} /\ listFetch \in ListFetch
    /\ due \subseteq Queries
PageTypes ==
    /\ page \in [Users -> Pages]
    /\ act \subseteq Mutation
    /\ applied \in [Workers -> BOOLEAN] /\ draft \in BOOLEAN
    /\ turnedAway \subseteq Workers
PanelTypes ==
    /\ dialog \in [w : Workers, status : {"accepted", "rejected"}] \cup {None}
    /\ decisions \subseteq Decision
    /\ clicks \in 0..MaxClicks /\ told \subseteq Workers
    /\ crossed \in BOOLEAN
LEMMA TypesApart == TypeOK <=> RowsType /\ CacheTypes /\ PageTypes /\ PanelTypes
BY DEF TypeOK, RowsType, CacheTypes, PageTypes, PanelTypes, Pages, Mutation, Decision, ListFetch

OwnPages == \A u \in Users : u # Customer => page[u] \in {"elsewhere", "away", "detail"}
ShapeInv == TypeOK /\ ActsFit /\ OwnPages

LEMMA ShapeInit == Init => ShapeInv
<1> SUFFICES ASSUME Init PROVE ShapeInv
  OBVIOUS
<1>1. PICK browsing \in Browsers, p \in {"detail", "jobs"} :
        /\ page = [u \in Users |-> IF u \notin browsing THEN "elsewhere"
                              ELSE IF u = Customer THEN p ELSE "detail"]
  BY DEF Init
<1>2. page \in [Users -> {"elsewhere", "away", "detail", "jobs", "edit"}]
  BY <1>1
<1>3. \A u \in Users : Observed(u, page[u]) \subseteq Queries
  <2> SUFFICES ASSUME NEW u \in Users PROVE Observed(u, page[u]) \subseteq Queries
    OBVIOUS
  <2>1. page[u] \in {"elsewhere", "detail", "jobs"} /\ (page[u] = "jobs" => u = Customer)
    BY <1>1
  <2> QED
    BY <2>1 DEF Observed, Own, Queries, Users
<1>4. due \subseteq Queries
  BY <1>3 DEF Init, Active
<1>5. RowsType /\ jobOf \in [Users -> Jobs \cup {None}] /\ mine \in [Workers -> ApplicationStatus \cup {None}]
  <2>1. NewJob \in Jobs
    BY DEF NewJob, Jobs, JobStatus, Sides
  <2> QED
    BY <2>1 DEF Init, RowsType, Lists, ApplicationStatus
<1>6. listFetch \in [phase : {"idle", "sent", "answered"}, data : Lists \cup {None}, clean : BOOLEAN]
  BY DEF Init, NoFetch
<1>7. applied \in [Workers -> BOOLEAN] /\ draft \in BOOLEAN /\ crossed \in BOOLEAN
  BY DEF Init
<1>8. clicks \in 0..MaxClicks /\ told \subseteq Workers /\ turnedAway \subseteq Workers
  BY DEF Init
<1>9. /\ act = {} /\ decisions = {} /\ dialog = None /\ list = None /\ myJobs = None
  BY DEF Init
<1> QED
  BY <1>1, <1>2, <1>4, <1>5, <1>6, <1>7, <1>8, <1>9 DEF ShapeInv, TypeOK, ActsFit, RowsType, OwnPages

LEMMA ActiveQueries == TypeOK /\ OwnPages => Active \subseteq Queries
BY TypesApart, ObservedQueries DEF Active, PageTypes, OwnPages

LEMMA RequestsStep ==
    ASSUME ShapeInv, [Next]_vars
    PROVE  ActsFit' /\ act' \subseteq Mutation
<1> USE DEF ShapeInv
<1>0. act \subseteq Mutation
  BY TypesApart DEF PageTypes
<1>1. ASSUME NEW u \in Browsing, NEW op \in Ops, Submit(u, op) PROVE ActsFit' /\ act' \subseteq Mutation
  <2>1. Fits(u, op) /\ u \in Users
    BY <1>1 DEF Submit, Offered, Fits, Browsing, Ops
  <2> QED
    BY <2>1, <1>1, <1>0 DEF Submit, ActsFit, Mutation
<1>2. ASSUME NEW a \in act, Answer(a) PROVE ActsFit' /\ act' \subseteq Mutation
  <2>1. PICK phase \in {"ok", "failed", "refused", "closed"} :
           /\ act' = (act \ {a}) \cup {[a EXCEPT !.phase = phase]}
           /\ phase \in {"refused", "closed"} => a.op = "apply"
    BY <1>2 DEF Answer
  <2>2. /\ [a EXCEPT !.phase = phase] \in Mutation /\ [a EXCEPT !.phase = phase].phase = phase
        /\ [a EXCEPT !.phase = phase].user = a.user /\ [a EXCEPT !.phase = phase].op = a.op
    BY <1>0 DEF Mutation
  <2> QED
    BY <2>1, <2>2, <1>0 DEF ActsFit
<1>3. ASSUME NEW a \in act, Succeed(a) \/ Fail(a) PROVE ActsFit' /\ act' \subseteq Mutation
  BY <1>3, <1>0 DEF Succeed, Fail, ActsFit
<1>4. UNCHANGED act => ActsFit' /\ act' \subseteq Mutation
  BY <1>0 DEF ActsFit
<1>5. ASSUME UserStep PROVE \/ UNCHANGED act
                            \/ \E u \in Browsing, op \in Ops : Submit(u, op)
  BY <1>5 DEF UserStep, Open, Type, CloseActionDialog, Reconnect, OpenActionDialog, ConfirmAction
<1>6. Elsewhere => UNCHANGED act
  BY DEF Elsewhere
<1>7. \A d : AnswerDecision(d) \/ DecisionDone(d) \/ DecisionFailed(d) => UNCHANGED act
  BY DEF AnswerDecision, DecisionDone, DecisionFailed
<1>8. (\E q \in Queries : Refetch(q)) \/ FetchList \/ AnswerList \/ ReceiveList => UNCHANGED act
  BY DEF Refetch, FetchList, AnswerList, ReceiveList
<1>9. UNCHANGED vars => UNCHANGED act
  BY DEF vars
<1> QED
  BY <1>1, <1>2, <1>3, <1>4, <1>5, <1>6, <1>7, <1>8, <1>9 DEF Next, Settle

Rest == CacheTypes /\ PageTypes /\ PanelTypes /\ OwnPages

LEMMA ServerKeepsShape ==
    ASSUME ShapeInv, act' \subseteq Mutation
    PROVE  /\ Elsewhere => Rest'
           /\ \A a \in act : Answer(a) => Rest'
           /\ \A d \in decisions : AnswerDecision(d) => Rest'
<1> USE TypesApart DEF ShapeInv, Rest, lists, panel, forms
<1>1. Elsewhere => Rest'
  BY DEF Elsewhere, CacheTypes, PageTypes, PanelTypes, OwnPages
<1>2. ASSUME NEW a \in act, Answer(a) PROVE Rest'
  BY <1>2 DEF Answer, CacheTypes, PageTypes, PanelTypes, OwnPages
<1>3. ASSUME NEW d \in decisions, AnswerDecision(d) PROVE Rest'
  <2>1. PICK phase \in {"ok", "failed"} :
           decisions' = (decisions \ {d}) \cup {[d EXCEPT !.phase = phase]}
    BY <1>3 DEF AnswerDecision
  <2>2. [d EXCEPT !.phase = phase] \in Decision
    BY DEF PanelTypes, Decision
  <2>3. decisions' \subseteq Decision
    BY <2>1, <2>2 DEF PanelTypes
  <2> QED
    BY <2>3, <1>3 DEF AnswerDecision, CacheTypes, PageTypes, PanelTypes, OwnPages
<1> QED
  BY <1>1, <1>2, <1>3

LEMMA FetchesKeepShape ==
    ASSUME ShapeInv
    PROVE  /\ \A q \in Queries : Refetch(q) => Rest'
           /\ FetchList \/ AnswerList \/ ReceiveList => Rest'
<1> USE TypesApart DEF ShapeInv, Rest, lists, panel, forms
<1>1. ASSUME NEW q \in Queries, Refetch(q) PROVE Rest'
  <2>1. PageTypes' /\ PanelTypes' /\ OwnPages'
    <3>1. draft' \in BOOLEAN
      BY <1>1 DEF Refetch, DraftAfter, PageTypes
    <3> QED
      BY <1>1, <3>1 DEF Refetch, PageTypes, PanelTypes, OwnPages
  <2>2. CASE q[1] = "job"
    <3>1. q[2] \in Users
      BY <2>2 DEF Queries, Users
    <3>2. jobOf' \in [Users -> Jobs \cup {None}]
      BY <1>1, <2>2, <3>1 DEF Refetch, CacheTypes, RowsType
    <3> QED
      BY <1>1, <2>1, <2>2, <3>2 DEF Refetch, CacheTypes
  <2>3. CASE q[1] = "mine"
    <3>1. q[2] \in Workers
      BY <2>3 DEF Queries
    <3>2. mine' \in [Workers -> ApplicationStatus \cup {None}]
      BY <1>1, <2>3, <3>1 DEF Refetch, CacheTypes, RowsType, Lists
    <3> QED
      BY <1>1, <2>1, <2>3, <3>2 DEF Refetch, CacheTypes
  <2>4. CASE q[1] = "jobs"
    <3>1. myJobs' \in JobStatus \cup {None, "gone"}
      BY <1>1, <2>4 DEF Refetch, RowsType, Jobs
    <3> QED
      BY <1>1, <2>1, <2>4, <3>1 DEF Refetch, CacheTypes
  <2> QED
    BY <1>1, <2>2, <2>3, <2>4 DEF Refetch
<1>2. FetchList => Rest'
  BY DEF FetchList, CacheTypes, PageTypes, PanelTypes, OwnPages, ListFetch
<1>3. AnswerList => Rest'
  BY DEF AnswerList, CacheTypes, PageTypes, PanelTypes, OwnPages, ListFetch, RowsType
<1>4. ReceiveList => Rest'
  <2> SUFFICES ASSUME ReceiveList PROVE Rest'
    OBVIOUS
  <2>1. NoFetch \in ListFetch /\ listFetch.data \in Lists \cup {None} /\ listFetch.clean \in BOOLEAN
    BY DEF CacheTypes, ListFetch, NoFetch
  <2>2. (~listFetch.clean) \in BOOLEAN
    BY <2>1
  <2> QED
    BY <2>1, <2>2 DEF ReceiveList, CacheTypes, PageTypes, PanelTypes, OwnPages
<1> QED
  BY <1>1, <1>2, <1>3, <1>4

LEMMA ClicksKeepShape == ShapeInv /\ UserStep /\ act' \subseteq Mutation => Rest'
<1> SUFFICES ASSUME ShapeInv, UserStep, act' \subseteq Mutation PROVE Rest'
  OBVIOUS
<1> USE TypesApart DEF ShapeInv, Rest, lists, panel, forms
<1>0. ASSUME Click PROVE clicks' \in 0..MaxClicks
  BY <1>0 DEF Click, PanelTypes
<1>1. ASSUME NEW u \in Browsing, NEW p \in Pages, Open(u, p),
             u # Customer => p \in {"detail", "away"}
      PROVE  Rest'
  <2>1. u \in Users /\ Observed(u, p) \subseteq Queries
    BY <1>1, ObservedQueries DEF Browsing
  <2>2. due' \subseteq Queries
    BY <1>1, <2>1 DEF Open, CacheTypes
  <2>3. page' \in [Users -> Pages] /\ OwnPages'
    BY <1>1, <2>1 DEF Open, PageTypes, OwnPages
  <2>4. applied' \in [Workers -> BOOLEAN]
    <3>1. \A w \in Workers : (applied[w] /\ w # u) \in BOOLEAN
      BY DEF PageTypes
    <3> QED
      BY <1>1, <3>1 DEF Open
  <2>5. decisions' \subseteq Decision
    <3>1. \A d \in decisions : [d EXCEPT !.heard = FALSE] \in Decision
      BY DEF PanelTypes, Decision
    <3>2. decisions' = {[d EXCEPT !.heard = FALSE] : d \in decisions} \/ UNCHANGED decisions
      BY <1>1 DEF Open
    <3> QED
      BY <3>1, <3>2 DEF PanelTypes
  <2>6. dialog' = None \/ UNCHANGED dialog
    BY <1>1 DEF Open
  <2>7. draft' \in BOOLEAN /\ turnedAway' \subseteq Workers
    BY <1>1 DEF Open, PageTypes
  <2>8. clicks' \in 0..MaxClicks
    BY <1>0, <1>1 DEF Open
  <2>9. CacheTypes'
    BY <1>1, <2>2 DEF Open, CacheTypes
  <2>10. PageTypes'
    BY <2>3, <2>4, <2>7, Zenon DEF PageTypes
  <2>11. PanelTypes'
    BY <1>1, <2>5, <2>6, <2>8 DEF Open, PanelTypes
  <2> QED
    BY <2>3, <2>9, <2>10, <2>11
<1>2. ASSUME NEW u \in Browsing, NEW op \in Ops, Submit(u, op) PROVE Rest'
  BY <1>0, <1>2 DEF Submit, CacheTypes, PageTypes, PanelTypes, OwnPages
<1>3. Type => Rest'
  BY <1>0 DEF Type, CacheTypes, PageTypes, PanelTypes, OwnPages
<1>4. CloseActionDialog => Rest'
  BY <1>0 DEF CloseActionDialog, CacheTypes, PageTypes, PanelTypes, OwnPages
<1>5. Reconnect => Rest'
  <2> SUFFICES ASSUME Reconnect PROVE Rest'
    OBVIOUS
  <2>1. due' \subseteq Queries
    BY ActiveQueries DEF Reconnect, CacheTypes
  <2> QED
    BY <1>0, <2>1 DEF Reconnect, CacheTypes, PageTypes, PanelTypes, OwnPages
<1>6. ASSUME NEW w \in Workers, NEW s \in {"accepted", "rejected"}, OpenActionDialog(w, s) PROVE Rest'
  BY <1>6 DEF OpenActionDialog, CacheTypes, PageTypes, PanelTypes, OwnPages
<1>7. ConfirmAction => Rest'
  <2> SUFFICES ASSUME ConfirmAction PROVE Rest'
    OBVIOUS
  <2>1. dialog \in [w : Workers, status : {"accepted", "rejected"}]
    BY DEF ConfirmAction, PanelTypes
  <2>2. list' \in Lists \cup {None}
    BY <2>1 DEF ConfirmAction, CacheTypes, Lists, ApplicationStatus
  <2>3. (listFetch = NoFetch) \in BOOLEAN
    OBVIOUS
  <2>4. listFetch' \in ListFetch
    BY <2>3 DEF ConfirmAction, CacheTypes, ListFetch
  <2>5. decisions' \subseteq Decision
    <3>1. [phase |-> "sent", w |-> dialog.w, status |-> dialog.status, previous |-> list, heard |-> TRUE]
             \in Decision
      BY <2>1 DEF Decision, CacheTypes
    <3> QED
      BY <3>1 DEF ConfirmAction, PanelTypes
  <2>6. crossed' \in BOOLEAN
    BY DEF ConfirmAction, PanelTypes
  <2> QED
    BY <1>0, <2>2, <2>4, <2>5, <2>6 DEF ConfirmAction, CacheTypes, PageTypes, PanelTypes, OwnPages
<1> QED
  BY <1>1, <1>2, <1>3, <1>4, <1>5, <1>6, <1>7 DEF UserStep, Pages

LEMMA AnswersKeepShape ==
    ASSUME ShapeInv, act' \subseteq Mutation
    PROVE  /\ \A d \in decisions : DecisionDone(d) \/ DecisionFailed(d) => Rest'
           /\ \A a \in act : Succeed(a) \/ Fail(a) => Rest'
<1> USE TypesApart DEF ShapeInv, Rest, lists, panel, forms
<1>1. ASSUME NEW d \in decisions, DecisionDone(d) PROVE Rest'
  <2>1. d \in Decision
    BY DEF PanelTypes
  <2>2. list' \in Lists \cup {None}
    BY <1>1, <2>1 DEF DecisionDone, Decision, CacheTypes, Lists, ApplicationStatus
  <2>3. due' \subseteq Queries
    BY <1>1 DEF DecisionDone, CacheTypes, Queries
  <2> QED
    BY <1>1, <2>1, <2>2, <2>3 DEF DecisionDone, Decision, CacheTypes, PageTypes, PanelTypes, OwnPages
<1>2. ASSUME NEW d \in decisions, DecisionFailed(d) PROVE Rest'
  <2>1. d \in Decision
    BY DEF PanelTypes
  <2>2. list' \in Lists \cup {None}
    BY <1>2, <2>1 DEF DecisionFailed, Decision, CacheTypes
  <2> QED
    BY <1>2, <2>2 DEF DecisionFailed, CacheTypes, PageTypes, PanelTypes, OwnPages
<1>3. ASSUME NEW a \in act, NEW phase PROVE HearsOfApplication(a, phase) => applied' \in [Workers -> BOOLEAN]
  <2>1. \A w \in Workers : (\/ applied[w]
                            \/ /\ a.user = w /\ a.op = "apply" /\ a.phase = phase
                               /\ page[w] = "detail") \in BOOLEAN
    BY DEF PageTypes
  <2> QED
    BY <2>1 DEF HearsOfApplication
<1>4. ASSUME NEW a \in act PROVE a \in Mutation /\ Invalidated(a.user, a.op) \subseteq Queries
  BY InvalidatedQueries DEF PageTypes, Mutation, ActsFit
<1>5. ASSUME NEW a \in act, Succeed(a) PROVE Rest'
  <2>1. due' \subseteq Queries
    BY <1>4, <1>5 DEF Succeed, CacheTypes
  <2>2. jobOf' \in [Users -> Jobs \cup {None}]
    <3>1. [NewJob EXCEPT !.deleted = job.deleted] \in Jobs
      BY DEF NewJob, Jobs, JobStatus, RowsType
    <3> QED
      BY <1>5, <3>1 DEF Succeed, CacheTypes, Users
  <2>3. page' \in [Users -> Pages] /\ draft' \in BOOLEAN /\ OwnPages'
    <3>1. CASE a.op = "edit" /\ page[Customer] = "edit"
      <4>1. page' = [page EXCEPT ![Customer] = "detail"] /\ draft' = FALSE
        BY <1>5, <3>1 DEF Succeed
      <4> QED
        BY <4>1 DEF PageTypes, Pages, OwnPages, Users
    <3>2. CASE ~(a.op = "edit" /\ page[Customer] = "edit")
      <4>1. UNCHANGED <<page, draft>>
        BY <1>5, <3>2 DEF Succeed
      <4> QED
        BY <4>1 DEF PageTypes, OwnPages
    <3> QED
      BY <3>1, <3>2
  <2>4. applied' \in [Workers -> BOOLEAN]
    BY <1>3, <1>5 DEF Succeed
  <2> QED
    BY <1>5, <2>1, <2>2, <2>3, <2>4 DEF Succeed, CacheTypes, PageTypes, PanelTypes
<1>6. ASSUME NEW a \in act, Fail(a) PROVE Rest'
  <2>1. a.user \in Users /\ (a.phase = "closed" => a.user \in Workers /\ <<"job", a.user>> \in Queries)
    BY <1>4 DEF Mutation, Queries, ActsFit, Fits, Users
  <2>2. due' \subseteq Queries
    BY <1>6, <2>1 DEF Fail, CacheTypes
  <2>3. applied' \in [Workers -> BOOLEAN]
    BY <1>3, <1>6 DEF Fail
  <2>4. turnedAway' \subseteq Workers
    BY <1>6, <2>1 DEF Fail, PageTypes
  <2> QED
    BY <1>6, <2>2, <2>3, <2>4 DEF Fail, CacheTypes, PageTypes, PanelTypes, OwnPages
<1> QED
  BY <1>1, <1>2, <1>5, <1>6

LEMMA ShapeStep == ShapeInv /\ [Next]_vars => ShapeInv'
<1> SUFFICES ASSUME ShapeInv, [Next]_vars PROVE ShapeInv'
  OBVIOUS
<1>1. ActsFit' /\ act' \subseteq Mutation
  BY RequestsStep
<1>2. RowsType'
  BY NextIsRowStep, RowStepType, TypesApart DEF ShapeInv
<1>3. Rest'
  <2>1. UNCHANGED vars => Rest'
    BY TypesApart DEF ShapeInv, Rest, vars, lists, panel, forms, CacheTypes, PageTypes, PanelTypes, OwnPages
  <2> QED
    BY <1>1, <2>1, ServerKeepsShape, FetchesKeepShape, ClicksKeepShape, AnswersKeepShape DEF Next, Settle
<1>4. TypeOK'
  <2>1. (RowsType /\ CacheTypes /\ PageTypes /\ PanelTypes)'
    BY <1>2, <1>3 DEF Rest
  <2> QED
    BY <2>1, TypesApart, PTL
<1> QED
  BY <1>1, <1>3, <1>4 DEF ShapeInv, Rest

(* Every value stays one the pages can have.                               *)
THEOREM TypeCorrect == Spec => []TypeOK
<1>1. ShapeInv => TypeOK
  BY DEF ShapeInv
<1> QED
  BY ShapeInit, ShapeStep, <1>1, PTL DEF Spec

-----------------------------------------------------------------------------
(* The rows implement the handshake.                                       *)

InPlay == {w \in Workers : apps[w] \in {"pending"} \cup Taken}
Chosen == IF \E w \in Workers : apps[w] \in Taken
          THEN CHOOSE w \in Workers : apps[w] \in Taken ELSE None

(* One applicant is taken at a time, and confirmed when the job is         *)
(* assigned; from then on nobody else is in play.                          *)
RowsInv ==
    /\ \A v, w \in Workers : apps[v] \in Taken /\ apps[w] \in Taken => v = w
    /\ job.status = "open" => \A w \in Workers : apps[w] # "confirmed"

ChosenIsTaken ==
    /\ \A w \in Workers : apps[w] \in Taken => Chosen = w
    /\ (\A w \in Workers : apps[w] \notin Taken) => Chosen = None
LEMMA TheChosen == RowsInv => ChosenIsTaken
BY DEF RowsInv, Chosen, ChosenIsTaken

LEMMA RowsInvStep == RowsType /\ RowsInv /\ RowStep => RowsInv'
<1> SUFFICES ASSUME RowsType, RowsInv, RowStep PROVE RowsInv'
  OBVIOUS
<1> USE DEF RowsType, RowsInv, Taken, Lists, ApplicationStatus
<1>1. ASSUME NEW w \in Workers, Applies(w) PROVE RowsInv'
  BY <1>1 DEF Applies
<1>2. ASSUME NEW w \in Workers, Confirms(w) PROVE RowsInv'
  BY <1>2 DEF Confirms, Jobs
<1>3. ASSUME NEW w \in Workers, Accepted(w) PROVE RowsInv'
  BY <1>3 DEF Accepted
<1>4. ASSUME NEW w \in Workers, Rejected(w) PROVE RowsInv'
  BY <1>4 DEF Rejected
<1>5. Starts \/ Deletes => RowsInv'
  BY DEF Starts, Deletes, Jobs
<1>6. ASSUME NEW side \in Sides, Marks(side) PROVE RowsInv'
  BY <1>6 DEF Marks, Jobs
<1>7. UNCHANGED rows => RowsInv'
  BY DEF rows
<1> QED
  BY <1>1, <1>2, <1>3, <1>4, <1>5, <1>6, <1>7 DEF RowStep

(* Each change of the rows is a step of the handshake, or none.            *)
LEMMA RowStepIsHandshake ==
    RowsType /\ RowsInv /\ RowStep => [Handshake!Next]_Handshake!vars
<1> SUFFICES ASSUME RowsType, RowsInv, RowStep PROVE [Handshake!Next]_Handshake!vars
  OBVIOUS
<1>0. RowsInv' /\ RowsType'
  BY RowsInvStep, RowStepType
<1>1. ChosenIsTaken /\ ChosenIsTaken'
  <2>1. RowsInv' => ChosenIsTaken'
    BY TheChosen, PTL
  <2> QED
    BY <2>1, <1>0, TheChosen
<1>2. UNCHANGED <<job.status, InPlay, Chosen, job.marks>> => UNCHANGED Handshake!vars
  BY DEF Handshake!vars, InPlay, Chosen
<1>3. ASSUME \A v \in Workers : apps'[v] \in Taken <=> apps[v] \in Taken PROVE Chosen' = Chosen
  <2>1. CASE \E v \in Workers : apps[v] \in Taken
    BY <1>1, <1>3, <2>1 DEF ChosenIsTaken
  <2>2. CASE \A v \in Workers : apps[v] \notin Taken
    BY <1>1, <1>3, <2>2 DEF ChosenIsTaken
  <2> QED
    BY <2>1, <2>2
<1>4. UNCHANGED apps => Chosen' = Chosen /\ InPlay' = InPlay
  BY DEF Chosen, InPlay
<1> USE DEF RowsType, Lists
<1>5. ASSUME NEW w \in Workers, Applies(w) PROVE Handshake!Join(w)
  <2>1. InPlay' = InPlay \cup {w}
    BY <1>5 DEF Applies, InPlay
  <2>2. \A v \in Workers : apps'[v] \in Taken <=> apps[v] \in Taken
    BY <1>5 DEF Applies, Taken
  <2>3. Chosen' = Chosen
    BY <2>2, <1>3
  <2> QED
    BY <1>5, <2>1, <2>3 DEF Applies, InPlay, Chosen, Handshake!Join
<1>6. ASSUME NEW w \in Workers, Confirms(w) PROVE Handshake!Confirm
  <2>1. Chosen = w /\ w # None
    BY <1>1, <1>6 DEF Confirms, ChosenIsTaken, Taken
  <2>2. apps'[w] = "confirmed" /\ Chosen' = w
    BY <1>1, <1>6 DEF Confirms, ChosenIsTaken, Taken
  <2>3. InPlay' = {w}
    BY <1>6 DEF Confirms, InPlay, Taken
  <2>4. job'.status = "assigned" /\ job'.marks = job.marks /\ job.status = "open"
    BY <1>6 DEF Confirms, Jobs
  <2> QED
    BY <2>1, <2>2, <2>3, <2>4 DEF InPlay, Chosen, Handshake!Confirm
<1>7. ASSUME NEW w \in Workers, Accepted(w)
      PROVE  Handshake!Choose(w) \/ UNCHANGED <<job.status, InPlay, Chosen, job.marks>>
  <2>1. CASE apps[w] \in Taken
    <3>1. apps[w] = "accepted"
      BY <1>7, <2>1 DEF Accepted, RowsInv, Taken
    <3>2. apps' = apps
      BY <1>7, <3>1 DEF Accepted
    <3> QED
      BY <1>7, <3>2, <1>4 DEF Accepted
  <2>2. CASE apps[w] \notin Taken
    <3>1. \A v \in Workers : apps[v] \notin Taken
      BY <1>7, <2>2 DEF Accepted, RowsInv, Taken
    <3>2. Chosen = None
      BY <1>1, <3>1 DEF ChosenIsTaken
    <3>3. Chosen' = w
      BY <1>1, <1>7 DEF Accepted, ChosenIsTaken, Taken
    <3>4. InPlay' = InPlay \cup {w}
      BY <1>7 DEF Accepted, InPlay, Taken
    <3> QED
      BY <1>7, <3>2, <3>3, <3>4 DEF Accepted, InPlay, Chosen, Handshake!Choose
  <2> QED
    BY <2>1, <2>2
<1>8. ASSUME NEW w \in Workers, Rejected(w) PROVE Handshake!Leave(w)
  <2>1. InPlay' = InPlay \ {w}
    BY <1>8 DEF Rejected, InPlay, Taken
  <2>2. \A v \in Workers : apps'[v] \in Taken <=> (apps[v] \in Taken /\ v # w)
    BY <1>8 DEF Rejected, Taken
  <2>3. Chosen' = IF Chosen = w THEN None ELSE Chosen
    <3>1. CASE apps[w] \in Taken
      <4>1. Chosen = w
        BY <1>1, <3>1 DEF ChosenIsTaken
      <4>2. \A v \in Workers : apps'[v] \notin Taken
        BY <2>2, <3>1 DEF RowsInv
      <4>3. Chosen' = None
        BY <1>1, <4>2 DEF ChosenIsTaken
      <4> QED
        BY <4>1, <4>3
    <3>2. CASE apps[w] \notin Taken
      <4>1. Chosen' = Chosen
        BY <1>3, <2>2, <3>2
      <4>2. CASE \E v \in Workers : apps[v] \in Taken
        <5>1. PICK v \in Workers : apps[v] \in Taken
          BY <4>2
        <5>2. Chosen = v /\ v # w
          BY <1>1, <5>1, <3>2 DEF ChosenIsTaken
        <5> QED
          BY <4>1, <5>2
      <4>3. CASE \A v \in Workers : apps[v] \notin Taken
        <5>1. Chosen = None /\ w # None
          BY <1>1, <4>3 DEF ChosenIsTaken
        <5> QED
          BY <4>1, <5>1
      <4> QED
        BY <4>2, <4>3
    <3> QED
      BY <3>1, <3>2
  <2> QED
    BY <1>8, <2>1, <2>3 DEF Rejected, InPlay, Chosen, Handshake!Leave
<1>9. Starts => Handshake!Start
  <2> SUFFICES ASSUME Starts PROVE Handshake!Start
    OBVIOUS
  <2>1. job'.status = "in_progress" /\ job'.marks = job.marks /\ job.status = "assigned"
    BY DEF Starts, Jobs
  <2>2. InPlay' = InPlay /\ Chosen' = Chosen
    BY <1>4 DEF Starts
  <2> QED
    BY <2>1, <2>2 DEF InPlay, Chosen, Handshake!Start
<1>10. ASSUME NEW side \in Sides, Marks(side) PROVE Handshake!Mark(side)
  <2>1. /\ job.status = "in_progress" /\ side \notin job.marks
        /\ job'.marks = job.marks \cup {side}
        /\ job'.status = IF job'.marks = Sides THEN "completed" ELSE job.status
    BY <1>10 DEF Marks, Jobs
  <2>2. InPlay' = InPlay /\ Chosen' = Chosen
    BY <1>4, <1>10 DEF Marks
  <2>3. Handshake!Sides = Sides
    BY DEF Handshake!Sides, Sides
  <2> QED
    BY <2>1, <2>2, <2>3 DEF InPlay, Chosen, Handshake!Mark
<1>11. Deletes => UNCHANGED <<job.status, InPlay, Chosen, job.marks>>
  BY <1>4 DEF Deletes, Jobs
<1>12. UNCHANGED rows => UNCHANGED <<job.status, InPlay, Chosen, job.marks>>
  BY <1>4 DEF rows
<1>13. Handshake!Sides = Sides
  BY DEF Handshake!Sides, Sides
<1>14. CASE \E w \in Workers : Applies(w) \/ Confirms(w) \/ Accepted(w) \/ Rejected(w)
  BY <1>14, <1>2, <1>5, <1>6, <1>7, <1>8 DEF Handshake!Next
<1>15. CASE Starts \/ Deletes \/ UNCHANGED rows
  BY <1>15, <1>2, <1>9, <1>11, <1>12 DEF Handshake!Next
<1>16. CASE \E side \in Sides : Marks(side)
  BY <1>16, <1>10, <1>13 DEF Handshake!Next
<1> QED
  BY <1>14, <1>15, <1>16 DEF RowStep

(* Whatever the pages send, however late, and whatever the others do at    *)
(* their API clients, the job goes through the handshake (JobHandshake)    *)
(* and through nothing else.                                               *)
THEOREM PagesDriveTheHandshake == Spec => ImplementsHandshake
<1>1. Init => Handshake!Init
  <2> SUFFICES ASSUME Init PROVE Handshake!Init
    OBVIOUS
  <2>1. \A w \in Workers : apps[w] \notin {"pending"} \cup Taken
    BY DEF Init, Taken
  <2> QED
    BY <2>1 DEF Init, Handshake!Init, NewJob
<1>2. Init => RowsInv
  BY DEF Init, RowsInv, Taken
<1>3. ShapeInv /\ RowsInv /\ [Next]_vars => RowsInv' /\ [Handshake!Next]_Handshake!vars
  BY NextIsRowStep, RowsInvStep, RowStepIsHandshake, TypesApart DEF ShapeInv
<1> QED
  BY <1>1, <1>2, <1>3, ShapeInit, ShapeStep, PTL DEF Spec, ImplementsHandshake, Handshake!Spec

-----------------------------------------------------------------------------
(* What the pages are told of their own mutations is so, and stays so.     *)

(* The answers on their way, and what the apply dialogs have heard.        *)
AnswersTrue ==
    \A a \in act : /\ (a.op = "apply" /\ a.phase \in {"ok", "refused"}) => apps[a.user] # "none"
                   /\ a.phase = "closed" => job.status # "open"
DialogsTrue == \A w \in Workers : applied[w] => apps[w] # "none"

(* The page of a worker who was turned away is told, or will be.           *)
ClosedTo(w) == <<"job", w>> \in due \/ jobOf[w] = None \/ jobOf[w].status # "open"
TurnedAwayTrue == \A w \in turnedAway : job.status # "open" /\ ClosedTo(w)

HeardInv == AnswersTrue /\ DialogsTrue /\ TurnedAwayTrue

LEMMA HeardInit == Init => HeardInv
BY DEF Init, HeardInv, AnswersTrue, DialogsTrue, TurnedAwayTrue

(* What does not concern the pages of this step, the rows do not undo.     *)
LEMMA HeardLasts ==
    ASSUME ShapeInv, HeardInv, RowStep
    PROVE  /\ act' \subseteq act => AnswersTrue'
           /\ (\A w \in Workers : applied'[w] => applied[w]) => DialogsTrue'
           /\ (turnedAway' \subseteq turnedAway /\ UNCHANGED jobOf
                 /\ (\A w \in Workers : <<"job", w>> \in due => <<"job", w>> \in due')) => TurnedAwayTrue'
<1> USE TypesApart, RowsLast DEF ShapeInv, HeardInv
<1>1. act' \subseteq act => AnswersTrue'
  <2> SUFFICES ASSUME act' \subseteq act, NEW a \in act'
               PROVE  /\ (a.op = "apply" /\ a.phase \in {"ok", "refused"}) => apps'[a.user] # "none"
                      /\ a.phase = "closed" => job'.status # "open"
    BY DEF AnswersTrue
  <2>1. a \in act
    OBVIOUS
  <2>2. a.op = "apply" => a.user \in Workers
    BY <2>1 DEF ActsFit, Fits, PageTypes, Mutation, Users
  <2> QED
    BY <2>1, <2>2 DEF AnswersTrue
<1>2. (\A w \in Workers : applied'[w] => applied[w]) => DialogsTrue'
  BY DEF DialogsTrue
<1>3. (turnedAway' \subseteq turnedAway /\ UNCHANGED jobOf
         /\ (\A w \in Workers : <<"job", w>> \in due => <<"job", w>> \in due')) => TurnedAwayTrue'
  BY DEF TurnedAwayTrue, ClosedTo, PageTypes
<1> QED
  BY <1>1, <1>2, <1>3

LEMMA HeardStep == ShapeInv /\ HeardInv /\ [Next]_vars => HeardInv'
<1> SUFFICES ASSUME ShapeInv, HeardInv, [Next]_vars PROVE HeardInv'
  OBVIOUS
<1>0. RowStep
  BY NextIsRowStep DEF ShapeInv
<1>1. ASSUME act' \subseteq act, turnedAway' \subseteq turnedAway, UNCHANGED jobOf,
             \A w \in Workers : applied'[w] => applied[w],
             \A w \in Workers : <<"job", w>> \in due => <<"job", w>> \in due'
      PROVE  HeardInv'
  BY <1>0, <1>1, HeardLasts DEF HeardInv
<1>2. UNCHANGED <<jobOf, act, applied, turnedAway, due>> => HeardInv'
  BY <1>1
<1>3. ASSUME NEW u \in Browsing, NEW p, Open(u, p) PROVE HeardInv'
  BY <1>1, <1>3 DEF Open
<1>4. ASSUME NEW u \in Browsing, NEW op \in Ops, Submit(u, op) PROVE HeardInv'
  <2>1. act' = act \cup {[user |-> u, op |-> op, phase |-> "sent"]}
    BY <1>4 DEF Submit
  <2>2. AnswersTrue'
    BY <2>1, <1>4 DEF Submit, HeardInv, AnswersTrue, rows
  <2>3. DialogsTrue' /\ TurnedAwayTrue'
    BY <1>4, <1>0, HeardLasts DEF Submit, forms
  <2> QED
    BY <2>2, <2>3 DEF HeardInv
<1>5. ASSUME NEW a \in act, Answer(a) PROVE HeardInv'
  <2>1. a \in Mutation /\ Fits(a.user, a.op)
    BY TypesApart DEF ShapeInv, PageTypes, ActsFit
  <2>2. PICK phase \in {"ok", "failed", "refused", "closed"} :
          /\ act' = (act \ {a}) \cup {[a EXCEPT !.phase = phase]}
          /\ \/ phase \in {"ok", "failed"} /\ Accepts(a.user, a.op) /\ Commit(a.user, a.op)
             \/ phase = "failed" /\ UNCHANGED rows
             \/ /\ a.op = "apply" /\ ~Accepts(a.user, a.op) /\ UNCHANGED rows
                /\ phase = IF job.status = "open" THEN "refused" ELSE "closed"
    BY <1>5 DEF Answer
  <2> DEFINE b == [a EXCEPT !.phase = phase]
  <2>3. b.phase = phase /\ b.op = a.op /\ b.user = a.user
    BY <2>1 DEF Mutation
  <2>4. a.op = "apply" => a.user \in Workers
    BY <2>1 DEF Fits, Mutation, Users
  <2>5. (a.op = "apply" /\ phase \in {"ok", "refused"}) => apps'[a.user] # "none"
    <3>1. CASE a.op = "apply" /\ phase = "ok"
      <4>1. Commit(a.user, a.op)
        BY <2>2, <3>1
      <4>2. apps' = [apps EXCEPT ![a.user] = "pending"]
        BY <4>1, <3>1 DEF Commit
      <4> QED
        BY <4>2, <2>4, <3>1, TypesApart DEF ShapeInv, RowsType, Lists
    <3>2. CASE a.op = "apply" /\ phase = "refused"
      <4>1. ~Accepts(a.user, a.op) /\ job.status = "open" /\ UNCHANGED rows
        BY <2>2, <3>2
      <4> QED
        BY <4>1, <3>2 DEF Accepts, MayApply, rows
    <3> QED
      BY <3>1, <3>2
  <2>6. phase = "closed" => job'.status # "open"
    BY <2>2 DEF rows
  <2>7. \A c \in act : /\ (c.op = "apply" /\ c.phase \in {"ok", "refused"}) => apps'[c.user] # "none"
                       /\ c.phase = "closed" => job'.status # "open"
    <3> SUFFICES ASSUME NEW c \in act
                 PROVE  /\ (c.op = "apply" /\ c.phase \in {"ok", "refused"}) => apps'[c.user] # "none"
                        /\ c.phase = "closed" => job'.status # "open"
      OBVIOUS
    <3>1. c.op = "apply" => c.user \in Workers
      BY TypesApart DEF ShapeInv, PageTypes, Mutation, ActsFit, Fits, Users
    <3> QED
      BY <3>1, <1>0, RowsLast, TypesApart DEF ShapeInv, HeardInv, AnswersTrue
  <2>8. AnswersTrue'
    <3> HIDE DEF b
    <3>1. \A c \in act' : c \in act \/ c = b
      BY <2>2 DEF b
    <3> QED
      BY <3>1, <2>3, <2>5, <2>6, <2>7 DEF AnswersTrue
  <2>9. DialogsTrue' /\ TurnedAwayTrue'
    BY <1>5, <1>0, HeardLasts DEF Answer, forms
  <2> QED
    BY <2>8, <2>9 DEF HeardInv
<1>6. ASSUME NEW q \in Queries, Refetch(q) PROVE HeardInv'
  <2>1. AnswersTrue' /\ DialogsTrue'
    BY <1>6, <1>0, HeardLasts DEF Refetch
  <2>2. TurnedAwayTrue'
    <3> SUFFICES ASSUME NEW w \in turnedAway PROVE job'.status # "open" /\ ClosedTo(w)'
      BY <1>6 DEF Refetch, TurnedAwayTrue
    <3>1. w \in Workers /\ w \in Users /\ job.status # "open" /\ ClosedTo(w) /\ UNCHANGED job
      BY <1>6, TypesApart DEF ShapeInv, PageTypes, HeardInv, TurnedAwayTrue, Refetch, rows, Users
    <3>2. CASE q = <<"job", w>>
      <4>1. jobOf' = [jobOf EXCEPT ![w] = job]
        BY <1>6, <3>2 DEF Refetch
      <4>2. jobOf'[w] = job
        BY <4>1, <3>1, TypesApart DEF ShapeInv, CacheTypes
      <4> QED
        BY <4>2, <3>1 DEF ClosedTo
    <3>3. CASE q # <<"job", w>>
      <4>1. <<"job", w>> \in due => <<"job", w>> \in due'
        BY <1>6, <3>3 DEF Refetch
      <4>2. jobOf'[w] = jobOf[w]
        <5>1. CASE q[1] = "job"
          <6>1. q[2] # w
            BY <3>3, <5>1 DEF Queries
          <6>2. jobOf' = [jobOf EXCEPT ![q[2]] = job]
            BY <1>6, <5>1 DEF Refetch
          <6> QED
            BY <6>1, <6>2, <3>1, TypesApart DEF ShapeInv, CacheTypes
        <5>2. CASE q[1] # "job"
          BY <1>6, <5>2 DEF Refetch
        <5> QED
          BY <5>1, <5>2
      <4> QED
        BY <3>1, <4>1, <4>2 DEF ClosedTo
    <3> QED
      BY <3>2, <3>3
  <2> QED
    BY <2>1, <2>2 DEF HeardInv
<1>7. ASSUME NEW a \in act, Succeed(a) \/ Fail(a) PROVE HeardInv'
  <2>1. AnswersTrue'
    BY <1>7, <1>0, HeardLasts DEF Succeed, Fail
  <2>2. DialogsTrue'
    <3> SUFFICES ASSUME NEW w \in Workers, applied'[w] PROVE apps'[w] # "none"
      BY DEF DialogsTrue
    <3>1. UNCHANGED apps
      BY <1>7 DEF Succeed, Fail, rows
    <3>2. applied[w] \/ (a.user = w /\ a.op = "apply" /\ a.phase \in {"ok", "refused"})
      BY <1>7 DEF Succeed, Fail, HearsOfApplication
    <3> QED
      BY <3>1, <3>2 DEF HeardInv, DialogsTrue, AnswersTrue
  <2>3. TurnedAwayTrue'
    <3> SUFFICES ASSUME NEW w \in turnedAway' PROVE job'.status # "open" /\ ClosedTo(w)'
      BY DEF TurnedAwayTrue
    <3>1. UNCHANGED job /\ due \subseteq due'
      BY <1>7 DEF Succeed, Fail, rows
    <3>2. CASE w \in turnedAway
      <4>1. w \in Workers /\ w # Customer /\ w \in Users /\ job.status # "open" /\ ClosedTo(w)
        BY <3>2, TypesApart DEF ShapeInv, PageTypes, HeardInv, TurnedAwayTrue, Users
      <4>2. jobOf'[w] = jobOf[w]
        <5>1. Fail(a) => jobOf' = jobOf
          BY DEF Fail
        <5>2. CASE Succeed(a)
          <6>1. CASE a.op = "edit"
            BY <5>2, <6>1, <4>1, TypesApart DEF Succeed, ShapeInv, CacheTypes
          <6>2. CASE a.op = "delete"
            BY <5>2, <6>2, <4>1, TypesApart DEF Succeed, ShapeInv, CacheTypes
          <6>3. CASE a.op \notin {"edit", "delete"}
            BY <5>2, <6>3 DEF Succeed
          <6> QED
            BY <6>1, <6>2, <6>3
        <5> QED
          BY <1>7, <5>1, <5>2
      <4> QED
        BY <3>1, <4>1, <4>2 DEF ClosedTo
    <3>3. CASE w \notin turnedAway
      <4>1. a.phase = "closed" /\ w = a.user /\ <<"job", w>> \in due'
        BY <1>7, <3>3 DEF Succeed, Fail
      <4>2. job.status # "open"
        BY <4>1 DEF HeardInv, AnswersTrue
      <4> QED
        BY <3>1, <4>1, <4>2 DEF ClosedTo
    <3> QED
      BY <3>2, <3>3
  <2> QED
    BY <2>1, <2>2, <2>3 DEF HeardInv
<1>8. ASSUME UserStep PROVE HeardInv'
  <2>1. Type \/ CloseActionDialog \/ Reconnect \/ ConfirmAction => HeardInv'
    BY <1>1 DEF Type, CloseActionDialog, Reconnect, ConfirmAction, forms
  <2>2. \A w, s : OpenActionDialog(w, s) => HeardInv'
    BY <1>2 DEF OpenActionDialog, forms
  <2> QED
    BY <1>3, <1>4, <1>8, <2>1, <2>2 DEF UserStep
<1>9. Elsewhere => HeardInv'
  BY <1>2 DEF Elsewhere, forms
<1>10. ASSUME NEW d, AnswerDecision(d) \/ DecisionDone(d) \/ DecisionFailed(d) PROVE HeardInv'
  BY <1>1, <1>10 DEF AnswerDecision, DecisionDone, DecisionFailed, forms
<1>11. FetchList \/ AnswerList \/ ReceiveList => HeardInv'
  BY <1>1 DEF FetchList, AnswerList, ReceiveList, forms
<1>12. UNCHANGED vars => HeardInv'
  BY <1>2 DEF vars, forms
<1> QED
  BY <1>5, <1>6, <1>7, <1>8, <1>9, <1>10, <1>11, <1>12 DEF Next, Settle

-----------------------------------------------------------------------------
(* The buttons of a page that is up to date.                               *)

LEMMA OffersAreExact ==
    ASSUME ShapeInv, HeardInv, NEW u \in Users, UpToDate(u), Shown(u),
           NEW op \in IF u = Customer THEN {"complete"} ELSE Ops \ {"edit", "delete"}
    PROVE  Offered(u, op) <=> Accepts(u, op)
<1>1. ~Pending(u, op) /\ page[u] = "detail" /\ jobOf[u] = job /\ jobOf[u] # None /\ ~jobOf[u].deleted
  BY DEF UpToDate, Shown, Pending
<1>2. CASE u = Customer
  <2>1. op = "complete"
    BY <1>2
  <2> QED
    BY <1>1, <1>2, <2>1 DEF Offered, CanComplete, Shown, Accepts, MayComplete
<1>3. CASE u # Customer
  <2>1. /\ u \in Workers /\ mine[u] = apps[u] /\ apps[u] \in ApplicationStatus /\ apps[u] # None
    BY <1>3, TypesApart DEF UpToDate, Users, ShapeInv, RowsType, Lists
  <2>2. applied[u] => apps[u] # "none"
    BY <2>1 DEF HeardInv, DialogsTrue
  <2>3. op \in {"apply", "confirm", "withdraw", "start", "complete"}
    BY <1>3 DEF Ops
  <2>4. CASE op = "apply"
    <3>1. Offered(u, op) <=> CanApply(u)
      BY <1>1, <1>3, <2>4 DEF Offered
    <3>2. CanApply(u) <=> job.status = "open" /\ apps[u] = "none" /\ ~applied[u]
      BY <1>1, <2>1 DEF CanApply, Shown, ApplyDialogOffers
    <3>3. Accepts(u, op) <=> job.status = "open" /\ apps[u] = "none"
      BY <2>4 DEF Accepts, MayApply
    <3> QED
      BY <3>1, <3>2, <3>3, <2>2
  <2>5. CASE op = "confirm"
    BY <1>1, <1>3, <2>1, <2>5 DEF Offered, Accepts, MayConfirm, CanConfirm, Shown
  <2>6. CASE op = "withdraw"
    BY <1>1, <1>3, <2>1, <2>6 DEF Offered, Accepts, MayWithdraw, CanWithdraw, Shown
  <2>7. CASE op = "start"
    BY <1>1, <1>3, <2>1, <2>7 DEF Offered, Accepts, MayStart, CanStart, Shown
  <2>8. CASE op = "complete"
    BY <1>1, <1>3, <2>1, <2>8 DEF Offered, Accepts, MayComplete, CanComplete, Shown
  <2> QED
    BY <2>3, <2>4, <2>5, <2>6, <2>7, <2>8
<1> QED
  BY <1>2, <1>3

(* A page that is up to date offers exactly what the server accepts, and   *)
(* the page of a worker who was turned away because the job closed takes   *)
(* its button back (JobDetailPage, ApplyToJobDialog, useApplyToJob).       *)
THEOREM OffersMatch == Spec => []OffersMatchTheServer
<1>1. ShapeInv /\ HeardInv => OffersMatchTheServer
  <2> SUFFICES ASSUME ShapeInv, HeardInv PROVE UpToDateOffersAreExact /\ ApplySelfCorrects
    BY DEF OffersMatchTheServer
  <2>1. UpToDateOffersAreExact
    BY OffersAreExact DEF UpToDateOffersAreExact
  <2>2. ApplySelfCorrects
    BY DEF HeardInv, TurnedAwayTrue, ClosedTo, ApplySelfCorrects, CanApply, Shown
  <2> QED
    BY <2>1, <2>2
<1> QED
  BY ShapeInit, ShapeStep, HeardInit, HeardStep, <1>1, PTL DEF Spec

-----------------------------------------------------------------------------
(* The list of applications and the decisions under way.                   *)

(* A list that shows no decision the server did not take, and no longer    *)
(* the old status of those the panel was told.                             *)
ListTrue(l) ==
    /\ \A w \in told : l[w] # "pending"
    /\ \A w \in Workers : l[w] \in Decided => apps[w] \in Decided

ToldIsDecided == \A w \in told : apps[w] \in Decided
DoneIsDecided == \A d \in decisions : d.phase = "ok" => apps[d.w] \in Decided

(* Decisions start from a list; a list is not lost.                        *)
ListIsThere ==
    /\ dialog # None => list # None
    /\ \A d \in decisions : d.previous # None /\ list # None

(* A clean fetch met no decision.                                          *)
CleanFetch ==
    /\ listFetch.phase = "answered" => listFetch.data # None
    /\ (listFetch.phase # "idle" /\ listFetch.clean) => decisions = {}
    /\ (listFetch.phase = "answered" /\ listFetch.clean) => ListTrue(listFetch.data)

(* The list, or what it will be rolled back to, is true.                   *)
Uncrossed ==
    /\ \A d, e \in decisions : d = e
    /\ (list # None /\ decisions = {}) => ListTrue(list)
    /\ \A d \in decisions : ListTrue(d.previous) /\ list = [d.previous EXCEPT ![d.w] = d.status]

DecisionsInv ==
    /\ ToldIsDecided /\ DoneIsDecided /\ ListIsThere /\ CleanFetch
    /\ ~crossed => Uncrossed

LEMMA DecisionsInit == Init => DecisionsInv
BY DEF Init, NoFetch, DecisionsInv, ToldIsDecided, DoneIsDecided, ListIsThere, CleanFetch, Uncrossed

LEMMA ListsStayTrue ==
    ASSUME ShapeInv, RowStep, told' = told, NEW l
    PROVE  ListTrue(l) => ListTrue(l)'
BY RowsLast, TypesApart DEF ShapeInv, ListTrue

LEMMA DecisionTypes ==
    ASSUME ShapeInv, NEW d \in decisions
    PROVE  /\ d.w \in Workers /\ d.status \in Decided /\ d.status # "pending"
           /\ d.previous \in Lists \cup {None}
BY TypesApart DEF ShapeInv, PanelTypes, Decision, Decided

(* Steps that leave the list and its fetch alone: the decisions under way  *)
(* keep their meaning, and what is answered was done.                      *)
SameDecisions ==
    /\ \A e \in decisions' : \E d \in decisions :
          /\ e.w = d.w /\ e.status = d.status /\ e.previous = d.previous
          /\ e.phase = "ok" => apps'[d.w] \in Decided
    /\ (\A d, e \in decisions : d = e) => \A d, e \in decisions' : d = e
    /\ decisions = {} <=> decisions' = {}

LEMMA DecisionsLast ==
    ASSUME ShapeInv, DecisionsInv, RowStep, UNCHANGED <<list, listFetch, told, crossed>>,
           dialog' # None => list # None, SameDecisions
    PROVE  DecisionsInv'
<1> USE DEF DecisionsInv
<1>1. ToldIsDecided'
  BY RowsLast, TypesApart DEF ShapeInv, PanelTypes, ToldIsDecided
<1>2. DoneIsDecided'
  BY DEF DoneIsDecided, SameDecisions
<1>3. ListIsThere'
  BY DEF ListIsThere, SameDecisions
<1>4. CleanFetch'
  <2>1. PICK data : data = listFetch.data
    OBVIOUS
  <2>2. ListTrue(data) => ListTrue(data)'
    BY ListsStayTrue
  <2>3. (listFetch.phase = "answered" /\ listFetch.clean) => ListTrue(data)'
    BY <2>1, <2>2 DEF CleanFetch
  <2>4. listFetch' = listFetch
    OBVIOUS
  <2>5. ListTrue(data)' => ListTrue(listFetch.data)'
    BY <2>1, <2>4 DEF ListTrue
  <2> QED
    BY <2>3, <2>4, <2>5 DEF CleanFetch, SameDecisions
<1>5. ASSUME ~crossed' PROVE Uncrossed'
  <2>1. Uncrossed
    BY <1>5
  <2>2. (list' # None /\ decisions' = {}) => ListTrue(list)'
    <3>1. PICK l : l = list
      OBVIOUS
    <3>2. ListTrue(l) => ListTrue(l)'
      BY ListsStayTrue
    <3>3. ListTrue(l)' => ListTrue(list)'
      BY <3>1 DEF ListTrue
    <3> QED
      BY <2>1, <3>1, <3>2, <3>3 DEF Uncrossed, SameDecisions
  <2>3. ASSUME NEW e \in decisions'
        PROVE  ListTrue(e.previous)' /\ list' = [e.previous EXCEPT ![e.w] = e.status]
    <3>1. PICK d \in decisions : e.w = d.w /\ e.status = d.status /\ e.previous = d.previous
      BY DEF SameDecisions
    <3>2. ListTrue(d.previous) /\ list = [d.previous EXCEPT ![d.w] = d.status]
      BY <2>1 DEF Uncrossed
    <3>3. ListTrue(d.previous)'
      BY <3>2, ListsStayTrue
    <3>4. ListTrue(e.previous)'
      BY <3>1, <3>3
    <3> QED
      BY <3>1, <3>2, <3>4
  <2> QED
    BY <2>1, <2>2, <2>3 DEF Uncrossed, SameDecisions
<1> QED
  BY <1>1, <1>2, <1>3, <1>4, <1>5

LEMMA QuietSteps ==
    ASSUME ShapeInv, DecisionsInv, RowStep
    PROVE  /\ UNCHANGED <<lists, decisions>> /\ (dialog' # None => list # None) => DecisionsInv'
           /\ \A u \in Browsing : \A p : Open(u, p) => DecisionsInv'
           /\ \A d \in decisions : AnswerDecision(d) => DecisionsInv'
<1>1. ASSUME UNCHANGED <<lists, decisions>>, dialog' # None => list # None PROVE DecisionsInv'
  <2>1. SameDecisions
    <3>1. \A d \in decisions : d.phase = "ok" => apps'[d.w] \in Decided
      BY DecisionTypes, RowsLast, TypesApart DEF ShapeInv, DecisionsInv, DoneIsDecided
    <3> QED
      BY <1>1, <3>1 DEF SameDecisions
  <2> QED
    BY <1>1, <2>1, DecisionsLast DEF lists
<1>2. ASSUME NEW u \in Browsing, NEW p, Open(u, p) PROVE DecisionsInv'
  <2>1. CASE u = Customer
    <3> DEFINE unheard(d) == [d EXCEPT !.heard = FALSE]
    <3>1. decisions' = {unheard(d) : d \in decisions} /\ dialog' = None
      BY <1>2, <2>1 DEF Open
    <3>2. \A d \in decisions : /\ unheard(d).w = d.w /\ unheard(d).status = d.status
                               /\ unheard(d).previous = d.previous /\ unheard(d).phase = d.phase
      BY TypesApart DEF ShapeInv, PanelTypes, Decision
    <3>3. \A d \in decisions : d.phase = "ok" => apps'[d.w] \in Decided
      BY DecisionTypes, RowsLast, TypesApart DEF ShapeInv, DecisionsInv, DoneIsDecided
    <3>4. SameDecisions
      <4> HIDE DEF unheard
      <4>1. \A e \in decisions' : \E d \in decisions : e = unheard(d)
        BY <3>1
      <4>2. \A d \in decisions : unheard(d) \in decisions'
        BY <3>1
      <4>3. \A e \in decisions' : \E d \in decisions :
               /\ e.w = d.w /\ e.status = d.status /\ e.previous = d.previous
               /\ e.phase = "ok" => apps'[d.w] \in Decided
        BY <4>1, <3>2, <3>3
      <4> QED
        BY <4>1, <4>2, <4>3 DEF SameDecisions
    <3> QED
      BY <1>2, <3>1, <3>4, DecisionsLast DEF Open, lists
  <2>2. CASE u # Customer
    BY <1>1, <1>2, <2>2 DEF Open, panel, DecisionsInv, ListIsThere
  <2> QED
    BY <2>1, <2>2
<1>3. ASSUME NEW d \in decisions, AnswerDecision(d) PROVE DecisionsInv'
  <2>1. PICK phase \in {"ok", "failed"} :
          /\ decisions' = (decisions \ {d}) \cup {[d EXCEPT !.phase = phase]}
          /\ \/ AcceptsDecision(d.w, d.status) /\ CommitDecision(d.w, d.status)
             \/ phase = "failed" /\ UNCHANGED rows
    BY <1>3 DEF AnswerDecision
  <2> DEFINE f == [d EXCEPT !.phase = phase]
  <2>2. f.w = d.w /\ f.status = d.status /\ f.previous = d.previous /\ f.phase = phase
    BY TypesApart DEF ShapeInv, PanelTypes, Decision
  <2>3. phase = "ok" => apps'[d.w] \in Decided
    <3> SUFFICES ASSUME phase = "ok" PROVE apps'[d.w] \in Decided
      OBVIOUS
    <3>1. apps' = [apps EXCEPT ![d.w] = d.status]
      BY <2>1 DEF CommitDecision
    <3> QED
      BY <3>1, DecisionTypes, TypesApart DEF ShapeInv, RowsType, Lists
  <2>4. \A e \in decisions : e.phase = "ok" => apps'[e.w] \in Decided
    BY DecisionTypes, RowsLast, TypesApart DEF ShapeInv, DecisionsInv, DoneIsDecided
  <2>5. SameDecisions
    <3> HIDE DEF f
    <3>1. decisions' = (decisions \ {d}) \cup {f}
      BY <2>1 DEF f
    <3> QED
      BY <3>1, <2>2, <2>3, <2>4 DEF SameDecisions
  <2> QED
    BY <1>3, <2>5, DecisionsLast DEF AnswerDecision, lists, DecisionsInv, ListIsThere
<1> QED
  BY <1>1, <1>2, <1>3

LEMMA ListSteps ==
    ASSUME ShapeInv, DecisionsInv, FetchList \/ AnswerList \/ ReceiveList
    PROVE  DecisionsInv'
<1> USE TypesApart DEF ShapeInv, DecisionsInv, rows, panel
<1>1. UNCHANGED <<job, apps, told, dialog, decisions>>
  BY DEF FetchList, AnswerList, ReceiveList
<1>2. ToldIsDecided' /\ DoneIsDecided'
  BY <1>1 DEF ToldIsDecided, DoneIsDecided
<1>3. ASSUME NEW l PROVE ListTrue(l)' <=> ListTrue(l)
  BY <1>1 DEF ListTrue
<1>4. ASSUME UNCHANGED <<list, crossed>> PROVE (~crossed' => Uncrossed') /\ ListIsThere'
  BY <1>1, <1>4 DEF ListIsThere, Uncrossed, ListTrue
<1>5. CASE FetchList
  <2>1. listFetch' = [phase |-> "sent", data |-> None, clean |-> decisions = {}]
    BY <1>5 DEF FetchList
  <2>2. CleanFetch'
    BY <2>1, <1>1 DEF CleanFetch
  <2> QED
    BY <1>2, <1>4, <1>5, <2>2 DEF FetchList
<1>6. CASE AnswerList
  <2>1. /\ listFetch.phase = "sent" /\ listFetch'.phase = "answered"
        /\ listFetch'.data = apps /\ listFetch'.clean = listFetch.clean
    BY <1>6 DEF AnswerList, CacheTypes, ListFetch
  <2>2. ListTrue(apps)'
    BY <1>1 DEF ListTrue, ToldIsDecided, Decided
  <2>3. apps # None
    BY DEF RowsType
  <2>4. ListTrue(listFetch.data)'
    BY <2>1, <2>2, <1>1 DEF ListTrue
  <2>5. CleanFetch'
    BY <2>1, <2>3, <2>4, <1>1 DEF CleanFetch
  <2> QED
    BY <1>2, <1>4, <1>6, <2>5 DEF AnswerList
<1>7. CASE ReceiveList
  <2>1. /\ listFetch.phase = "answered" /\ list' = listFetch.data
        /\ listFetch' = NoFetch /\ crossed' = ~listFetch.clean
    BY <1>7 DEF ReceiveList
  <2>2. CleanFetch'
    BY <2>1 DEF CleanFetch, NoFetch
  <2>3. ListIsThere'
    BY <2>1, <1>1 DEF CleanFetch, ListIsThere
  <2>4. ~crossed' => Uncrossed'
    <3> SUFFICES ASSUME ~crossed' PROVE Uncrossed'
      OBVIOUS
    <3>1. listFetch.clean
      BY <2>1
    <3>2. decisions' = {} /\ ListTrue(listFetch.data)
      BY <2>1, <3>1, <1>1 DEF CleanFetch
    <3>3. ListTrue(list)'
      BY <2>1, <3>2, <1>1 DEF ListTrue
    <3> QED
      BY <3>2, <3>3 DEF Uncrossed
  <2> QED
    BY <1>2, <2>2, <2>3, <2>4
<1> QED
  BY <1>5, <1>6, <1>7

LEMMA ConfirmStep == ShapeInv /\ DecisionsInv /\ ConfirmAction => DecisionsInv'
<1> SUFFICES ASSUME ShapeInv, DecisionsInv, ConfirmAction PROVE DecisionsInv'
  OBVIOUS
<1> USE TypesApart DEF ShapeInv, DecisionsInv, rows
<1> DEFINE new == [phase |-> "sent", w |-> dialog.w, status |-> dialog.status,
                   previous |-> list, heard |-> TRUE]
<1>1. /\ UNCHANGED <<job, apps, told, dialog>> /\ dialog # None
      /\ decisions' = decisions \cup {new}
      /\ listFetch' = [listFetch EXCEPT !.clean = (listFetch = NoFetch)]
      /\ crossed' = (crossed \/ listFetch # NoFetch \/ decisions # {})
  BY DEF ConfirmAction
<1>2. list \in Lists /\ list # None
  BY <1>1 DEF ListIsThere, CacheTypes
<1>3. dialog.w \in Workers /\ dialog.status \in {"accepted", "rejected"}
  BY <1>1 DEF PanelTypes
<1>4. list' = [list EXCEPT ![dialog.w] = dialog.status] /\ list' \in Lists /\ list' # None
  BY <1>2, <1>3 DEF ConfirmAction, Lists, ApplicationStatus
<1>5. ToldIsDecided' /\ DoneIsDecided'
  BY <1>1 DEF ToldIsDecided, DoneIsDecided
<1>6. ListIsThere'
  BY <1>1, <1>2, <1>4 DEF ListIsThere
<1>7. CleanFetch'
  <2>1. /\ listFetch'.phase = listFetch.phase /\ listFetch'.data = listFetch.data
        /\ listFetch'.clean => listFetch = NoFetch
    BY <1>1 DEF CacheTypes, ListFetch
  <2> QED
    BY <2>1 DEF CleanFetch, NoFetch
<1>8. ~crossed' => Uncrossed'
  <2> SUFFICES ASSUME ~crossed' PROVE Uncrossed'
    OBVIOUS
  <2>1. ~crossed /\ decisions = {} /\ decisions' = {new}
    BY <1>1
  <2>2. PICK l : l = list
    OBVIOUS
  <2>3. ListTrue(l)
    BY <2>1, <2>2, <1>2 DEF Uncrossed, ListTrue
  <2>4. ListTrue(l)'
    BY <2>3, <1>1 DEF ListTrue
  <2>5. ASSUME NEW d \in decisions'
        PROVE  ListTrue(d.previous)' /\ list' = [d.previous EXCEPT ![d.w] = d.status]
    <3>1. d.previous = l /\ d.w = dialog.w /\ d.status = dialog.status
      BY <2>1, <2>2
    <3>2. ListTrue(d.previous)'
      BY <3>1, <2>4
    <3> QED
      BY <3>1, <3>2, <2>2, <1>4
  <2> QED
    BY <2>1, <2>5 DEF Uncrossed
<1> QED
  BY <1>5, <1>6, <1>7, <1>8

LEMMA DoneStep ==
    ASSUME ShapeInv, DecisionsInv, NEW d \in decisions, DecisionDone(d)
    PROVE  DecisionsInv'
<1> USE TypesApart, DecisionTypes DEF ShapeInv, DecisionsInv, rows
<1>1. /\ UNCHANGED <<job, apps, listFetch, crossed>> /\ d.phase = "ok"
      /\ told' = told \cup {d.w} /\ decisions' = decisions \ {d}
      /\ dialog' # None => dialog # None
  BY DEF DecisionDone
<1>2. list \in Lists /\ d.previous \in Lists
  BY DEF ListIsThere, CacheTypes
<1>3. list' = [list EXCEPT ![d.w] = d.status] /\ list' # None
  <2>1. list' = [list EXCEPT ![d.w] = d.status]
    BY <1>2 DEF DecisionDone
  <2>2. list' \in Lists
    BY <1>2, <2>1 DEF Lists, ApplicationStatus, Decided
  <2> QED
    BY <2>1, <2>2
<1>4. ToldIsDecided' /\ DoneIsDecided'
  BY <1>1 DEF ToldIsDecided, DoneIsDecided
<1>5. ListIsThere'
  BY <1>1, <1>3 DEF ListIsThere
<1>6. CleanFetch'
  BY <1>1 DEF CleanFetch
<1>7. ~crossed' => Uncrossed'
  <2> SUFFICES ASSUME ~crossed PROVE Uncrossed'
    BY <1>1
  <2>1. /\ ListTrue(d.previous) /\ list = [d.previous EXCEPT ![d.w] = d.status]
        /\ decisions' = {}
    BY <1>1 DEF Uncrossed
  <2>2. \A w \in Workers : list'[w] = IF w = d.w THEN d.status ELSE d.previous[w]
    BY <1>2, <1>3, <2>1 DEF Lists
  <2>3. told \subseteq Workers /\ apps[d.w] \in Decided
    BY <1>1 DEF PanelTypes, DoneIsDecided
  <2>4. ListTrue(list)'
    BY <1>1, <2>1, <2>2, <2>3 DEF ListTrue
  <2> QED
    BY <2>1, <2>4 DEF Uncrossed
<1> QED
  BY <1>4, <1>5, <1>6, <1>7

LEMMA FailedStep ==
    ASSUME ShapeInv, DecisionsInv, NEW d \in decisions, DecisionFailed(d)
    PROVE  DecisionsInv'
<1> USE DEF DecisionsInv, rows
<1>1. /\ UNCHANGED <<job, apps, told, listFetch, crossed, dialog>>
      /\ decisions' = decisions \ {d} /\ list' = d.previous /\ list' # None
  BY DEF DecisionFailed, ListIsThere
<1>2. ToldIsDecided' /\ DoneIsDecided'
  BY <1>1 DEF ToldIsDecided, DoneIsDecided
<1>3. ListIsThere'
  BY <1>1 DEF ListIsThere
<1>4. CleanFetch'
  BY <1>1 DEF CleanFetch
<1>5. ~crossed' => Uncrossed'
  <2> SUFFICES ASSUME ~crossed PROVE Uncrossed'
    BY <1>1
  <2>1. ListTrue(d.previous) /\ decisions' = {}
    BY <1>1 DEF Uncrossed
  <2>2. ListTrue(list)'
    BY <1>1, <2>1 DEF ListTrue
  <2> QED
    BY <2>1, <2>2 DEF Uncrossed
<1> QED
  BY <1>2, <1>3, <1>4, <1>5

LEMMA DecisionsStep == ShapeInv /\ DecisionsInv /\ [Next]_vars => DecisionsInv'
<1> SUFFICES ASSUME ShapeInv, DecisionsInv, [Next]_vars PROVE DecisionsInv'
  OBVIOUS
<1>0. RowStep
  BY NextIsRowStep DEF ShapeInv
<1>1. ASSUME UNCHANGED <<lists, decisions>>, dialog' = None \/ UNCHANGED dialog \/ list # None
      PROVE  DecisionsInv'
  BY <1>0, <1>1, QuietSteps DEF DecisionsInv, ListIsThere
<1>2. Elsewhere \/ UNCHANGED vars => DecisionsInv'
  BY <1>1 DEF Elsewhere, vars, panel
<1>3. \A a : Answer(a) \/ Succeed(a) \/ Fail(a) => DecisionsInv'
  BY <1>1 DEF Answer, Succeed, Fail, panel
<1>4. \A q \in Queries : Refetch(q) => DecisionsInv'
  BY <1>1 DEF Refetch, panel
<1>5. \A u, op : Submit(u, op) => DecisionsInv'
  BY <1>1 DEF Submit, panel
<1>6. Type \/ CloseActionDialog \/ Reconnect => DecisionsInv'
  BY <1>1 DEF Type, CloseActionDialog, Reconnect, panel
<1>7. \A w, s : OpenActionDialog(w, s) => DecisionsInv'
  BY <1>1 DEF OpenActionDialog, CanAct
<1>8. UserStep => DecisionsInv'
  BY <1>0, <1>5, <1>6, <1>7, QuietSteps, ConfirmStep DEF UserStep
<1>9. \A d \in decisions : AnswerDecision(d) \/ DecisionDone(d) \/ DecisionFailed(d) => DecisionsInv'
  BY <1>0, QuietSteps, DoneStep, FailedStep
<1>10. FetchList \/ AnswerList \/ ReceiveList => DecisionsInv'
  BY ListSteps
<1> QED
  BY <1>2, <1>3, <1>4, <1>8, <1>9, <1>10 DEF Next, Settle

(* An optimistic decision ends in the truth: unless a fetch or a second    *)
(* decision crossed it, the list shows no decision that was not taken, and *)
(* not the old status once the answer is in (useUpdateJobApplication).     *)
THEOREM OptimismEndsInTruth == Spec => []DecisionsEndInTruth
<1>1. ShapeInv /\ DecisionsInv => DecisionsEndInTruth
  <2> SUFFICES ASSUME ShapeInv, DecisionsInv, ~crossed, list # None
               PROVE  /\ \A w \in told : list[w] # "pending"
                      /\ decisions = {} => \A w \in Workers :
                            list[w] \in Taken \cup {"rejected"} => apps[w] \notin {"none", "pending"}
    BY DEF DecisionsEndInTruth
  <2>1. Uncrossed /\ told \subseteq Workers
    BY TypesApart DEF DecisionsInv, ShapeInv, PanelTypes
  <2>2. CASE decisions = {}
    BY <2>1, <2>2 DEF Uncrossed, ListTrue, Decided, Taken
  <2>3. CASE decisions # {}
    <3>1. PICK d \in decisions : TRUE
      BY <2>3
    <3>2. ListTrue(d.previous) /\ list = [d.previous EXCEPT ![d.w] = d.status]
      BY <2>1 DEF Uncrossed
    <3>3. d.status # "pending" /\ d.previous \in Lists
      BY DecisionTypes DEF DecisionsInv, ListIsThere
    <3> QED
      BY <2>1, <2>3, <3>2, <3>3 DEF ListTrue, Lists
  <2> QED
    BY <2>2, <2>3
<1> QED
  BY ShapeInit, ShapeStep, DecisionsInit, DecisionsStep, <1>1, PTL DEF Spec
=============================================================================
