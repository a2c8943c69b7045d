--------------------------- MODULE AdminDeskProofs ---------------------------
(***************************************************************************)
(* Theorems about AdminDesk, for any number of admins, subjects, decisions *)
(* and failures.                                                           *)
(***************************************************************************)
EXTENDS AdminDesk, SequenceTheorems, TLAPS

USE DeskAssumption

-----------------------------------------------------------------------------
(* The shape of everything.                                                *)

DeskOps == Settling \cup Clearing \cup {"reactivate"}
Phases == {"sent", "refused", "answered", "loaded", "halfway"} \cup Over

Call == [admin : Admins, op : DeskOps, subject : Subjects, phase : Phases, mounted : BOOLEAN]

(* Every decision is about a subject of its own kind.                      *)
Fits(call) ==
    /\ call.op \in {"suspend", "reactivate"} => call.subject \in Accounts
    /\ call.op \in {"approve", "reject", "verify"} => call.subject \in Workers
    /\ call.op \in {"keep", "remove"} => call.subject \in Reviews
    /\ call.op = "pay" => call.subject \in Billings

Data == {s \in [listed : SUBSET Subjects, settled : SUBSET Subjects, after : SUBSET Nat] :
            s.settled \subseteq s.listed} \cup {None}
Fetch == [phase : {"idle", "sent", "answered"}, answer : Data, clean : BOOLEAN]
Query == [data : Data, error : BOOLEAN, stale : BOOLEAN, missed : BOOLEAN, fetch : Fetch]

ServerType ==
    /\ settled \in [Subjects -> BOOLEAN] /\ pending \in [Subjects -> BOOLEAN]
    /\ log \in [Subjects -> SUBSET DOMAIN calls]
    /\ \A i \in Subjects : \A c \in log[i] : calls[c].subject = i

CallsType ==
    /\ calls \in Seq(Call) /\ Len(calls) <= MaxCalls
    /\ \A c \in DOMAIN calls : Fits(calls[c])

TabsType ==
    /\ view \in [Admins -> Views]
    /\ cache \in [Admins -> [Queries -> Query]]

DeskType == ServerType /\ CallsType /\ TabsType /\ faults \in 0 .. MaxFaults /\ moves \in 0 .. MaxMoves

-----------------------------------------------------------------------------
(* What the operators of QueryCache do to a query.                         *)

LEMMA QueryTypes ==
    ASSUME NEW q \in Query, NEW b \in BOOLEAN
    PROVE  /\ StartFetch(q, b) \in Query /\ Observed(q, b) \in Query
           /\ Invalidated(q, b) \in Query /\ Stale(q, b) \in Query
           /\ FetchFailed(q) \in Query
           /\ Received(q) \in Query
           /\ \A d \in Data : Answered(q, d) \in Query
<1>a. None \in Data /\ NoFetch \in Fetch
  BY DEF Data, NoFetch, Fetch
<1>1. ASSUME NEW v \in Query, NEW clean \in BOOLEAN PROVE StartFetch(v, clean) \in Query
  <2>1. [phase |-> "sent", answer |-> None, clean |-> clean] \in Fetch
    BY <1>a DEF Fetch
  <2> QED
    BY <2>1 DEF StartFetch, Query
<1>2. Observed(q, b) \in Query
  BY <1>1 DEF Observed
<1>3. Invalidated(q, b) \in Query
  BY <1>1 DEF Invalidated, Query
<1>4. Stale(q, b) \in Query
  BY DEF Stale, Query
<1>5. FetchFailed(q) \in Query
  BY <1>a DEF FetchFailed, Query
<1>6. Received(q) \in Query
  BY <1>a DEF Received, Query, Fetch
<1>7. ASSUME NEW d \in Data PROVE Answered(q, d) \in Query
  BY <1>7 DEF Answered, Query, Fetch
<1> QED
  BY <1>1, <1>2, <1>3, <1>4, <1>5, <1>6, <1>7

LEMMA NewQueryType == NewQuery \in Query
BY DEF NewQuery, NoFetch, Query, Fetch, Data

LEMMA SnapshotType ==
    ASSUME DeskType, NEW q \in Queries PROVE Snapshot(q) \in Data
<1> DEFINE listed == {i \in SubjectsOf(q) : Listed(q, i)}
           after == {c \in DOMAIN calls : /\ calls[c].subject \in SubjectsOf(q)
                                          /\ calls[c].phase \in {"answered", "ok"}}
<1>1. SubjectsOf(q) \subseteq Subjects
  BY DEF SubjectsOf, Queries, Subjects
<1>2. DOMAIN calls \subseteq Nat
  BY LenProperties DEF DeskType, CallsType
<1>3. listed \subseteq Subjects /\ {i \in listed : settled[i]} \subseteq listed /\ after \subseteq Nat
  BY <1>1, <1>2
<1>4. Snapshot(q) = [listed |-> listed, settled |-> {i \in listed : settled[i]}, after |-> after]
  BY DEF Snapshot
<1> HIDE DEF listed, after
<1> QED
  BY <1>3, <1>4 DEF Data

-----------------------------------------------------------------------------
(* How the sequence of calls changes.                                      *)

LEMMA FunctionIsSeq ==
    ASSUME NEW S, NEW n \in Nat, NEW f \in [1 .. n -> S]
    PROVE  f \in Seq(S)
OBVIOUS

(* A decision is sent.                                                     *)
LEMMA Sent ==
    ASSUME CallsType, NEW a \in Admins, NEW op \in DeskOps, NEW i \in Subjects,
           NEW mounted \in BOOLEAN, Request(a, op, i, mounted), Fits([op |-> op, subject |-> i])
    PROVE  LET n == Len(calls) + 1
           IN  /\ CallsType' /\ DOMAIN calls = 1 .. n - 1 /\ DOMAIN calls' = 1 .. n /\ n \in Nat
               /\ \A d \in DOMAIN calls : calls'[d] = calls[d]
               /\ calls'[n].admin = a /\ calls'[n].op = op /\ calls'[n].subject = i
               /\ calls'[n].phase = "sent" /\ calls'[n].mounted = mounted
<1> DEFINE call == [admin |-> a, op |-> op, subject |-> i, phase |-> "sent", mounted |-> mounted]
           n == Len(calls) + 1
<1>1. calls' = Append(calls, call) /\ Len(calls) < MaxCalls /\ calls \in Seq(Call)
  BY DEF Request, CallsType
<1>2. call \in Call
  BY DEF Call, Phases
<1>3. Len(calls) \in Nat /\ DOMAIN calls = 1 .. Len(calls)
  BY <1>1, LenProperties
<1>4. /\ calls' \in Seq(Call) /\ Len(calls') = n /\ calls'[n] = call
      /\ \A d \in 1 .. Len(calls) : calls'[d] = calls[d]
  BY <1>1, <1>2, AppendProperties
<1>5. DOMAIN calls' = 1 .. n
  BY <1>4, LenProperties
<1>6. Fits(calls'[n])
  BY <1>4 DEF Fits
<1>7. CallsType'
  BY <1>1, <1>3, <1>4, <1>5, <1>6 DEF CallsType, Fits
<1> QED
  BY <1>3, <1>4, <1>5, <1>7

(* A call moves on.                                                        *)
LEMMA Moved ==
    ASSUME CallsType, NEW c \in DOMAIN calls, NEW p \in Phases,
           calls' = [calls EXCEPT ![c].phase = p]
    PROVE  /\ CallsType' /\ DOMAIN calls' = DOMAIN calls
           /\ calls'[c].phase = p
           /\ \A d \in DOMAIN calls :
                 /\ d # c => calls'[d] = calls[d]
                 /\ calls'[d].admin = calls[d].admin /\ calls'[d].op = calls[d].op
                 /\ calls'[d].subject = calls[d].subject
                 /\ calls'[d].mounted = calls[d].mounted
<1> DEFINE call == [calls[c] EXCEPT !.phase = p]
<1>1. calls \in Seq(Call) /\ DOMAIN calls = 1 .. Len(calls) /\ Len(calls) \in Nat
  BY LenProperties DEF CallsType
<1>2. calls[c] \in Call
  BY <1>1, ElementOfSeq
<1>3. /\ call \in Call /\ call.phase = p
      /\ call.admin = calls[c].admin /\ call.op = calls[c].op
      /\ call.subject = calls[c].subject /\ call.mounted = calls[c].mounted
  BY <1>2 DEF Call
<1>4. calls' = [calls EXCEPT ![c] = call]
  OBVIOUS
<1>5. /\ calls' \in Seq(Call) /\ Len(calls') = Len(calls)
      /\ \A d \in 1 .. Len(calls) : calls'[d] = IF d = c THEN call ELSE calls[d]
  BY <1>1, <1>3, <1>4, ExceptSeq
<1>6. DOMAIN calls' = DOMAIN calls
  BY <1>1, <1>5, LenProperties
<1>7. CallsType'
  BY <1>1, <1>3, <1>5, <1>6 DEF CallsType, Fits
<1> QED
  BY <1>1, <1>3, <1>5, <1>6, <1>7

(* The pages of some are left.                                             *)
LEMMA Left ==
    ASSUME CallsType, NEW a \in Admins, NEW v \in Views, NEW aged \in BOOLEAN, GoTo(a, v, aged)
    PROVE  /\ CallsType' /\ DOMAIN calls' = DOMAIN calls
           /\ \A d \in DOMAIN calls :
                 /\ calls'[d].admin = calls[d].admin /\ calls'[d].op = calls[d].op
                 /\ calls'[d].subject = calls[d].subject /\ calls'[d].phase = calls[d].phase
                 /\ calls'[d].mounted => calls[d].mounted
<1> DEFINE n == Len(calls)
           left(d) == [calls[d] EXCEPT !.mounted = @ /\ (calls[d].admin = a => SamePage(view[a], v))]
<1>1. calls \in Seq(Call) /\ DOMAIN calls = 1 .. n /\ n \in Nat
  BY LenProperties DEF CallsType
<1>2. calls' = [d \in 1 .. n |-> left(d)]
  BY <1>1 DEF GoTo
<1>3. ASSUME NEW d \in 1 .. n
      PROVE  /\ left(d) \in Call
             /\ left(d).mounted => calls[d].mounted
             /\ left(d).admin = calls[d].admin /\ left(d).op = calls[d].op
             /\ left(d).subject = calls[d].subject /\ left(d).phase = calls[d].phase
  <2>1. calls[d] \in Call
    BY <1>1, <1>3, ElementOfSeq
  <2> QED
    BY <2>1 DEF Call
<1> HIDE DEF left
<1>4. calls' \in Seq(Call)
  <2>1. calls' \in [1 .. n -> Call]
    BY <1>2, <1>3
  <2> QED
    BY <1>1, <2>1, FunctionIsSeq
<1>5. DOMAIN calls' = 1 .. n /\ Len(calls') = n
  BY <1>1, <1>2, <1>4, LenProperties
<1>6. \A d \in 1 .. n : calls'[d] = left(d)
  BY <1>2
<1>7. CallsType'
  BY <1>1, <1>3, <1>4, <1>5, <1>6 DEF CallsType, Fits
<1> QED
  BY <1>1, <1>3, <1>5, <1>6, <1>7

-----------------------------------------------------------------------------
(* Type correctness.                                                       *)

(* Whichever button it is, or none, a decision about a subject of its kind *)
(* is sent; beside the buttons only a verification is.                     *)
Decide(a, op, i) ==
    /\ Fits([op |-> op, subject |-> i])
    /\ \E mounted \in BOOLEAN : Request(a, op, i, mounted)
    /\ op \notin Unlogged => ~Disabled(a, op, i)

LEMMA Steps ==
    ASSUME Next
    PROVE  \/ \E a \in Admins, op \in DeskOps, i \in Subjects : Decide(a, op, i)
           \/ \E a \in Admins, v \in Views, aged \in BOOLEAN : GoTo(a, v, aged)
           \/ \E a \in Admins, q \in Queries :
                 AnswerQuery(a, q) \/ ReceiveQuery(a, q) \/ QueryFails(a, q)
           \/ \E i \in Subjects : Requeue(i)
           \/ \E c \in DOMAIN calls :
                 Load(c) \/ Commit(c) \/ CommitRest(c) \/ Succeed(c) \/ Fail(c) \/ CallLost(c)
<1>1. ASSUME NEW a \in Admins, NEW i \in Accounts, SuspendUser(a, i) \/ ReactivateUser(a, i)
      PROVE  \E op \in DeskOps, j \in Subjects : Decide(a, op, j)
  BY <1>1 DEF SuspendUser, ReactivateUser, Send, Decide, Fits, DeskOps, Settling, Subjects
<1>2. ASSUME NEW a \in Admins, NEW i \in Workers, ApproveVerification(a, i) \/ RejectVerification(a, i)
      PROVE  \E op \in DeskOps, j \in Subjects : Decide(a, op, j)
  BY <1>2 DEF ApproveVerification, RejectVerification, Send, Decide, Fits, DeskOps, Settling, Clearing,
              Subjects
<1>3. ASSUME NEW a \in Admins, NEW i \in Reviews, KeepFlaggedReview(a, i) \/ RemoveFlaggedReview(a, i)
      PROVE  \E op \in DeskOps, j \in Subjects : Decide(a, op, j)
  BY <1>3 DEF KeepFlaggedReview, RemoveFlaggedReview, Send, Decide, Fits, DeskOps, Settling, Clearing,
              Subjects
<1>4. ASSUME NEW a \in Admins, NEW i \in Billings, MarkPaid(a, i)
      PROVE  \E op \in DeskOps, j \in Subjects : Decide(a, op, j)
  BY <1>4 DEF MarkPaid, Send, Decide, Fits, DeskOps, Settling, Subjects
<1>5. ASSUME NEW a \in Admins, NEW i \in Workers, VerifyDirectly(a, i)
      PROVE  \E op \in DeskOps, j \in Subjects : Decide(a, op, j)
  BY <1>5 DEF VerifyDirectly, Decide, Fits, DeskOps, Settling, Unlogged, Subjects
<1> QED
  BY <1>1, <1>2, <1>3, <1>4, <1>5 DEF Next

LEMMA TypeInit == Init => DeskType
<1> SUFFICES ASSUME Init PROVE DeskType
  OBVIOUS
<1>1. calls \in Seq(Call) /\ Len(calls) = 0 /\ DOMAIN calls = {}
  BY EmptySeq, LenProperties DEF Init
<1>2. ServerType
  BY DEF Init, ServerType
<1>3. CallsType
  BY <1>1 DEF CallsType
<1>4. \A a \in Admins : [q \in Queries |->
           IF q \in QueriesOf(view[a]) THEN StartFetch(NewQuery, FALSE) ELSE NewQuery]
               \in [Queries -> Query]
  BY NewQueryType, QueryTypes
<1>5. TabsType
  BY <1>4 DEF Init, TabsType
<1> QED
  BY <1>2, <1>3, <1>5 DEF Init, DeskType

LEMMA ServerStays ==
    ASSUME ServerType, DOMAIN calls \subseteq DOMAIN calls',
           \A c \in DOMAIN calls : calls'[c].subject = calls[c].subject,
           UNCHANGED <<settled, log>>, pending' \in [Subjects -> BOOLEAN]
    PROVE  ServerType'
BY DEF ServerType

LEMMA DecideType ==
    ASSUME DeskType, NEW a \in Admins, NEW op \in DeskOps, NEW i \in Subjects, Decide(a, op, i)
    PROVE  DeskType'
<1>1. CallsType' /\ DOMAIN calls \subseteq DOMAIN calls' /\ \A c \in DOMAIN calls : calls'[c] = calls[c]
  BY Sent DEF DeskType, Decide
<1>2. ServerType'
  BY <1>1, ServerStays DEF DeskType, ServerType, Decide, Request, server
<1>3. TabsType'
  BY DEF DeskType, TabsType, Decide, Request
<1> QED
  BY <1>1, <1>2, <1>3 DEF DeskType, Decide, Request

LEMMA GoToType ==
    ASSUME DeskType, NEW a \in Admins, NEW v \in Views, NEW aged \in BOOLEAN, GoTo(a, v, aged)
    PROVE  DeskType'
<1>1. /\ CallsType' /\ DOMAIN calls' = DOMAIN calls
      /\ \A c \in DOMAIN calls : calls'[c].subject = calls[c].subject
  BY Left DEF DeskType
<1>2. ServerType'
  BY <1>1, ServerStays DEF DeskType, ServerType, GoTo, server
<1>3. cache[a] \in [Queries -> Query]
  BY DEF DeskType, TabsType
<1>4. \A q \in Queries : Observed(Stale(cache[a][q], aged), FALSE) \in Query
  BY <1>3, QueryTypes
<1>5. [q \in Queries |-> IF q \in QueriesOf(v) THEN Observed(Stale(cache[a][q], aged), FALSE)
                         ELSE cache[a][q]] \in [Queries -> Query]
  BY <1>3, <1>4
<1>6. TabsType'
  BY <1>5 DEF DeskType, TabsType, GoTo
<1> QED
  BY <1>1, <1>2, <1>6 DEF DeskType, GoTo

LEMMA AnswersType ==
    ASSUME DeskType, NEW a \in Admins, NEW q \in Queries,
           AnswerQuery(a, q) \/ ReceiveQuery(a, q) \/ QueryFails(a, q)
    PROVE  DeskType'
<1>1. cache[a][q] \in Query
  BY DEF DeskType, TabsType
<1>2. TabsType'
  <2>1. PICK new \in Query : cache' = [cache EXCEPT ![a][q] = new]
    <3>1. /\ Answered(cache[a][q], Snapshot(q)) \in Query
          /\ Received(cache[a][q]) \in Query /\ FetchFailed(cache[a][q]) \in Query
      BY <1>1, QueryTypes, SnapshotType
    <3>2. CASE AnswerQuery(a, q)
      BY <3>1, <3>2 DEF AnswerQuery
    <3>3. CASE ReceiveQuery(a, q)
      BY <3>1, <3>3 DEF ReceiveQuery
    <3>4. CASE QueryFails(a, q)
      BY <3>1, <3>4 DEF QueryFails
    <3> QED
      BY <3>2, <3>3, <3>4
  <2> QED
    BY <2>1 DEF DeskType, TabsType, AnswerQuery, ReceiveQuery, QueryFails
<1>3. UNCHANGED <<server, calls, moves>> /\ faults' \in 0 .. MaxFaults
  BY DEF AnswerQuery, ReceiveQuery, QueryFails, DeskType
<1> QED
  BY <1>2, <1>3 DEF DeskType, ServerType, CallsType, server

LEMMA RequeueType == ASSUME DeskType, NEW i \in Subjects, Requeue(i) PROVE DeskType'
<1>1. ServerType' /\ CallsType' /\ TabsType'
  BY DEF DeskType, ServerType, CallsType, TabsType, Requeue
<1> QED
  BY <1>1 DEF DeskType, Requeue

(* What a handler does to the rows.                                        *)
LEMMA EffectType ==
    ASSUME DeskType, NEW op \in DeskOps, NEW i \in Subjects, Effect(op, i)
    PROVE  settled' \in [Subjects -> BOOLEAN] /\ pending' \in [Subjects -> BOOLEAN]
BY DEF DeskType, ServerType, Effect

LEMMA CallParts ==
    ASSUME CallsType, NEW c \in DOMAIN calls
    PROVE  /\ calls[c] \in Call /\ Fits(calls[c])
           /\ calls[c].admin \in Admins /\ calls[c].op \in DeskOps /\ calls[c].subject \in Subjects
           /\ calls[c].phase \in Phases /\ calls[c].mounted \in BOOLEAN
<1>1. calls[c] \in Call
  BY ElementOfSeq, LenProperties DEF CallsType
<1> QED
  BY <1>1 DEF Call, CallsType

LEMMA HandlerType ==
    ASSUME DeskType, NEW c \in DOMAIN calls, Load(c) \/ Commit(c) \/ CommitRest(c)
    PROVE  DeskType'
<1> DEFINE op == calls[c].op
           i == calls[c].subject
<1>a. CallsType /\ op \in DeskOps /\ i \in Subjects
  BY CallParts DEF DeskType
<1>1. PICK p \in Phases : calls' = [calls EXCEPT ![c].phase = p]
  <2>1. {"refused", "answered", "loaded", "halfway"} \subseteq Phases
    BY DEF Phases
  <2> QED
    BY <2>1 DEF Load, Commit, CommitRest
<1>2. /\ CallsType' /\ DOMAIN calls' = DOMAIN calls
      /\ \A d \in DOMAIN calls : calls'[d].subject = calls[d].subject
  BY <1>1, <1>a, Moved
<1>3. settled' \in [Subjects -> BOOLEAN] /\ pending' \in [Subjects -> BOOLEAN]
  BY <1>a, EffectType DEF Load, Commit, CommitRest, server, DeskType, ServerType
<1>4. log' = log \/ log' = [log EXCEPT ![i] = @ \cup {c}]
  BY DEF Load, Commit, CommitRest, server, Record
<1>5. ServerType'
  BY <1>a, <1>2, <1>3, <1>4 DEF DeskType, ServerType
<1> QED
  BY <1>2, <1>5 DEF Load, Commit, CommitRest, DeskType, TabsType

LEMMA EndType ==
    ASSUME DeskType, NEW c \in DOMAIN calls, Succeed(c) \/ Fail(c) \/ CallLost(c)
    PROVE  DeskType'
<1>1. PICK p \in Phases : calls' = [calls EXCEPT ![c].phase = p]
  <2>1. {"ok", "failed", "torn"} \subseteq Phases
    BY DEF Phases, Over
  <2> QED
    BY <2>1 DEF Succeed, Fail, CallLost
<1>2. /\ CallsType' /\ DOMAIN calls' = DOMAIN calls
      /\ \A d \in DOMAIN calls : calls'[d].subject = calls[d].subject
  BY <1>1, Moved DEF DeskType
<1>3. ServerType' /\ faults' \in 0 .. MaxFaults /\ moves' = moves
  BY <1>2, ServerStays DEF DeskType, ServerType, Succeed, Fail, CallLost, server
<1>4. TabsType'
  <2>1. CASE Succeed(c)
    <3> DEFINE a == calls[c].admin
               touched == Touched(calls[c].op, calls[c].subject)
    <3>1. a \in Admins /\ cache[a] \in [Queries -> Query]
      BY CallParts DEF DeskType, TabsType
    <3>2. ASSUME NEW q \in Queries
          PROVE  Invalidated(cache[a][q], q \in QueriesOf(view[a])) \in Query
      <4>1. /\ Invalidated(cache[a][q], TRUE) \in Query
            /\ Invalidated(cache[a][q], FALSE) \in Query
        BY <3>1, QueryTypes
      <4> QED
        BY <4>1 DEF Invalidated
    <3> HIDE DEF touched
    <3>3. [q \in Queries |-> IF q \in touched THEN Invalidated(cache[a][q], q \in QueriesOf(view[a]))
                             ELSE cache[a][q]] \in [Queries -> Query]
      BY <3>1, <3>2
    <3> QED
      BY <2>1, <3>1, <3>3 DEF Succeed, TabsType, DeskType, touched
  <2>2. CASE ~Succeed(c)
    BY <2>2 DEF Fail, CallLost, TabsType, DeskType
  <2> QED
    BY <2>1, <2>2
<1> QED
  BY <1>2, <1>3, <1>4 DEF DeskType

LEMMA TypeStep == DeskType /\ [Next]_vars => DeskType'
<1> SUFFICES ASSUME DeskType, [Next]_vars PROVE DeskType'
  OBVIOUS
<1>1. CASE Next
  BY <1>1, Steps, DecideType, GoToType, AnswersType, RequeueType, HandlerType, EndType
<1>2. CASE UNCHANGED vars
  BY <1>2 DEF vars, server, DeskType, ServerType, CallsType, TabsType
<1> QED
  BY <1>1, <1>2

LEMMA DeskTyped == Spec => []DeskType
BY TypeInit, TypeStep, PTL DEF Spec

(* Rows, calls and tabs keep their shape, and the log names only calls     *)
(* that were sent, about the subject it is the log of.                     *)
THEOREM TypeCorrect == Spec => []TypeOK
<1>1. DeskType => TypeOK
  <2> SUFFICES ASSUME DeskType PROVE TypeOK
    OBVIOUS
  <2>1. DOMAIN calls \subseteq 1 .. MaxCalls
    BY LenProperties DEF DeskType, CallsType
  <2>2. log \in [Subjects -> SUBSET (1 .. MaxCalls)] /\ \A i \in Subjects : log[i] \subseteq DOMAIN calls
    BY <2>1 DEF DeskType, ServerType
  <2>3. ASSUME NEW a \in Admins, NEW q \in Queries
        PROVE  cache[a][q].data # None => cache[a][q].data.settled \subseteq cache[a][q].data.listed
    <3>1. cache[a][q].data \in Data
      BY DEF DeskType, TabsType, Query
    <3> QED
      BY <3>1 DEF Data
  <2> QED
    BY <2>2, <2>3 DEF DeskType, ServerType, CallsType, TabsType, TypeOK
<1> QED
  BY <1>1, DeskTyped, PTL


-----------------------------------------------------------------------------
(* Decisions, their effects and their records.                             *)

(* The handler died, or is, between its two commits.                       *)
Cut(call) == call.phase \in {"halfway", "torn"}

(* A settled row has a record, or a handler that is about to write it, or  *)
(* was verified beside the pages.                                          *)
SettledIsExplained ==
    \A i \in Subjects : settled[i] =>
        \/ Recorded(i, Settling) \/ VerifiedBeside(i)
        \/ \E c \in DOMAIN calls :
              calls[c].subject = i /\ calls[c].op \in Settling /\ Cut(calls[c])

(* So has an account that was reactivated; the others were never touched.  *)
ReactivationIsExplained ==
    \A i \in Accounts : ~settled[i] =>
        \/ Recorded(i, {"reactivate"})
        \/ \E c \in DOMAIN calls :
              calls[c].subject = i /\ calls[c].op = "reactivate" /\ Cut(calls[c])
        \/ log[i] = {} /\ \A c \in DOMAIN calls : calls[c].subject = i => ~Cut(calls[c])

(* A payment is in the ledger before its record is marked.                 *)
LedgerFirst ==
    \A c \in DOMAIN calls :
        calls[c].op \in RecordsFirst /\ Cut(calls[c]) => c \in log[calls[c].subject]

(* A call that is past its effect on something that is not an account.     *)
Decided(c) ==
    /\ calls[c].subject \notin Accounts /\ calls[c].op \in Settling
    /\ \/ c \in log[calls[c].subject] /\ ~Cut(calls[c])
       \/ Cut(calls[c]) /\ calls[c].op \notin RecordsFirst
       \/ calls[c].phase \in {"answered", "ok"}
DecisionsStay == \A c \in DOMAIN calls : Decided(c) => settled[calls[c].subject]

(* Two marks of one record by one admin, with no other record in between.  *)
SameButton(c, d) ==
    /\ c < d /\ calls[c].op = "pay" /\ calls[d].op = "pay"
    /\ calls[c].admin = calls[d].admin /\ calls[c].subject = calls[d].subject
    /\ \A e \in c + 1 .. d - 1 :
          calls[e].admin = calls[c].admin /\ calls[e].op = "pay" =>
              calls[e].subject = calls[c].subject

(* The second is sent when the first is done, and comes to nothing.        *)
Waited(c, d) ==
    /\ calls[c].phase = "ok" /\ calls[d].phase \in {"sent", "refused", "failed"}
    /\ d \notin log[calls[d].subject]
ButtonWaits ==
    \A c, d \in DOMAIN calls :
        SameButton(c, d) /\ calls[c].mounted /\ calls[c].phase \notin {"failed", "torn"} =>
            Waited(c, d)

RowsExplained == SettledIsExplained /\ ReactivationIsExplained /\ LedgerFirst /\ DecisionsStay
BooksInv == RowsExplained /\ ButtonWaits

LEMMA BooksInit == Init => BooksInv
<1> SUFFICES ASSUME Init PROVE BooksInv
  OBVIOUS
<1>1. DOMAIN calls = {}
  BY EmptySeq, LenProperties DEF Init
<1>2. Accounts \subseteq Subjects
  BY DEF Subjects
<1> QED
  BY <1>1, <1>2 DEF Init, BooksInv, RowsExplained, SettledIsExplained, ReactivationIsExplained, LedgerFirst,
                    DecisionsStay, ButtonWaits

(* Rows and log stay, and no call becomes cut or decided.                  *)
LEMMA RowsKeep ==
    ASSUME DeskType, RowsExplained, UNCHANGED <<settled, log>>, DOMAIN calls \subseteq DOMAIN calls',
           \A c \in DOMAIN calls :
              /\ calls'[c].op = calls[c].op /\ calls'[c].subject = calls[c].subject
              /\ Cut(calls'[c]) <=> Cut(calls[c])
              /\ calls'[c].phase \in {"answered", "ok"} => calls[c].phase \in {"answered", "ok"}
              /\ calls[c].phase \in {"answered", "ok", "failed"} =>
                    calls'[c].phase \in {"answered", "ok", "failed"},
           \A c \in DOMAIN calls' \ DOMAIN calls :
              calls'[c].phase = "sent" /\ calls'[c].subject \in Subjects
    PROVE  RowsExplained'
<1>1. \A c \in DOMAIN calls' \ DOMAIN calls :
         ~Cut(calls'[c]) /\ calls'[c].phase \notin {"answered", "ok"} /\ \A i \in Subjects : c \notin log[i]
  BY DEF Cut, DeskType, ServerType
<1>2. Accounts \subseteq Subjects
  BY DEF Subjects
<1>3. \A i \in Subjects : log[i] \subseteq DOMAIN calls
  BY DEF DeskType, ServerType
<1>4. SettledIsExplained'
  BY <1>3 DEF RowsExplained, SettledIsExplained, Recorded, VerifiedBeside
<1>5. ReactivationIsExplained'
  BY <1>1, <1>2, <1>3 DEF RowsExplained, ReactivationIsExplained, Recorded
<1>6. LedgerFirst'
  BY <1>1 DEF RowsExplained, LedgerFirst
<1>7. DecisionsStay'
  <2> SUFFICES ASSUME NEW c \in DOMAIN calls', Decided(c)' PROVE settled'[calls'[c].subject]
    BY DEF DecisionsStay
  <2>1. CASE c \in DOMAIN calls
    BY <2>1 DEF RowsExplained, DecisionsStay, Decided
  <2>2. CASE c \notin DOMAIN calls
    BY <1>1, <2>2 DEF Decided, DeskType, ServerType
  <2> QED
    BY <2>1, <2>2
<1> QED
  BY <1>4, <1>5, <1>6, <1>7 DEF RowsExplained

LEMMA RowsDecide ==
    ASSUME DeskType, RowsExplained, NEW a \in Admins, NEW op \in DeskOps, NEW i \in Subjects,
           Decide(a, op, i)
    PROVE  RowsExplained'
<1> DEFINE n == Len(calls) + 1
<1>1. /\ DOMAIN calls = 1 .. n - 1 /\ DOMAIN calls' = 1 .. n /\ n \in Nat
      /\ \A d \in DOMAIN calls : calls'[d] = calls[d]
      /\ calls'[n].subject = i /\ calls'[n].phase = "sent"
  BY Sent DEF DeskType, Decide
<1>2. DOMAIN calls' \ DOMAIN calls = {n}
  BY <1>1
<1>3. UNCHANGED <<settled, log>>
  BY DEF Decide, Request, server
<1> QED
  BY <1>1, <1>2, <1>3, RowsKeep

LEMMA RowsGoTo ==
    ASSUME DeskType, RowsExplained, NEW a \in Admins, NEW v \in Views, NEW aged \in BOOLEAN, GoTo(a, v, aged)
    PROVE  RowsExplained'
<1>1. /\ DOMAIN calls' = DOMAIN calls
      /\ \A d \in DOMAIN calls :
            /\ calls'[d].op = calls[d].op /\ calls'[d].subject = calls[d].subject
            /\ calls'[d].phase = calls[d].phase
  BY Left DEF DeskType
<1>2. UNCHANGED <<settled, log>>
  BY DEF GoTo, server
<1>3. \A d \in DOMAIN calls : Cut(calls'[d]) <=> Cut(calls[d])
  BY <1>1 DEF Cut
<1> QED
  BY <1>1, <1>2, <1>3, RowsKeep

LEMMA RowsQuiet ==
    ASSUME DeskType, RowsExplained, UNCHANGED <<settled, log, calls>>
    PROVE  RowsExplained'
BY RowsKeep

(* The end of a call: nothing of it reaches the rows.                      *)
LEMMA RowsEnd ==
    ASSUME DeskType, RowsExplained, NEW c \in DOMAIN calls, Succeed(c) \/ Fail(c) \/ CallLost(c)
    PROVE  RowsExplained'
<1>1. PICK p \in Phases : calls' = [calls EXCEPT ![c].phase = p]
  <2>1. {"ok", "failed", "torn"} \subseteq Phases
    BY DEF Phases, Over
  <2> QED
    BY <2>1 DEF Succeed, Fail, CallLost
<1>2. /\ DOMAIN calls' = DOMAIN calls /\ calls'[c].phase = p
      /\ \A d \in DOMAIN calls :
            /\ d # c => calls'[d] = calls[d]
            /\ calls'[d].op = calls[d].op /\ calls'[d].subject = calls[d].subject
  BY <1>1, Moved DEF DeskType
<1>3. /\ Cut(calls'[c]) <=> Cut(calls[c])
      /\ calls'[c].phase \in {"answered", "ok"} => calls[c].phase \in {"answered", "ok"}
      /\ calls[c].phase \in {"answered", "ok", "failed"} =>
            calls'[c].phase \in {"answered", "ok", "failed"}
  <2>1. calls[c] \in Call
    BY CallParts DEF DeskType
  <2>2. DOMAIN calls[c] = {"admin", "op", "subject", "phase", "mounted"}
    BY <2>1 DEF Call
  <2>3. CASE Succeed(c)
    BY <1>2, <2>2, <2>3 DEF Succeed, Cut
  <2>4. CASE Fail(c)
    BY <1>2, <2>2, <2>4 DEF Fail, Cut
  <2>5. CASE CallLost(c)
    BY <1>2, <2>2, <2>5 DEF CallLost, Cut, InFlight, Over
  <2> QED
    BY <2>3, <2>4, <2>5
<1>4. UNCHANGED <<settled, log>>
  BY DEF Succeed, Fail, CallLost, server
<1>5. \A d \in DOMAIN calls : Cut(calls'[d]) <=> Cut(calls[d])
  BY <1>2, <1>3
<1>6. \A d \in DOMAIN calls :
         /\ calls'[d].phase \in {"answered", "ok"} => calls[d].phase \in {"answered", "ok"}
         /\ calls[d].phase \in {"answered", "ok", "failed"} =>
               calls'[d].phase \in {"answered", "ok", "failed"}
  BY <1>2, <1>3
<1> QED
  BY <1>2, <1>4, <1>5, <1>6, RowsKeep

(* One step of the handler of c: what it leaves alone.                     *)
LEMMA Handled ==
    ASSUME DeskType, NEW c \in DOMAIN calls, Load(c) \/ Commit(c) \/ CommitRest(c)
    PROVE  /\ calls[c].op \in DeskOps /\ calls[c].subject \in Subjects /\ Fits(calls[c])
           /\ DOMAIN calls' = DOMAIN calls
           /\ calls'[c].phase \in {"refused", "answered", "loaded", "halfway"}
           /\ \A d \in DOMAIN calls :
                 /\ d # c => calls'[d] = calls[d]
                 /\ calls'[d].op = calls[d].op /\ calls'[d].subject = calls[d].subject
                 /\ calls'[d].admin = calls[d].admin /\ calls'[d].mounted = calls[d].mounted
           /\ \A i \in Subjects :
                 /\ i # calls[c].subject => settled'[i] = settled[i] /\ log'[i] = log[i]
                 /\ log[i] \subseteq log'[i] /\ log'[i] \subseteq log[i] \cup {c}
                 /\ calls[c].op \notin Settling => (settled'[i] => settled[i])
                 /\ calls[c].op # "reactivate" => (settled[i] => settled'[i])
<1> DEFINE op == calls[c].op
           i == calls[c].subject
<1>1. CallsType /\ op \in DeskOps /\ i \in Subjects /\ Fits(calls[c])
  BY CallParts DEF DeskType
<1>2. PICK p \in {"refused", "answered", "loaded", "halfway"} : calls' = [calls EXCEPT ![c].phase = p]
  BY DEF Load, Commit, CommitRest
<1>3. p \in Phases
  BY DEF Phases
<1>4. /\ DOMAIN calls' = DOMAIN calls
      /\ calls'[c].phase = p
      /\ \A d \in DOMAIN calls :
            /\ d # c => calls'[d] = calls[d]
            /\ calls'[d].op = calls[d].op /\ calls'[d].subject = calls[d].subject
            /\ calls'[d].admin = calls[d].admin /\ calls'[d].mounted = calls[d].mounted
  BY <1>1, <1>2, <1>3, Moved
<1>5. settled' = settled \/ settled' = [settled EXCEPT ![i] =
          IF op \in Settling THEN TRUE ELSE IF op = "reactivate" THEN FALSE ELSE @]
  BY DEF Load, Commit, CommitRest, Effect, server
<1>6. log' = log \/ log' = [log EXCEPT ![i] = @ \cup {c}]
  BY DEF Load, Commit, CommitRest, server, Record
<1>7. settled \in [Subjects -> BOOLEAN] /\ log \in [Subjects -> SUBSET DOMAIN calls]
  BY DEF DeskType, ServerType
<1>8. \A j \in Subjects :
         /\ j # i => settled'[j] = settled[j]
         /\ op # "reactivate" => (settled[j] => settled'[j])
         /\ op \notin Settling => (settled'[j] => settled[j])
  BY <1>1, <1>5, <1>7
<1>9. \A j \in Subjects :
         /\ j # i => log'[j] = log[j]
         /\ log[j] \subseteq log'[j] /\ log'[j] \subseteq log[j] \cup {c}
  BY <1>1, <1>6, <1>7
<1> QED
  BY <1>1, <1>2, <1>4, <1>8, <1>9

(* The effect of a decision on its subject, and where its record is.       *)
LEMMA Committed ==
    ASSUME DeskType, NEW c \in DOMAIN calls
    PROVE  LET op == calls[c].op
               i == calls[c].subject
           IN  /\ Load(c) =>
                     /\ calls[c].phase = "sent"
                     /\ calls'[c].phase = "answered" => settled[i]
                     /\ calls'[c].phase \in {"answered", "refused", "loaded"}
                     /\ Refused(op, i) => calls'[c].phase = "refused"
                     /\ UNCHANGED <<settled, log>>
               /\ Commit(c) =>
                     /\ calls[c].phase = "loaded"
                     /\ op \in OneCommit => calls'[c].phase = "answered" /\ (op \in Unlogged \/ c \in log'[i])
                     /\ op \in RecordsFirst =>
                           calls'[c].phase = "halfway" /\ c \in log'[i] /\ UNCHANGED settled
                     /\ op \notin OneCommit \cup RecordsFirst =>
                           calls'[c].phase = "halfway" /\ UNCHANGED log
                     /\ op \in Settling /\ op \notin RecordsFirst => settled'[i]
                     /\ op \in Clearing => settled'[i] = settled[i]
               /\ CommitRest(c) =>
                     /\ calls[c].phase = "halfway" /\ calls'[c].phase = "answered"
                     /\ op \in RecordsFirst => settled'[i] /\ UNCHANGED log
                     /\ op \notin RecordsFirst => c \in log'[i] /\ UNCHANGED settled
<1> DEFINE op == calls[c].op
           i == calls[c].subject
<1>1. /\ CallsType /\ op \in DeskOps /\ i \in Subjects
      /\ settled \in [Subjects -> BOOLEAN] /\ log \in [Subjects -> SUBSET DOMAIN calls]
  BY CallParts DEF DeskType, ServerType
<1>2. {"refused", "answered", "loaded", "halfway"} \subseteq Phases
  BY DEF Phases
<1>3. RecordsFirst = {"pay"} /\ OneCommit = {"keep", "remove", "verify"} /\ Unlogged = {"verify"}
  BY DEF RecordsFirst, OneCommit, Unlogged
<1>4. ASSUME Load(c)
      PROVE  /\ calls[c].phase = "sent"
             /\ calls'[c].phase = "answered" => settled[i]
             /\ calls'[c].phase \in {"answered", "refused", "loaded"}
             /\ Refused(op, i) => calls'[c].phase = "refused"
             /\ UNCHANGED <<settled, log>>
  <2> DEFINE p == IF Refused(op, i) THEN "refused"
                  ELSE IF op \in {"approve", "verify"} /\ settled[i] THEN "answered" ELSE "loaded"
  <2>1. calls' = [calls EXCEPT ![c].phase = p] /\ p \in Phases
    BY <1>4, <1>2 DEF Load
  <2>2. calls'[c].phase = p
    BY <1>1, <2>1, Moved
  <2> QED
    BY <1>4, <2>2 DEF Load, server
<1>5. ASSUME Commit(c)
      PROVE  /\ calls[c].phase = "loaded"
             /\ op \in OneCommit => calls'[c].phase = "answered" /\ (op \in Unlogged \/ c \in log'[i])
             /\ op \in RecordsFirst => calls'[c].phase = "halfway" /\ c \in log'[i] /\ UNCHANGED settled
             /\ op \notin OneCommit \cup RecordsFirst => calls'[c].phase = "halfway" /\ UNCHANGED log
             /\ op \in Settling /\ op \notin RecordsFirst => settled'[i]
             /\ op \in Clearing => settled'[i] = settled[i]
  <2> DEFINE p == IF op \in OneCommit THEN "answered" ELSE "halfway"
  <2>1. calls' = [calls EXCEPT ![c].phase = p] /\ p \in Phases
    BY <1>5, <1>2 DEF Commit
  <2>2. calls'[c].phase = p
    BY <1>1, <2>1, Moved
  <2>3. op \in (OneCommit \cup RecordsFirst) \ Unlogged => c \in log'[i]
    BY <1>1, <1>5 DEF Commit, Record
  <2>4. op \notin RecordsFirst =>
           settled'[i] = IF op \in Settling THEN TRUE ELSE IF op = "reactivate" THEN FALSE ELSE settled[i]
    BY <1>1, <1>5 DEF Commit, Effect
  <2>5. Clearing \cap (Settling \cup RecordsFirst \cup {"reactivate"}) = {}
    BY DEF Clearing, Settling, RecordsFirst
  <2> QED
    BY <1>3, <1>5, <2>2, <2>3, <2>4, <2>5 DEF Commit
<1>6. ASSUME CommitRest(c)
      PROVE  /\ calls[c].phase = "halfway" /\ calls'[c].phase = "answered"
             /\ op \in RecordsFirst => settled'[i] /\ UNCHANGED log
             /\ op \notin RecordsFirst => c \in log'[i] /\ UNCHANGED settled
  <2>1. calls' = [calls EXCEPT ![c].phase = "answered"]
    BY <1>6 DEF CommitRest
  <2>2. calls'[c].phase = "answered"
    BY <1>1, <1>2, <2>1, Moved
  <2>3. op \in RecordsFirst => settled'[i] /\ UNCHANGED log
    BY <1>1, <1>6, <1>3 DEF CommitRest, Effect, Settling
  <2>4. op \notin RecordsFirst => c \in log'[i] /\ UNCHANGED settled
    BY <1>1, <1>6 DEF CommitRest, Record
  <2> QED
    BY <1>6, <2>2, <2>3, <2>4 DEF CommitRest
<1> QED
  BY <1>4, <1>5, <1>6

LEMMA RowsHandler ==
    ASSUME DeskType, RowsExplained, NEW c \in DOMAIN calls, Load(c) \/ Commit(c) \/ CommitRest(c)
    PROVE  RowsExplained'
<1> DEFINE op == calls[c].op
           i == calls[c].subject
<1>1. op \in DeskOps /\ i \in Subjects
  BY Handled
<1>2. /\ DOMAIN calls' = DOMAIN calls
      /\ calls'[c].phase \in {"refused", "answered", "loaded", "halfway"}
      /\ \A d \in DOMAIN calls :
            /\ d # c => calls'[d] = calls[d]
            /\ calls'[d].op = calls[d].op /\ calls'[d].subject = calls[d].subject
      /\ \A j \in Subjects :
            /\ j # i => settled'[j] = settled[j] /\ log'[j] = log[j]
            /\ log[j] \subseteq log'[j] /\ log'[j] \subseteq log[j] \cup {c}
            /\ op # "reactivate" => (settled[j] => settled'[j])
            /\ op \notin Settling => (settled'[j] => settled[j])
  BY Handled
<1>3. /\ op \in {"suspend", "reactivate"} => i \in Accounts
      /\ op \in {"approve", "reject", "verify"} => i \in Workers
      /\ op \in {"keep", "remove"} => i \in Reviews
      /\ op = "pay" => i \in Billings
  BY Handled DEF Fits
<1>4. log \in [Subjects -> SUBSET DOMAIN calls] /\ settled \in [Subjects -> BOOLEAN]
  BY DEF DeskType, ServerType
<1>5. /\ Load(c) =>
            /\ calls[c].phase = "sent"
            /\ calls'[c].phase = "answered" => settled[i]
            /\ calls'[c].phase \in {"answered", "refused", "loaded"}
            /\ UNCHANGED <<settled, log>>
      /\ Commit(c) =>
            /\ calls[c].phase = "loaded"
            /\ op \in OneCommit => calls'[c].phase = "answered" /\ (op \in Unlogged \/ c \in log'[i])
            /\ op \in RecordsFirst => calls'[c].phase = "halfway" /\ c \in log'[i] /\ UNCHANGED settled
            /\ op \notin OneCommit \cup RecordsFirst => calls'[c].phase = "halfway" /\ UNCHANGED log
            /\ op \in Settling /\ op \notin RecordsFirst => settled'[i]
            /\ op \in Clearing => settled'[i] = settled[i]
      /\ CommitRest(c) =>
            /\ calls[c].phase = "halfway" /\ calls'[c].phase = "answered"
            /\ op \in RecordsFirst => settled'[i] /\ UNCHANGED log
            /\ op \notin RecordsFirst => c \in log'[i] /\ UNCHANGED settled
  BY Committed
<1> USE DEF Cut, OneCommit, RecordsFirst, Settling, Clearing, Unlogged, DeskOps
<1> HIDE DEF op, i
<1>c. op = calls[c].op /\ i = calls[c].subject
  BY DEF op, i
<1>6. LedgerFirst'
  <2> SUFFICES ASSUME NEW d \in DOMAIN calls, calls[d].op \in RecordsFirst, Cut(calls'[d])
               PROVE  d \in log'[calls[d].subject]
    BY <1>2 DEF LedgerFirst
  <2>1. CASE d = c
    BY <1>c, <1>5, <2>1
  <2>2. CASE d # c
    <3>1. d \in log[calls[d].subject] /\ calls[d].subject \in Subjects
      BY <1>2, <2>2, CallParts DEF RowsExplained, LedgerFirst, DeskType
    <3> QED
      BY <1>2, <3>1
  <2> QED
    BY <2>1, <2>2
<1>7. SettledIsExplained'
  <2> SUFFICES ASSUME NEW j \in Subjects, settled'[j]
               PROVE  \/ \E d \in log'[j] : calls'[d].op \in Settling
                      \/ VerifiedBeside(j)'
                      \/ \E d \in DOMAIN calls : /\ calls'[d].subject = j
                                                 /\ calls'[d].op \in Settling /\ Cut(calls'[d])
    BY <1>2 DEF SettledIsExplained, Recorded
  <2>1. CASE ~settled[j]
    <3>1. j = i /\ ~Load(c)
      BY <1>2, <1>5, <2>1
    <3>2. c \in log[i] => c \in log'[i]
      BY <1>1, <1>2
    <3>3. CASE Commit(c)
      <4>1. op \in Settling
        BY <1>2, <2>1, <3>1
      <4>2. op # "pay"
        BY <1>5, <2>1, <3>1, <3>3
      <4>3. CASE op = "remove"
        BY <1>c, <1>2, <1>5, <3>1, <3>3, <4>3
      <4>4. CASE op = "verify"
        BY <1>c, <1>2, <1>5, <3>1, <3>3, <4>4 DEF VerifiedBeside
      <4>5. CASE op \notin {"remove", "verify"}
        BY <1>c, <1>2, <1>5, <3>1, <3>3, <4>1, <4>2, <4>5
      <4> QED
        BY <4>3, <4>4, <4>5
    <3>4. CASE CommitRest(c)
      BY <1>c, <1>5, <1>2, <2>1, <3>1, <3>2, <3>4 DEF RowsExplained, LedgerFirst
    <3> QED
      BY <3>1, <3>3, <3>4
  <2>2. CASE \E d \in log[j] : calls[d].op \in Settling
    BY <1>2, <1>4, <2>2
  <2>3. CASE \E d \in DOMAIN calls : calls[d].subject = j /\ calls[d].op \in Settling /\ Cut(calls[d])
    <3>1. PICK d \in DOMAIN calls : calls[d].subject = j /\ calls[d].op \in Settling /\ Cut(calls[d])
      BY <2>3
    <3>2. CASE d # c
      BY <1>2, <3>1, <3>2
    <3>3. CASE d = c
      <4>1. CommitRest(c)
        BY <1>5, <3>1, <3>3
      <4>2. c \in log'[i]
        BY <1>c, <1>1, <1>2, <1>5, <3>1, <3>3, <4>1 DEF RowsExplained, LedgerFirst
      <4> QED
        BY <1>c, <1>2, <3>1, <3>3, <4>2
    <3> QED
      BY <3>2, <3>3
  <2>4. CASE VerifiedBeside(j)
    <3>1. calls[c].phase \in {"sent", "loaded", "halfway"}
      BY <1>5
    <3> QED
      BY <1>2, <2>4, <3>1 DEF VerifiedBeside
  <2> QED
    BY <2>1, <2>2, <2>3, <2>4 DEF RowsExplained, SettledIsExplained, Recorded
<1>8. ReactivationIsExplained'
  <2> SUFFICES ASSUME NEW j \in Accounts, ~settled'[j]
               PROVE  \/ \E d \in log'[j] : calls'[d].op = "reactivate"
                      \/ \E d \in DOMAIN calls : /\ calls'[d].subject = j
                                                 /\ calls'[d].op = "reactivate" /\ Cut(calls'[d])
                      \/ /\ log'[j] = {}
                         /\ \A d \in DOMAIN calls : calls'[d].subject = j => ~Cut(calls'[d])
    BY <1>2 DEF ReactivationIsExplained, Recorded
  <2>1. j \in Subjects /\ (j = i => op \in {"suspend", "reactivate"})
    <3>1. j = i => op \notin {"approve", "reject", "verify", "keep", "remove", "pay"}
      BY <1>3
    <3> QED
      BY <1>1, <3>1 DEF Subjects
  <2>2. CASE settled[j]
    <3>1. j = i /\ op = "reactivate"
      BY <1>2, <2>1, <2>2
    <3>2. Commit(c)
      BY <1>5, <3>1, <2>2
    <3> QED
      BY <1>c, <1>2, <1>5, <3>1, <3>2
  <2>3. CASE \E d \in log[j] : calls[d].op = "reactivate"
    BY <1>2, <1>4, <2>1, <2>3
  <2>4. CASE \E d \in DOMAIN calls : calls[d].subject = j /\ calls[d].op = "reactivate" /\ Cut(calls[d])
    <3>1. PICK d \in DOMAIN calls : calls[d].subject = j /\ calls[d].op = "reactivate" /\ Cut(calls[d])
      BY <2>4
    <3>2. CASE d # c
      BY <1>2, <3>1, <3>2
    <3>3. CASE d = c
      BY <1>c, <1>2, <1>5, <3>1, <3>3
    <3> QED
      BY <3>2, <3>3
  <2>5. CASE log[j] = {} /\ \A d \in DOMAIN calls : calls[d].subject = j => ~Cut(calls[d])
    <3>1. CASE j # i
      BY <1>c, <1>2, <2>1, <2>5, <3>1
    <3>2. CASE j = i
      <4>1. ~CommitRest(c)
        BY <1>c, <1>5, <2>5, <3>2
      <4>2. CASE Load(c)
        BY <1>5, <1>2, <2>5, <4>2
      <4>3. CASE Commit(c)
        <5>1. op = "reactivate"
          BY <1>5, <2>1, <3>2, <4>3
        <5> QED
          BY <1>c, <1>2, <1>5, <3>2, <4>3, <5>1
      <4> QED
        BY <4>1, <4>2, <4>3
    <3> QED
      BY <3>1, <3>2
  <2> QED
    BY <2>2, <2>3, <2>4, <2>5 DEF RowsExplained, ReactivationIsExplained, Recorded
<1>9. DecisionsStay'
  <2> SUFFICES ASSUME NEW d \in DOMAIN calls, Decided(d)'
               PROVE  settled'[calls[d].subject]
    BY <1>2 DEF DecisionsStay
  <2> DEFINE j == calls[d].subject
  <2>1. j \in Subjects /\ j \notin Accounts /\ calls[d].op \in Settling
    BY <1>2, CallParts DEF Decided, DeskType
  <2>2. settled[j] => settled'[j]
    <3>1. j = i => op # "reactivate"
      BY <1>3, <2>1
    <3> QED
      BY <1>2, <2>1, <3>1
  <2>3. Decided(d) => settled[j]
    BY DEF RowsExplained, DecisionsStay
  <2>4. CASE d # c
    <3>1. d \in log'[j] => d \in log[j]
      BY <1>2, <2>1, <2>4
    <3> QED
      BY <1>2, <2>1, <2>2, <2>3, <2>4, <3>1 DEF Decided
  <2>5. CASE d = c
    <3>1. CASE Load(c)
      BY <1>c, <1>5, <1>2, <2>1, <2>2, <2>3, <2>5, <3>1 DEF Decided
    <3>2. CASE Commit(c)
      BY <1>c, <1>5, <1>2, <2>1, <2>5, <3>2 DEF Decided
    <3>3. CASE CommitRest(c)
      BY <1>c, <1>5, <2>1, <2>2, <2>3, <2>5, <3>3 DEF Decided
    <3> QED
      BY <3>1, <3>2, <3>3
  <2> QED
    BY <2>4, <2>5
<1> QED
  BY <1>6, <1>7, <1>8, <1>9 DEF RowsExplained

-----------------------------------------------------------------------------
(* The disabled button.                                                    *)

LEMMA ButtonStays ==
    ASSUME CallsType, DOMAIN calls \subseteq DOMAIN calls', NEW c \in DOMAIN calls, NEW d \in DOMAIN calls,
           \A e \in DOMAIN calls :
              /\ calls'[e].admin = calls[e].admin /\ calls'[e].op = calls[e].op
              /\ calls'[e].subject = calls[e].subject,
           SameButton(c, d)'
    PROVE  SameButton(c, d)
<1>1. DOMAIN calls = 1 .. Len(calls) /\ Len(calls) \in Nat
  BY LenProperties DEF CallsType
<1>2. \A e \in c + 1 .. d - 1 : e \in DOMAIN calls
  BY <1>1
<1> QED
  BY <1>2 DEF SameButton

LEMMA ButtonDecide ==
    ASSUME DeskType, ButtonWaits, NEW a \in Admins, NEW op \in DeskOps, NEW i \in Subjects,
           Decide(a, op, i)
    PROVE  ButtonWaits'
<1> DEFINE n == Len(calls) + 1
<1>1. /\ DOMAIN calls = 1 .. n - 1 /\ DOMAIN calls' = 1 .. n /\ n \in Nat
      /\ \A d \in DOMAIN calls : calls'[d] = calls[d]
      /\ calls'[n].admin = a /\ calls'[n].op = op /\ calls'[n].subject = i
      /\ calls'[n].phase = "sent"
  BY Sent DEF DeskType, Decide
<1> HIDE DEF n
<1>2. log' = log /\ (op = "pay" => ~Busy(a, op, i))
  BY DEF Decide, Request, server, Disabled, Unlogged
<1> SUFFICES ASSUME NEW c \in DOMAIN calls', NEW d \in DOMAIN calls', SameButton(c, d)',
                    calls'[c].mounted, calls'[c].phase \notin {"failed", "torn"}
             PROVE  Waited(c, d)'
  BY DEF ButtonWaits
<1>3. c < d
  BY DEF SameButton
<1>4. c \in DOMAIN calls /\ calls'[c] = calls[c]
  BY <1>1, <1>3
<1>5. CASE d \in DOMAIN calls
  <2>1. SameButton(c, d)
    BY <1>1, <1>4, <1>5, ButtonStays DEF DeskType
  <2> QED
    BY <1>1, <1>2, <1>4, <1>5, <2>1 DEF ButtonWaits, Waited
<1>6. CASE d \notin DOMAIN calls
  <2>1. d = n /\ op = "pay" /\ calls[c].op = "pay" /\ calls[c].admin = a /\ calls[c].subject = i
    BY <1>1, <1>4, <1>6 DEF SameButton
  <2>2. calls[c].phase = "ok"
    <3>1. ASSUME NEW e \in DOMAIN calls, e > c, calls[e].admin = a, calls[e].op = "pay", calls[e].mounted
          PROVE  calls[c].phase = "ok"
      <4>1. \A f \in c + 1 .. e : f \in c + 1 .. n - 1 /\ f \in DOMAIN calls
        BY <1>1, <1>4, <3>1
      <4>2. \A f \in c + 1 .. e : calls[f].admin = a /\ calls[f].op = "pay" => calls[f].subject = i
        BY <1>1, <1>4, <2>1, <4>1 DEF SameButton
      <4>3. e \in c + 1 .. e /\ \A f \in c + 1 .. e - 1 : f \in c + 1 .. e
        BY <1>1, <1>4, <3>1
      <4>4. SameButton(c, e)
        BY <1>1, <1>4, <2>1, <3>1, <4>2, <4>3 DEF SameButton
      <4> QED
        BY <1>4, <4>4 DEF ButtonWaits, Waited
    <3>2. ASSUME \A e \in DOMAIN calls :
                    e > c => ~(calls[e].admin = a /\ calls[e].op = "pay" /\ calls[e].mounted)
          PROVE  calls[c].phase = "ok"
      <4>1. ~InFlight(calls[c])
        BY <1>2, <1>4, <2>1, <3>2 DEF Busy
      <4> QED
        BY <1>4, <4>1 DEF InFlight, Over
    <3> QED
      BY <3>1, <3>2
  <2>3. d \notin log[i]
    BY <1>6 DEF DeskType, ServerType
  <2> QED
    BY <1>1, <1>2, <1>4, <2>1, <2>2, <2>3 DEF Waited
<1> QED
  BY <1>5, <1>6

LEMMA ButtonGoTo ==
    ASSUME DeskType, ButtonWaits, NEW a \in Admins, NEW v \in Views, NEW aged \in BOOLEAN,
           GoTo(a, v, aged)
    PROVE  ButtonWaits'
<1>1. /\ DOMAIN calls' = DOMAIN calls
      /\ \A d \in DOMAIN calls :
            /\ calls'[d].admin = calls[d].admin /\ calls'[d].op = calls[d].op
            /\ calls'[d].subject = calls[d].subject /\ calls'[d].phase = calls[d].phase
            /\ calls'[d].mounted => calls[d].mounted
  BY Left DEF DeskType
<1>2. log' = log
  BY DEF GoTo, server
<1> SUFFICES ASSUME NEW c \in DOMAIN calls, NEW d \in DOMAIN calls, SameButton(c, d)',
                    calls'[c].mounted, calls'[c].phase \notin {"failed", "torn"}
             PROVE  Waited(c, d)'
  BY <1>1 DEF ButtonWaits
<1>3. SameButton(c, d)
  BY <1>1, ButtonStays DEF DeskType
<1> QED
  BY <1>1, <1>2, <1>3 DEF ButtonWaits, Waited

(* A call moves: the first of two is over, the second finds it done.       *)
LEMMA ButtonMove ==
    ASSUME DeskType, RowsExplained, ButtonWaits, NEW m \in DOMAIN calls,
           Load(m) \/ Commit(m) \/ CommitRest(m) \/ Succeed(m) \/ Fail(m) \/ CallLost(m)
    PROVE  ButtonWaits'
<1>1. CASE Load(m) \/ Commit(m) \/ CommitRest(m)
  <2>1. /\ DOMAIN calls' = DOMAIN calls
        /\ calls'[m].phase \in {"refused", "answered", "loaded", "halfway"}
        /\ \A d \in DOMAIN calls :
              /\ d # m => calls'[d] = calls[d]
              /\ calls'[d].op = calls[d].op /\ calls'[d].subject = calls[d].subject
              /\ calls'[d].admin = calls[d].admin /\ calls'[d].mounted = calls[d].mounted
        /\ \A i \in Subjects : log'[i] \subseteq log[i] \cup {m}
    BY <1>1, Handled
  <2> SUFFICES ASSUME NEW c \in DOMAIN calls, NEW d \in DOMAIN calls, SameButton(c, d)',
                      calls'[c].mounted, calls'[c].phase \notin {"failed", "torn"}
               PROVE  Waited(c, d)'
    BY <2>1 DEF ButtonWaits
  <2>2. SameButton(c, d)
    BY <2>1, ButtonStays DEF DeskType
  <2>3. calls[m].phase \in {"sent", "loaded", "halfway"} /\ m # c
    <3>1. calls[m].phase \in {"sent", "loaded", "halfway"}
      BY <1>1 DEF Load, Commit, CommitRest
    <3>2. m = c => Waited(c, d)
      BY <2>1, <2>2, <3>1 DEF ButtonWaits
    <3> QED
      BY <3>1, <3>2 DEF Waited
  <2>4. calls'[c] = calls[c] /\ Waited(c, d)
    BY <2>1, <2>2, <2>3 DEF ButtonWaits
  <2>5. calls[d].subject \in Subjects /\ calls[c].subject = calls[d].subject
    BY <2>2, CallParts DEF DeskType, SameButton
  <2>6. CASE d # m
    BY <2>1, <2>4, <2>5, <2>6 DEF Waited
  <2>7. CASE d = m
    <3>1. calls[m].phase = "sent" /\ Load(m)
      BY <1>1, <2>3, <2>4, <2>7 DEF Waited, Commit, CommitRest
    <3>2. calls[d].subject \notin Accounts
      <4>1. Fits(calls[c]) /\ calls[c].op = "pay"
        BY <2>2, CallParts DEF DeskType, SameButton
      <4> QED
        BY <2>5, <4>1 DEF Fits
    <3>3. Decided(c)
      BY <2>2, <2>4, <2>5, <3>2 DEF Decided, Waited, SameButton, Settling
    <3>4. settled[calls[d].subject]
      BY <2>5, <3>3 DEF RowsExplained, DecisionsStay
    <3>5. Refused("pay", calls[d].subject)
      BY <3>4 DEF Refused
    <3>6. calls'[m].phase = "refused" /\ log' = log
      BY <2>2, <2>7, <3>1, <3>5, Committed DEF SameButton
    <3> QED
      BY <2>1, <2>4, <2>7, <3>6 DEF Waited
  <2> QED
    BY <2>6, <2>7
<1>2. CASE Succeed(m) \/ Fail(m) \/ CallLost(m)
  <2>1. PICK p \in {"ok", "failed", "torn"} :
           /\ calls' = [calls EXCEPT ![m].phase = p]
           /\ calls[m].phase \notin Over /\ log' = log
           /\ calls[m].phase = "sent" \/ calls[m].phase = "refused" => p = "failed"
    <3>1. calls[m] \in Call
      BY CallParts DEF DeskType
    <3>2. DOMAIN calls[m] = {"admin", "op", "subject", "phase", "mounted"}
      BY <3>1 DEF Call
    <3>3. CASE Succeed(m)
      BY <3>3 DEF Succeed, Over, server
    <3>4. CASE Fail(m)
      BY <3>4 DEF Fail, Over, server
    <3>5. CASE CallLost(m)
      <4> DEFINE p == IF calls[m].phase = "halfway" THEN "torn" ELSE "failed"
      <4>1. calls' = [calls EXCEPT ![m].phase = p]
        BY <3>2, <3>5 DEF CallLost
      <4> QED
        BY <3>5, <4>1 DEF CallLost, InFlight, server
    <3> QED
      BY <1>2, <3>3, <3>4, <3>5
  <2>2. p \in Phases
    BY DEF Phases, Over
  <2>3. /\ DOMAIN calls' = DOMAIN calls /\ calls'[m].phase = p
        /\ \A d \in DOMAIN calls :
              /\ d # m => calls'[d] = calls[d]
              /\ calls'[d].op = calls[d].op /\ calls'[d].subject = calls[d].subject
              /\ calls'[d].admin = calls[d].admin /\ calls'[d].mounted = calls[d].mounted
    BY <2>1, <2>2, Moved DEF DeskType
  <2> SUFFICES ASSUME NEW c \in DOMAIN calls, NEW d \in DOMAIN calls, SameButton(c, d)',
                      calls'[c].mounted, calls'[c].phase \notin {"failed", "torn"}
               PROVE  Waited(c, d)'
    BY <2>3 DEF ButtonWaits
  <2>4. SameButton(c, d)
    BY <2>3, ButtonStays DEF DeskType
  <2>5. calls[c].phase \notin {"failed", "torn"}
    BY <2>1, <2>3 DEF Over
  <2>6. Waited(c, d)
    BY <2>3, <2>4, <2>5 DEF ButtonWaits
  <2>7. calls'[c] = calls[c]
    BY <2>1, <2>3, <2>6 DEF Waited, Over
  <2>8. calls'[d].phase \in {"sent", "refused", "failed"}
    BY <2>1, <2>3, <2>6 DEF Waited, Over
  <2> QED
    BY <2>1, <2>3, <2>6, <2>7, <2>8 DEF Waited
<1> QED
  BY <1>1, <1>2

LEMMA BooksStep == DeskType /\ BooksInv /\ [Next]_vars => BooksInv'
<1> SUFFICES ASSUME DeskType, RowsExplained, ButtonWaits, [Next]_vars PROVE BooksInv'
  BY DEF BooksInv
<1>1. ASSUME NEW a \in Admins, NEW op \in DeskOps, NEW i \in Subjects, Decide(a, op, i)
      PROVE  BooksInv'
  BY <1>1, RowsDecide, ButtonDecide DEF BooksInv
<1>2. ASSUME NEW a \in Admins, NEW v \in Views, NEW aged \in BOOLEAN, GoTo(a, v, aged)
      PROVE  BooksInv'
  BY <1>2, RowsGoTo, ButtonGoTo DEF BooksInv
<1>3. ASSUME UNCHANGED <<settled, log, calls>>
      PROVE  BooksInv'
  <2>1. RowsExplained'
    BY <1>3, RowsQuiet
  <2>2. ButtonWaits'
    BY <1>3 DEF ButtonWaits, SameButton, Waited
  <2> QED
    BY <2>1, <2>2 DEF BooksInv
<1>4. ASSUME NEW c \in DOMAIN calls,
             Load(c) \/ Commit(c) \/ CommitRest(c) \/ Succeed(c) \/ Fail(c) \/ CallLost(c)
      PROVE  BooksInv'
  BY <1>4, RowsHandler, RowsEnd, ButtonMove DEF BooksInv
<1>5. CASE Next
  <2>1. ASSUME NEW a \in Admins, NEW q \in Queries,
               AnswerQuery(a, q) \/ ReceiveQuery(a, q) \/ QueryFails(a, q)
        PROVE  UNCHANGED <<settled, log, calls>>
    BY <2>1 DEF AnswerQuery, ReceiveQuery, QueryFails, server
  <2>2. ASSUME NEW i \in Subjects, Requeue(i) PROVE UNCHANGED <<settled, log, calls>>
    BY <2>2 DEF Requeue
  <2> QED
    BY <1>1, <1>2, <1>3, <1>4, <1>5, <2>1, <2>2, Steps
<1>6. CASE UNCHANGED vars
  BY <1>3, <1>6 DEF vars, server
<1> QED
  BY <1>5, <1>6

(* What was recorded and what is so agree, whoever decides at the same     *)
(* time and whatever is lost, but for a worker verified through the        *)
(* endpoint that names no admin; and no admin's clicks record a payment    *)
(* twice.  Two marks of a record get past the disabled button only when    *)
(* the first is over: then the record is paid already, and the second is   *)
(* refused before it reaches the ledger.                                   *)
(* (admin_user_service.py:49-76, worker_verification_service.py:65-139,    *)
(* WorkerBillingTable.tsx:56-67, worker_billing_service.py:32)             *)
THEOREM BooksAreTrue == Spec => []BooksTellTruth
<1>1. DeskType /\ BooksInv => BooksTellTruth
  <2> SUFFICES ASSUME DeskType, BooksInv PROVE LogExplains /\ CollectsOnce
    BY DEF BooksTellTruth
  <2>1. LogExplains
    <3> SUFFICES ASSUME NEW i \in Subjects, ~Unfinished(i)
                 PROVE  /\ settled[i] => Recorded(i, Settling) \/ VerifiedBeside(i)
                        /\ (i \in Accounts /\ ~settled[i] /\ log[i] # {}) => Recorded(i, {"reactivate"})
                        /\ (i \notin Accounts /\ Recorded(i, Settling)) => settled[i]
      BY DEF LogExplains
    <3>1. \A c \in DOMAIN calls : calls[c].subject = i => ~Cut(calls[c])
      BY DEF Unfinished, Cut
    <3>2. ASSUME i \notin Accounts, NEW c \in log[i], calls[c].op \in Settling PROVE settled[i]
      <4>1. c \in DOMAIN calls /\ calls[c].subject = i
        BY DEF DeskType, ServerType
      <4>2. Decided(c)
        BY <3>1, <3>2, <4>1 DEF Decided
      <4> QED
        BY <4>1, <4>2 DEF BooksInv, RowsExplained, DecisionsStay
    <3>3. settled[i] => Recorded(i, Settling) \/ VerifiedBeside(i)
      BY <3>1 DEF BooksInv, RowsExplained, SettledIsExplained
    <3>4. i \in Accounts /\ ~settled[i] /\ log[i] # {} => Recorded(i, {"reactivate"})
      BY <3>1 DEF BooksInv, RowsExplained, ReactivationIsExplained
    <3> QED
      BY <3>2, <3>3, <3>4 DEF Recorded
  <2>2. CollectsOnce
    <3> SUFFICES ASSUME NEW i \in Billings, NEW c \in log[i], NEW d \in log[i], c < d,
                        calls[c].admin = calls[d].admin, calls[c].mounted,
                        calls[c].phase \notin {"failed", "torn"},
                        \A e \in c + 1 .. d - 1 :
                           ~(calls[e].admin = calls[c].admin /\ calls[e].op = "pay" /\ calls[e].subject # i)
                 PROVE  FALSE
      BY DEF CollectsOnce
    <3>1. i \in Subjects
      BY DEF Subjects
    <3>2. c \in DOMAIN calls /\ d \in DOMAIN calls /\ calls[c].subject = i /\ calls[d].subject = i
      BY <3>1 DEF DeskType, ServerType
    <3>3. ASSUME NEW e \in DOMAIN calls, calls[e].subject = i PROVE calls[e].op = "pay"
      <4>1. Fits(calls[e]) /\ calls[e].op \in DeskOps
        BY CallParts DEF DeskType
      <4> QED
        BY <3>3, <4>1 DEF Fits, DeskOps, Settling, Clearing
    <3>4. SameButton(c, d)
      BY <3>2, <3>3 DEF SameButton
    <3> QED
      BY <3>2, <3>4 DEF BooksInv, ButtonWaits, Waited
  <2> QED
    BY <2>1, <2>2
<1> QED
  BY <1>1, DeskTyped, BooksInit, BooksStep, PTL DEF Spec

-----------------------------------------------------------------------------
(* What an admin was told and what his tab shows.                          *)

(* The decisions an admin was told on a page are done, of those a query is *)
(* about.                                                                  *)
Told(a, q) ==
    {c \in DOMAIN calls : /\ calls[c].admin = a /\ calls[c].op \notin Unlogged
                          /\ calls[c].phase = "ok"
                          /\ calls[c].subject \in SubjectsOf(q)}

(* Fresh data and an answer under way come after all of them; stale data   *)
(* does not stay on the screen unless a fetch failed or an invalidation    *)
(* was missed.                                                             *)
Informed(query, told, shown) ==
    /\ (query.data # None /\ ~query.error /\ ~query.missed /\ ~query.stale) =>
          told \subseteq query.data.after
    /\ (query.fetch.phase = "answered" /\ ~query.missed) => told \subseteq query.fetch.answer.after
    /\ (shown /\ query.fetch.phase = "idle" /\ query.stale) =>
          query.error \/ query.missed \/ query.data = None

CacheKnows ==
    \A a \in Admins, q \in Queries : Informed(cache[a][q], Told(a, q), q \in QueriesOf(view[a]))

LEMMA InformedQueries ==
    ASSUME NEW query \in Query, NEW told, NEW shown \in BOOLEAN
    PROVE  /\ Informed(Invalidated(query, shown), told, shown)
           /\ Informed(FetchFailed(query), told, shown)
           /\ Informed(query, told, shown) =>
                 /\ Informed(query, told, FALSE)
                 /\ \A aged \in BOOLEAN : Informed(Observed(Stale(query, aged), FALSE), told, TRUE)
           /\ (Informed(query, told, shown) /\ query.fetch.phase = "answered") =>
                 Informed(Received(query), told, shown)
           /\ \A d \in Data : (Informed(query, told, shown) /\ told \subseteq d.after) =>
                 Informed(Answered(query, d), told, shown)
<1>1. Informed(Invalidated(query, shown), told, shown)
  BY DEF Informed, Invalidated, StartFetch, Query, Fetch
<1>2. Informed(FetchFailed(query), told, shown)
  BY DEF Informed, FetchFailed, NoFetch, Query, Fetch
<1>3. ASSUME Informed(query, told, shown)
      PROVE  /\ Informed(query, told, FALSE)
             /\ \A aged \in BOOLEAN : Informed(Observed(Stale(query, aged), FALSE), told, TRUE)
  BY <1>3 DEF Informed, Observed, Stale, StartFetch, Query, Fetch
<1>4. ASSUME Informed(query, told, shown), query.fetch.phase = "answered"
      PROVE  Informed(Received(query), told, shown)
  BY <1>4 DEF Informed, Received, NoFetch, Query, Fetch
<1>5. ASSUME NEW d \in Data, Informed(query, told, shown), told \subseteq d.after
      PROVE  Informed(Answered(query, d), told, shown)
  BY <1>5 DEF Informed, Answered, Query, Fetch
<1> QED
  BY <1>1, <1>2, <1>3, <1>4, <1>5

(* A decision on a page touches every query that is about its subject.     *)
LEMMA TouchesAll ==
    ASSUME NEW op \in DeskOps \ Unlogged, NEW i \in Subjects, Fits([op |-> op, subject |-> i]),
           NEW q \in Queries, i \in SubjectsOf(q)
    PROVE  q \in Touched(op, i)
<1>1. CASE q[1] # "list"
  <2>1. q \in {"detail", "log"} \X Accounts /\ i \in Accounts
    <3>1. q \in {"detail", "log"} \X Accounts
      <4>1. \A v \in Lists : <<"list", v>>[1] = "list"
        OBVIOUS
      <4> QED
        BY <1>1, <4>1 DEF Queries
    <3>2. SubjectsOf(q) = {q[2]}
      <4>1. q[2] \notin Lists
        BY <3>1, ViewsAssumption
      <4> QED
        BY <1>1, <4>1 DEF SubjectsOf, Lists
    <3> QED
      BY <3>1, <3>2
  <2>2. op \in {"suspend", "reactivate"}
    BY <2>1 DEF Fits, DeskOps, Settling, Clearing, Unlogged
  <2> QED
    BY <2>1, <2>2 DEF Touched
<1>2. CASE q[1] = "list"
  <2>1. PICK v \in Lists : q = <<"list", v>>
    BY <1>2 DEF Queries
  <2>2. i \in SubjectsOf(<<"list", v>>)
    BY <2>1
  <2>3. CASE v = "users"
    <3>1. i \in Accounts
      BY <2>2, <2>3 DEF SubjectsOf
    <3>2. op \in {"suspend", "reactivate"}
      BY <3>1 DEF Fits, DeskOps, Settling, Clearing, Unlogged
    <3> QED
      BY <2>1, <2>3, <3>2 DEF Touched
  <2>4. CASE v = "verifications"
    <3>1. i \in Workers
      BY <2>2, <2>4 DEF SubjectsOf
    <3>2. op \in {"approve", "reject"}
      BY <3>1 DEF Fits, DeskOps, Settling, Clearing, Unlogged
    <3> QED
      BY <2>1, <2>4, <3>2 DEF Touched
  <2>5. CASE v = "reviews"
    <3>1. i \in Reviews
      BY <2>2, <2>5 DEF SubjectsOf
    <3>2. op \in {"keep", "remove"}
      BY <3>1 DEF Fits, DeskOps, Settling, Clearing, Unlogged
    <3> QED
      BY <2>1, <2>5, <3>2 DEF Touched
  <2>6. CASE v \in {"billing", "unpaid"}
    <3>1. i \in Billings
      BY <2>2, <2>6 DEF SubjectsOf
    <3>2. op = "pay"
      BY <3>1 DEF Fits, DeskOps, Settling, Clearing, Unlogged
    <3> QED
      BY <2>1, <2>6, <3>2 DEF Touched
  <2> QED
    BY <2>3, <2>4, <2>5, <2>6 DEF Lists
<1> QED
  BY <1>1, <1>2

LEMMA CacheInit == Init => CacheKnows
<1> SUFFICES ASSUME Init, NEW a \in Admins, NEW q \in Queries
             PROVE  Informed(cache[a][q], Told(a, q), q \in QueriesOf(view[a]))
  BY DEF CacheKnows
<1>1. cache[a][q] = StartFetch(NewQuery, FALSE) \/ cache[a][q] = NewQuery
  BY DEF Init
<1>2. /\ cache[a][q].data = None /\ cache[a][q].stale = FALSE
      /\ cache[a][q].fetch.phase \in {"sent", "idle"}
  <2>1. /\ NewQuery.data = None /\ NewQuery.stale = FALSE /\ NewQuery.fetch.phase = "idle"
        /\ NewQuery \in Query
    BY NewQueryType DEF NewQuery, NoFetch
  <2>2. /\ StartFetch(NewQuery, FALSE).data = NewQuery.data
        /\ StartFetch(NewQuery, FALSE).stale = NewQuery.stale
        /\ StartFetch(NewQuery, FALSE).fetch.phase = "sent"
    BY <2>1 DEF StartFetch, Query
  <2> QED
    BY <1>1, <2>1, <2>2
<1> QED
  BY <1>2 DEF Informed

(* Nobody is told anything, and no tab changes.                            *)
LEMMA CacheStays ==
    ASSUME CacheKnows, UNCHANGED <<view, cache>>,
           \A c \in DOMAIN calls' : calls'[c].phase = "ok" =>
               /\ c \in DOMAIN calls /\ calls[c].phase = "ok"
               /\ calls'[c].admin = calls[c].admin /\ calls'[c].op = calls[c].op
               /\ calls'[c].subject = calls[c].subject
    PROVE  CacheKnows'
<1>1. \A a \in Admins, q \in Queries : Told(a, q)' \subseteq Told(a, q)
  BY DEF Told
<1> SUFFICES ASSUME NEW a \in Admins, NEW q \in Queries
             PROVE  Informed(cache[a][q], Told(a, q), q \in QueriesOf(view[a]))'
  BY DEF CacheKnows
<1>2. Informed(cache[a][q], Told(a, q), q \in QueriesOf(view[a]))
  BY DEF CacheKnows
<1>3. Told(a, q)' \subseteq Told(a, q)
  BY <1>1
<1> HIDE DEF Told
<1> QED
  BY <1>2, <1>3 DEF Informed

LEMMA CacheGoTo ==
    ASSUME DeskType, CacheKnows, NEW a \in Admins, NEW v \in Views, NEW aged \in BOOLEAN,
           GoTo(a, v, aged)
    PROVE  CacheKnows'
<1>1. /\ DOMAIN calls' = DOMAIN calls
      /\ \A d \in DOMAIN calls :
            /\ calls'[d].admin = calls[d].admin /\ calls'[d].op = calls[d].op
            /\ calls'[d].subject = calls[d].subject /\ calls'[d].phase = calls[d].phase
  BY Left DEF DeskType
<1>2. \A b \in Admins, q \in Queries : Told(b, q)' = Told(b, q)
  BY <1>1 DEF Told
<1> SUFFICES ASSUME NEW b \in Admins, NEW q \in Queries
             PROVE  Informed(cache[b][q], Told(b, q), q \in QueriesOf(view[b]))'
  BY DEF CacheKnows
<1> DEFINE told == Told(b, q)
<1>3. Informed(cache[b][q], told, q \in QueriesOf(view[b])) /\ told' = told
  BY <1>2 DEF CacheKnows
<1>4. cache[b][q] \in Query
  BY DEF DeskType, TabsType
<1> HIDE DEF told
<1>5. CASE b # a
  <2>1. cache'[b][q] = cache[b][q] /\ view'[b] = view[b]
    BY <1>5 DEF GoTo, DeskType, TabsType
  <2> QED
    BY <1>3, <2>1 DEF Informed, told
<1>6. CASE b = a /\ q \notin QueriesOf(v)
  <2>1. cache'[b][q] = cache[b][q] /\ view'[b] = v
    BY <1>6 DEF GoTo, DeskType, TabsType
  <2> QED
    BY <1>3, <1>6, <2>1 DEF Informed, told
<1>7. CASE b = a /\ q \in QueriesOf(v)
  <2>1. cache'[b][q] = Observed(Stale(cache[b][q], aged), FALSE) /\ view'[b] = v
    BY <1>7 DEF GoTo, DeskType, TabsType
  <2>2. Informed(cache[b][q], told, FALSE)
    BY <1>3 DEF Informed
  <2>3. Informed(Observed(Stale(cache[b][q], aged), FALSE), told, TRUE)
    BY <1>4, <2>2, InformedQueries
  <2> QED
    BY <1>3, <1>7, <2>1, <2>3 DEF Informed, told
<1> QED
  BY <1>5, <1>6, <1>7

LEMMA CacheAnswers ==
    ASSUME DeskType, CacheKnows, NEW a \in Admins, NEW q \in Queries,
           AnswerQuery(a, q) \/ ReceiveQuery(a, q) \/ QueryFails(a, q)
    PROVE  CacheKnows'
<1>1. UNCHANGED <<calls, view>>
  BY DEF AnswerQuery, ReceiveQuery, QueryFails
<1>2. /\ cache[a][q] \in Query
      /\ \A b \in Admins, r \in Queries : (b # a \/ r # q) => cache'[b][r] = cache[b][r]
  BY DEF DeskType, TabsType, AnswerQuery, ReceiveQuery, QueryFails
<1> DEFINE told == Told(a, q)
           shown == q \in QueriesOf(view[a])
<1>3. Informed(cache[a][q], told, shown)
  BY DEF CacheKnows
<1>4. Informed(cache'[a][q], told, shown)
  <2>1. PICK b \in BOOLEAN : b <=> shown
    OBVIOUS
  <2>2. Informed(cache[a][q], told, b)
    BY <1>3, <2>1 DEF Informed
  <2>3. CASE AnswerQuery(a, q)
    <3>1. PICK d \in Data : d = Snapshot(q)
      BY SnapshotType
    <3>2. told \subseteq d.after /\ cache'[a][q] = Answered(cache[a][q], d)
      BY <2>3, <3>1 DEF AnswerQuery, DeskType, TabsType, Snapshot, Told
    <3> HIDE DEF told, shown
    <3>3. \A e \in Data : told \subseteq e.after => Informed(Answered(cache[a][q], e), told, b)
      BY <1>2, <2>2, InformedQueries
    <3>4. Informed(cache'[a][q], told, b)
      BY <3>2, <3>3
    <3> QED
      BY <2>1, <3>4 DEF Informed
  <2>4. CASE ReceiveQuery(a, q)
    <3>2. cache'[a][q] = Received(cache[a][q]) /\ cache[a][q].fetch.phase = "answered"
      BY <2>4 DEF ReceiveQuery, DeskType, TabsType
    <3> HIDE DEF told, shown
    <3>3. Informed(cache'[a][q], told, b)
      BY <1>2, <2>2, <3>2, InformedQueries
    <3> QED
      BY <2>1, <3>3 DEF Informed
  <2>5. CASE QueryFails(a, q)
    <3>2. cache'[a][q] = FetchFailed(cache[a][q])
      BY <2>5 DEF QueryFails, DeskType, TabsType
    <3> HIDE DEF told, shown
    <3>3. Informed(cache'[a][q], told, b)
      BY <1>2, <3>2, InformedQueries
    <3> QED
      BY <2>1, <3>3 DEF Informed
  <2> QED
    BY <2>3, <2>4, <2>5
<1> SUFFICES ASSUME NEW b \in Admins, NEW r \in Queries
             PROVE  Informed(cache[b][r], Told(b, r), r \in QueriesOf(view[b]))'
  BY DEF CacheKnows
<1>5. Told(b, r)' = Told(b, r)
  BY <1>1 DEF Told
<1>6. Informed(cache[b][r], Told(b, r), r \in QueriesOf(view[b]))
  BY DEF CacheKnows
<1> HIDE DEF Told
<1>7. CASE b = a /\ r = q
  BY <1>1, <1>4, <1>5, <1>7 DEF Informed
<1>8. CASE b # a \/ r # q
  BY <1>1, <1>2, <1>5, <1>6, <1>8 DEF Informed
<1> QED
  BY <1>7, <1>8

LEMMA CacheSucceed ==
    ASSUME DeskType, CacheKnows, NEW c \in DOMAIN calls, Succeed(c)
    PROVE  CacheKnows'
<1> DEFINE a == calls[c].admin
           i == calls[c].subject
           touched == Touched(calls[c].op, i)
<1>1. a \in Admins /\ i \in Subjects /\ calls[c].op \in DeskOps /\ Fits(calls[c])
  BY CallParts DEF DeskType
<1>2. PICK p \in Phases : p = "ok" /\ calls' = [calls EXCEPT ![c].phase = p]
  BY DEF Succeed, Phases, Over
<1>3. /\ DOMAIN calls' = DOMAIN calls
      /\ \A d \in DOMAIN calls :
            /\ d # c => calls'[d] = calls[d]
            /\ calls'[d].admin = calls[d].admin /\ calls'[d].op = calls[d].op
            /\ calls'[d].subject = calls[d].subject
  BY <1>2, Moved DEF DeskType
<1> SUFFICES ASSUME NEW b \in Admins, NEW q \in Queries
             PROVE  Informed(cache[b][q], Told(b, q), q \in QueriesOf(view[b]))'
  BY DEF CacheKnows
<1>4. Informed(cache[b][q], Told(b, q), q \in QueriesOf(view[b])) /\ view' = view
  BY DEF CacheKnows, Succeed
<1>5. cache[b][q] \in Query
  BY DEF DeskType, TabsType
<1>6. CASE b = a /\ q \in touched
  <2>1. cache'[b][q] = Invalidated(cache[b][q], q \in QueriesOf(view[b]))
    BY <1>1, <1>6 DEF Succeed, DeskType, TabsType
  <2> DEFINE told == Told(b, q)'
  <2>2. Informed(cache'[b][q], told, q \in QueriesOf(view[b]))
    <3> HIDE DEF told, touched, a
    <3>1. CASE q \in QueriesOf(view[b])
      <4>1. cache'[b][q] = Invalidated(cache[b][q], TRUE)
        BY <2>1, <3>1 DEF Invalidated
      <4>2. Informed(cache'[b][q], told, TRUE)
        BY <1>5, <4>1, InformedQueries
      <4> QED
        BY <4>2 DEF Informed
    <3>2. CASE q \notin QueriesOf(view[b])
      <4>1. cache'[b][q] = Invalidated(cache[b][q], FALSE)
        BY <2>1, <3>2 DEF Invalidated
      <4>2. Informed(cache'[b][q], told, FALSE)
        BY <1>5, <4>1, InformedQueries
      <4> QED
        BY <3>2, <4>2 DEF Informed
    <3> QED
      BY <3>1, <3>2
  <2> QED
    BY <1>4, <2>2 DEF Informed
<1>7. CASE b # a \/ q \notin touched
  <2>1. cache'[b][q] = cache[b][q]
    BY <1>1, <1>7 DEF Succeed, DeskType, TabsType
  <2>2. b # a \/ calls[c].op \in Unlogged \/ i \notin SubjectsOf(q)
    <3>1. Fits([op |-> calls[c].op, subject |-> i])
      BY <1>1 DEF Fits
    <3> QED
      BY <1>1, <1>7, <3>1, TouchesAll
  <2>3. Told(b, q)' \subseteq Told(b, q)
    <3> HIDE DEF touched
    <3>1. \A d \in DOMAIN calls :
             \/ d # c
             \/ ~(/\ calls'[d].admin = b /\ calls'[d].op \notin Unlogged
                  /\ calls'[d].subject \in SubjectsOf(q))
      BY <1>3, <2>2
    <3> QED
      BY <1>3, <3>1 DEF Told
  <2> HIDE DEF Told, touched, a
  <2> QED
    BY <1>4, <2>1, <2>3 DEF Informed
<1> QED
  BY <1>6, <1>7

LEMMA CacheStep == DeskType /\ CacheKnows /\ [Next]_vars => CacheKnows'
<1> SUFFICES ASSUME DeskType, CacheKnows, [Next]_vars PROVE CacheKnows'
  OBVIOUS
<1>1. ASSUME NEW a \in Admins, NEW op \in DeskOps, NEW i \in Subjects, Decide(a, op, i)
      PROVE  CacheKnows'
  <2> DEFINE n == Len(calls) + 1
  <2>1. /\ DOMAIN calls = 1 .. n - 1 /\ DOMAIN calls' = 1 .. n /\ n \in Nat
        /\ \A d \in DOMAIN calls : calls'[d] = calls[d]
        /\ calls'[n].phase = "sent"
    BY <1>1, Sent DEF DeskType, Decide
  <2>2. UNCHANGED <<view, cache>>
    BY <1>1 DEF Decide, Request
  <2> HIDE DEF n
  <2>3. \A c \in DOMAIN calls' : c \in DOMAIN calls \/ c = n
    BY <2>1
  <2> QED
    BY <2>1, <2>2, <2>3, CacheStays
<1>2. ASSUME NEW i \in Subjects, Requeue(i) PROVE CacheKnows'
  BY <1>2, CacheStays DEF Requeue
<1>3. ASSUME NEW c \in DOMAIN calls, Load(c) \/ Commit(c) \/ CommitRest(c) PROVE CacheKnows'
  <2>1. UNCHANGED <<view, cache>>
    BY <1>3 DEF Load, Commit, CommitRest
  <2>2. \A d \in DOMAIN calls' : calls'[d].phase = "ok" =>
            /\ d \in DOMAIN calls /\ calls[d].phase = "ok"
            /\ calls'[d].admin = calls[d].admin /\ calls'[d].op = calls[d].op
            /\ calls'[d].subject = calls[d].subject
    BY <1>3, Handled
  <2> QED
    BY <2>1, <2>2, CacheStays
<1>4. ASSUME NEW c \in DOMAIN calls, Fail(c) \/ CallLost(c) PROVE CacheKnows'
  <2>1. UNCHANGED <<view, cache>>
    BY <1>4 DEF Fail, CallLost
  <2>2. PICK p \in Phases : p # "ok" /\ calls' = [calls EXCEPT ![c].phase = p]
    BY <1>4 DEF Fail, CallLost, Phases, Over
  <2>3. \A d \in DOMAIN calls' : calls'[d].phase = "ok" =>
            /\ d \in DOMAIN calls /\ calls[d].phase = "ok"
            /\ calls'[d].admin = calls[d].admin /\ calls'[d].op = calls[d].op
            /\ calls'[d].subject = calls[d].subject
    BY <2>2, Moved DEF DeskType
  <2> QED
    BY <2>1, <2>3, CacheStays
<1>5. CASE Next
  BY <1>1, <1>2, <1>3, <1>4, <1>5, Steps, CacheGoTo, CacheAnswers, CacheSucceed
<1>6. CASE UNCHANGED vars
  BY <1>6, CacheStays DEF vars
<1> QED
  BY <1>5, <1>6

(* Whatever an admin was told on a page is done shows in all his tab shows *)
(* once no fetch is under way: fresh data comes after every success he saw *)
(* about its subjects, because a success leaves no query about its subject *)
(* fresh, and a stale query does not rest on the screen.                   *)
(* (useSuspendUser.ts:13-18, useApproveVerification.ts:14-17,              *)
(* useKeepFlaggedReview.ts:15-18, useMarkWorkerBillingPaid.ts:14-17)       *)
THEOREM AdminsReadTheirWrites == Spec => []DeskReadsItsWrites
<1>1. CacheKnows => DeskReadsItsWrites
  <2> SUFFICES ASSUME CacheKnows, NEW a \in Admins, NEW q \in Queries,
                      cache[a][q].data # None, cache[a][q].fetch.phase = "idle",
                      ~cache[a][q].error, ~cache[a][q].missed,
                      q \in QueriesOf(view[a]) \/ ~cache[a][q].stale
               PROVE  Told(a, q) \subseteq cache[a][q].data.after
    BY DEF DeskReadsItsWrites, Told
  <2> QED
    BY DEF CacheKnows, Informed
<1> QED
  BY <1>1, DeskTyped, CacheInit, CacheStep, PTL DEF Spec
=============================================================================
