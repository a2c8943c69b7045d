------------------------- MODULE CompletedJobProofs -------------------------
(***************************************************************************)
(* Proofs about what follows a completed job: WorkerBilling, the           *)
(* commission and its invoice, and Reviews, what customers say of the      *)
(* work. The two share no state; each keeps its own specification.         *)
(*                                                                         *)
(* WorkerBilling is for any number of requests and any amount, Reviews for *)
(* any jobs, workers, reporters and number of requests in flight. Requests *)
(* interleave and die anywhere.                                            *)
(***************************************************************************)
EXTENDS WorkerBilling, Reviews, TLAPS

-----------------------------------------------------------------------------
(***************************************************************************)
(* The commission. A request that resumes relies on the payment or the     *)
(* file it made: they stay where they are until the billing row names      *)
(* them.                                                                   *)
(***************************************************************************)

(* What a request in flight may rely on when it resumes: the payment or    *)
(* the file it made is still there, and a row loaded to be paid has no     *)
(* amount on it.                                                           *)
MadeIsKept(r) ==
    /\ requests[r].step = "recorded" => /\ requests[r].made \in PaymentIds
                                        /\ payments[requests[r].made] = AmountOwed
    /\ requests[r].step = "uploaded" => /\ requests[r].made \in Keys
                                        /\ bucket[requests[r].made] # Null
    /\ Reached(r, "mark_paid", "loaded") => requests[r].row.amount_paid = 0

DueIsUnpaid == billing.status = "pending" => billing.amount_paid = 0

BillingInv ==
    /\ BillingTypeOK
    /\ PaidHasItsPayment
    /\ InvoiceRetrievable
    /\ DueIsUnpaid
    /\ \A r \in BillingRequests : MadeIsKept(r)

LEMMA NewBillingIsBilling == NewBilling \in Billing
  BY DEF NewBilling, Billing, BillingStatus

LEMMA NoRequestTyped == NoRequest \in BillingRequest
  BY NewBillingIsBilling DEF NoRequest, BillingRequest

(* The rows as they are before any request.                                *)
LEMMA BillingAtFirst == BillingInit => BillingInv
  <1> SUFFICES ASSUME BillingInit PROVE BillingInv
    OBVIOUS
  <1> USE NewBillingIsBilling, NoRequestTyped, BillingAssumption
  <1>1. BillingTypeOK
    BY DEF BillingInit, BillingTypeOK
  <1>2. PaidHasItsPayment /\ InvoiceRetrievable /\ DueIsUnpaid
    BY DEF BillingInit, NewBilling, PaidHasItsPayment, InvoiceRetrievable, DueIsUnpaid
  <1>3. ASSUME NEW r \in BillingRequests PROVE MadeIsKept(r)
    BY DEF BillingInit, NoRequest, MadeIsKept, Reached
  <1> QED
    BY <1>1, <1>2, <1>3 DEF BillingInv

(* A step that leaves rows and bucket alone and sends request r to q.      *)
LEMMA BillingMoves ==
  ASSUME BillingInv, NEW r \in BillingRequests, NEW q \in BillingRequest,
         requests' = [requests EXCEPT ![r] = q], UNCHANGED <<billing, payments, bucket>>,
         q.step # "recorded", q.step # "uploaded",
         q.op = "mark_paid" /\ q.step = "loaded" => q.row.amount_paid = 0
  PROVE  BillingInv'
  <1>1. BillingTypeOK'
    BY DEF BillingInv, BillingTypeOK
  <1>2. ASSUME NEW other \in BillingRequests PROVE MadeIsKept(other)'
    <2>1. CASE other = r
      BY <2>1 DEF BillingInv, BillingTypeOK, MadeIsKept, Reached
    <2>2. CASE other # r
      BY <2>2 DEF BillingInv, BillingTypeOK, MadeIsKept, Reached
    <2> QED
      BY <2>1, <2>2
  <1> QED
    BY <1>1, <1>2 DEF BillingInv, PaidHasItsPayment, InvoiceRetrievable, DueIsUnpaid

LEMMA LoadBillingKeeps ==
  ASSUME BillingInv, NEW r \in BillingRequests, NEW op \in {"mark_paid", "invoice"}, LoadBilling(r, op),
         UNCHANGED <<billing, payments, bucket>>,
         op = "mark_paid" => billing.status = "pending"
  PROVE  BillingInv'
  <1> DEFINE q == [requests[r] EXCEPT !.step = "loaded", !.op = op, !.row = billing]
  <1>1. q \in BillingRequest
    BY DEF BillingInv, BillingTypeOK, BillingRequest
  <1>2. requests' = [requests EXCEPT ![r] = q]
    BY DEF LoadBilling
  <1>3. q.step = "loaded" /\ q.op = op /\ q.row = billing
    BY DEF BillingInv, BillingTypeOK, BillingRequest
  <1>4. op = "mark_paid" => q.row.amount_paid = 0
    BY <1>3 DEF BillingInv, DueIsUnpaid
  <1> HIDE DEF q
  <1> QED
    BY <1>1, <1>2, <1>3, <1>4, BillingMoves

LEMMA CloseKeeps ==
  ASSUME BillingInv, NEW r \in BillingRequests, Close(r), UNCHANGED <<billing, payments, bucket>>
  PROVE  BillingInv'
  <1>1. NoRequest.step = "idle"
    BY DEF NoRequest
  <1> QED
    BY <1>1, NoRequestTyped, BillingMoves DEF Close

LEMMA GoOnTyped ==
  ASSUME BillingTypeOK, NEW r \in BillingRequests, NEW step \in {"recorded", "uploaded"},
         NEW made \in PaymentIds \cup Keys, GoOn(r, step, made)
  PROVE  requests' \in [BillingRequests -> BillingRequest]
  <1> DEFINE q == [requests[r] EXCEPT !.step = step, !.made = made]
  <1>1. q \in BillingRequest
    BY DEF BillingTypeOK, BillingRequest
  <1>2. requests' = [requests EXCEPT ![r] = q]
    BY DEF GoOn
  <1> HIDE DEF q
  <1> QED
    BY <1>1, <1>2 DEF BillingTypeOK

LEMMA RecordPaymentKeeps ==
  ASSUME BillingInv, NEW r \in BillingRequests, RecordPayment(r)
  PROVE  BillingInv'
  <1>1. CASE Outstanding(requests[r].row) <= 0
    BY <1>1, CloseKeeps DEF RecordPayment
  <1>2. CASE ~(Outstanding(requests[r].row) <= 0)
    <2>1. PICK p \in PaymentIds :
            /\ payments[p] = Null
            /\ payments' = [payments EXCEPT ![p] = Outstanding(requests[r].row)]
            /\ GoOn(r, "recorded", p)
      BY <1>2 DEF RecordPayment
    <2>2. Outstanding(requests[r].row) = AmountOwed
      BY BillingAssumption DEF RecordPayment, BillingInv, MadeIsKept, Outstanding
    <2>3. payments' = [payments EXCEPT ![p] = AmountOwed] /\ UNCHANGED <<billing, bucket>>
      BY <2>1, <2>2 DEF RecordPayment
    <2>4. BillingTypeOK'
      BY <2>1, <2>3, BillingAssumption, GoOnTyped DEF BillingInv, BillingTypeOK
    <2>5. PaidHasItsPayment'
      BY <2>1, <2>3, BillingAssumption DEF BillingInv, BillingTypeOK, Billing, PaidHasItsPayment
    <2>6. ASSUME NEW other \in BillingRequests PROVE MadeIsKept(other)'
      <3>1. requests[r].op = "mark_paid" /\ requests[r].step = "loaded"
        BY DEF RecordPayment, Reached
      <3>2. CASE other = r
        BY <3>2, <2>1, <2>3 DEF BillingInv, BillingTypeOK, MadeIsKept, GoOn, Reached, BillingRequest
      <3>3. CASE other # r
        BY <3>3, <2>1, <2>3 DEF BillingInv, BillingTypeOK, MadeIsKept, GoOn, Reached, BillingRequest
      <3> QED
        BY <3>2, <3>3
    <2> QED
      BY <2>3, <2>4, <2>5, <2>6 DEF BillingInv, InvoiceRetrievable, DueIsUnpaid
  <1> QED
    BY <1>1, <1>2

LEMMA MarkPaidKeeps ==
  ASSUME BillingInv, NEW r \in BillingRequests, MarkPaid(r)
  PROVE  BillingInv'
  <1> DEFINE p == requests[r].made
  <1>1. p \in PaymentIds /\ payments[p] = AmountOwed
    BY DEF BillingInv, MadeIsKept, MarkPaid, Reached
  <1>2. /\ billing' = [billing EXCEPT !.amount_paid = AmountOwed, !.status = "paid", !.payment_id = p]
        /\ UNCHANGED <<payments, bucket>>
        /\ requests' = [requests EXCEPT ![r] = NoRequest]
    BY DEF MarkPaid, SetPaid, Close
  <1> HIDE DEF p
  <1>3. BillingTypeOK'
    BY <1>1, <1>2, NoRequestTyped, BillingAssumption DEF BillingInv, BillingTypeOK, Billing, BillingStatus
  <1>4. /\ billing'.status = "paid" /\ billing'.payment_id = p
        /\ billing'.amount_paid = AmountOwed /\ billing'.invoice_key = billing.invoice_key
    BY <1>2 DEF BillingInv, BillingTypeOK, Billing
  <1>5. PaidHasItsPayment' /\ InvoiceRetrievable' /\ DueIsUnpaid'
    BY <1>1, <1>2, <1>4, BillingAssumption
       DEF BillingInv, PaidHasItsPayment, InvoiceRetrievable, DueIsUnpaid
  <1>6. ASSUME NEW other \in BillingRequests PROVE MadeIsKept(other)'
    BY <1>2 DEF BillingInv, BillingTypeOK, MadeIsKept, Reached, NoRequest
  <1> QED
    BY <1>3, <1>5, <1>6 DEF BillingInv

LEMMA InvoiceUploadKeeps ==
  ASSUME BillingInv, NEW r \in BillingRequests, InvoiceUpload(r)
  PROVE  BillingInv'
  <1>1. PICK k \in Keys :
          /\ bucket[k] = Null
          /\ bucket' = [bucket EXCEPT ![k] = requests[r].row.status]
          /\ GoOn(r, "uploaded", k)
    BY DEF InvoiceUpload
  <1>2. requests[r].row.status \in BillingStatus /\ UNCHANGED <<billing, payments>>
    BY DEF InvoiceUpload, BillingInv, BillingTypeOK, BillingRequest, Billing
  <1>3. requests[r].row.status # Null
    BY <1>2, BillingAssumption DEF BillingStatus
  <1>4. BillingTypeOK'
    BY <1>1, <1>2, GoOnTyped DEF BillingInv, BillingTypeOK
  <1>5. InvoiceRetrievable'
    BY <1>1, <1>2, <1>3 DEF BillingInv, BillingTypeOK, Billing, InvoiceRetrievable
  <1>6. ASSUME NEW other \in BillingRequests PROVE MadeIsKept(other)'
    <2>1. CASE other = r
      BY <2>1, <1>1, <1>2, <1>3 DEF BillingInv, BillingTypeOK, MadeIsKept, GoOn, Reached, BillingRequest
    <2>2. CASE other # r
      BY <2>2, <1>1, <1>2, <1>3 DEF BillingInv, BillingTypeOK, MadeIsKept, GoOn, Reached, BillingRequest
    <2> QED
      BY <2>1, <2>2
  <1> QED
    BY <1>2, <1>4, <1>5, <1>6 DEF BillingInv, PaidHasItsPayment, DueIsUnpaid

LEMMA InvoiceSaveKeyKeeps ==
  ASSUME BillingInv, NEW r \in BillingRequests, InvoiceSaveKey(r)
  PROVE  BillingInv'
  <1> DEFINE k == requests[r].made
  <1>1. k \in Keys /\ bucket[k] # Null
    BY DEF BillingInv, MadeIsKept, InvoiceSaveKey, Reached
  <1>2. /\ billing' = [billing EXCEPT !.invoice_key = k]
        /\ UNCHANGED <<payments, bucket>>
        /\ requests' = [requests EXCEPT ![r] = NoRequest]
    BY DEF InvoiceSaveKey, KeySaved, Close
  <1> HIDE DEF k
  <1>3. BillingTypeOK'
    BY <1>1, <1>2, NoRequestTyped DEF BillingInv, BillingTypeOK, Billing
  <1>4. /\ billing'.status = billing.status /\ billing'.payment_id = billing.payment_id
        /\ billing'.amount_paid = billing.amount_paid /\ billing'.invoice_key = k
    BY <1>2 DEF BillingInv, BillingTypeOK, Billing
  <1>5. PaidHasItsPayment' /\ InvoiceRetrievable' /\ DueIsUnpaid'
    BY <1>1, <1>2, <1>4 DEF BillingInv, PaidHasItsPayment, InvoiceRetrievable, DueIsUnpaid
  <1>6. ASSUME NEW other \in BillingRequests PROVE MadeIsKept(other)'
    BY <1>2 DEF BillingInv, BillingTypeOK, MadeIsKept, Reached, NoRequest
  <1> QED
    BY <1>3, <1>5, <1>6 DEF BillingInv

LEMMA EveryBillingStep == BillingInv /\ [BillingNext]_billingVars => BillingInv'
  <1> SUFFICES ASSUME BillingInv, [BillingNext]_billingVars PROVE BillingInv'
    OBVIOUS
  <1>1. ASSUME NEW r \in BillingRequests, MarkPaidLoad(r) PROVE BillingInv'
    <2>1. billing.status = "pending"
      BY <1>1 DEF MarkPaidLoad, BillingInv, BillingTypeOK, Billing, BillingStatus
    <2> QED
      BY <1>1, <2>1, LoadBillingKeeps DEF MarkPaidLoad
  <1>2. ASSUME NEW r \in BillingRequests, InvoiceLoad(r) PROVE BillingInv'
    BY <1>2, LoadBillingKeeps DEF InvoiceLoad
  <1>3. ASSUME NEW r \in BillingRequests, Resume(r) PROVE BillingInv'
    BY <1>3, RecordPaymentKeeps, MarkPaidKeeps, InvoiceUploadKeeps, InvoiceSaveKeyKeeps DEF Resume
  <1>4. ASSUME NEW r \in BillingRequests, AbortBilling(r) PROVE BillingInv'
    BY <1>4, CloseKeeps DEF AbortBilling
  <1>5. CASE UNCHANGED billingVars
    BY <1>5 DEF billingVars, BillingInv, BillingTypeOK, PaidHasItsPayment, InvoiceRetrievable, DueIsUnpaid,
                MadeIsKept, Reached
  <1> QED
    BY <1>1, <1>2, <1>3, <1>4, <1>5 DEF BillingNext, Start

LEMMA BillingInductive == BillingSpec => []BillingInv
  BY BillingAtFirst, EveryBillingStep, PTL DEF BillingSpec

(* Rows, bucket and requests keep their shape (models/worker_billing.py).  *)
THEOREM BillingTypeCorrect == BillingSpec => []BillingTypeOK
  <1>1. BillingInv => BillingTypeOK
    BY DEF BillingInv
  <1> QED
    BY <1>1, BillingInductive, PTL

(* A commission is paid exactly when it names a payment of its amount,     *)
(* whatever interleaves or dies in mark_worker_billing_paid.               *)
THEOREM PaidMeansPaid == BillingSpec => []PaidHasItsPayment
  <1>1. BillingInv => PaidHasItsPayment
    BY DEF BillingInv
  <1> QED
    BY <1>1, BillingInductive, PTL

(* A request that loaded the row as paid has a payment behind it.          *)
PrintedIsPaid ==
    /\ NoInvoiceAheadOfPayment
    /\ \A r \in BillingRequests : requests[r].row.status = "paid" => SomePayment

LEMMA PrintedAtFirst == BillingInit => PrintedIsPaid
  BY BillingAssumption DEF BillingInit, PrintedIsPaid, NoInvoiceAheadOfPayment, NoRequest, NewBilling

(* The ledger only grows.                                                  *)
LEMMA PaymentsStay == BillingInv /\ [BillingNext]_billingVars => (SomePayment => SomePayment')
  <1> SUFFICES ASSUME BillingInv, [BillingNext]_billingVars, NEW p \in PaymentIds, payments[p] # Null
               PROVE  payments'[p] # Null
    BY DEF SomePayment
  <1>1. ASSUME NEW r \in BillingRequests, RecordPayment(r) PROVE payments'[p] # Null
    BY <1>1 DEF RecordPayment, BillingInv, BillingTypeOK
  <1>2. CASE UNCHANGED payments
    BY <1>2
  <1> QED
    BY <1>1, <1>2 DEF BillingNext, Start, Resume, AbortBilling, MarkPaidLoad, InvoiceLoad, MarkPaid,
                      InvoiceUpload, InvoiceSaveKey, billingVars

(* Only a load changes the row a request holds, and only an upload stores. *)
LEMMA PrintedStays == BillingInv /\ PrintedIsPaid /\ [BillingNext]_billingVars => PrintedIsPaid'
  <1> SUFFICES ASSUME BillingInv, PrintedIsPaid, [BillingNext]_billingVars PROVE PrintedIsPaid'
    OBVIOUS
  <1>1. billing.status = "paid" => SomePayment
    <2>1. billing.status = "paid" => /\ billing.payment_id \in PaymentIds
                                     /\ payments[billing.payment_id] \in Nat
      BY BillingAssumption DEF BillingInv, BillingTypeOK, Billing, PaidHasItsPayment
    <2> QED
      BY <2>1, BillingAssumption DEF SomePayment
  <1>2. ASSUME NEW r \in BillingRequests, requests'[r].row.status = "paid" PROVE SomePayment
    <2>1. requests'[r].row \in {requests[r].row, billing, NewBilling}
      <3>1. ASSUME NEW s \in BillingRequests, LoadBilling(s, "mark_paid") \/ LoadBilling(s, "invoice")
            PROVE  requests'[r].row \in {requests[r].row, billing}
        BY <3>1 DEF LoadBilling, BillingInv, BillingTypeOK, BillingRequest
      <3>2. ASSUME NEW s \in BillingRequests, Close(s)
            PROVE  requests'[r].row \in {requests[r].row, NewBilling}
        BY <3>2 DEF Close, NoRequest, BillingInv, BillingTypeOK
      <3>3. ASSUME NEW s \in BillingRequests, NEW step, NEW made, GoOn(s, step, made)
            PROVE  requests'[r].row = requests[r].row
        BY <3>3 DEF GoOn, BillingInv, BillingTypeOK, BillingRequest
      <3>4. CASE UNCHANGED billingVars
        BY <3>4 DEF billingVars
      <3>5. ASSUME NEW s \in BillingRequests, RecordPayment(s)
            PROVE  requests'[r].row \in {requests[r].row, NewBilling}
        BY <3>2, <3>3, <3>5 DEF RecordPayment
      <3>6. ASSUME NEW s \in BillingRequests, InvoiceUpload(s)
            PROVE  requests'[r].row = requests[r].row
        BY <3>3, <3>6 DEF InvoiceUpload
      <3> QED
        BY <3>1, <3>2, <3>4, <3>5, <3>6
           DEF BillingNext, Start, Resume, AbortBilling, MarkPaidLoad, InvoiceLoad, MarkPaid,
               InvoiceSaveKey
    <2> QED
      BY <1>1, <1>2, <2>1 DEF PrintedIsPaid, NewBilling
  <1>3. ASSUME NEW k \in Keys, bucket'[k] = "paid" PROVE SomePayment
    <2>1. ASSUME NEW r \in BillingRequests, InvoiceUpload(r)
          PROVE  bucket[k] = "paid" \/ requests[r].row.status = "paid"
      BY <1>3, <2>1 DEF InvoiceUpload, BillingInv, BillingTypeOK
    <2>2. UNCHANGED bucket \/ \E r \in BillingRequests : InvoiceUpload(r)
      BY DEF BillingNext, Start, Resume, AbortBilling, MarkPaidLoad, InvoiceLoad, MarkPaid, RecordPayment,
             InvoiceSaveKey, billingVars
    <2>3. bucket[k] = "paid" \/ \E r \in BillingRequests : requests[r].row.status = "paid"
      BY <1>3, <2>1, <2>2
    <2> QED
      BY <2>3 DEF PrintedIsPaid, NoInvoiceAheadOfPayment
  <1> QED
    BY <1>2, <1>3, PaymentsStay DEF PrintedIsPaid, NoInvoiceAheadOfPayment

(* The invoice key of a billing row always opens a file, and no file says  *)
(* paid before a payment was recorded (invoice_service.py, get_invoice_pdf,*)
(* against mark_worker_billing_paid).                                      *)
THEOREM InvoicesAreTrue == BillingSpec => []InvoicesTellTruth
  <1>1. BillingInv /\ PrintedIsPaid => InvoicesTellTruth
    BY DEF BillingInv, PrintedIsPaid, InvoicesTellTruth
  <1>2. BillingSpec => [](BillingInv /\ PrintedIsPaid)
    BY PrintedAtFirst, PrintedStays, BillingInductive, PTL DEF BillingSpec
  <1> QED
    BY <1>1, <1>2, PTL

(* No step of anyone takes PAID back (mark_worker_billing_paid,            *)
(* get_invoice_pdf).                                                       *)
THEOREM PaidStays == BillingSpec => PaidForGood
  <1>1. BillingInv /\ [BillingNext]_billingVars
          => [billing.status = "paid" => billing'.status = "paid"]_billingVars
    <2> SUFFICES ASSUME BillingInv, BillingNext, billing.status = "paid"
                 PROVE  billing'.status = "paid"
      OBVIOUS
    <2>1. billing \in Billing
      BY DEF BillingInv, BillingTypeOK
    <2>2. PICK r \in BillingRequests : Start(r) \/ Resume(r) \/ AbortBilling(r)
      BY DEF BillingNext
    <2>3. CASE UNCHANGED billing
      BY <2>3
    <2>4. CASE MarkPaid(r)
      BY <2>1, <2>4 DEF MarkPaid, SetPaid, Billing
    <2>5. CASE InvoiceSaveKey(r)
      BY <2>1, <2>5 DEF InvoiceSaveKey, KeySaved, Billing
    <2> QED
      BY <2>2, <2>3, <2>4, <2>5
         DEF Start, Resume, AbortBilling, MarkPaidLoad, InvoiceLoad, RecordPayment, InvoiceUpload
  <1> QED
    BY <1>1, BillingInductive, PTL DEF BillingSpec, PaidForGood

-----------------------------------------------------------------------------
(***************************************************************************)
(* Reviews. A submission that has inserted its row holds the key of it     *)
(* until it ends: nobody else stores that review, and it is none that an   *)
(* admin can remove. So a commit writes a review nobody has stored, the    *)
(* log of removals agrees with what is hidden, and a snapshot computed     *)
(* under way counts reviews that are stored when it lands.                 *)
(***************************************************************************)

(* The INSERT of request r is done and not committed.                      *)
Inserting(r) == req[r].op = "submit" /\ req[r].step \in {"written", "counted", "updated"}

(* What a request in flight has established and still relies on.           *)
AggregateSound(r) ==
    /\ Recalculates(r)
    /\ \A k \in req[r].seen :
          /\ k \in Reviews
          /\ Rates(k, WorkerOf(req[r].k))
          /\ reviews[k] # "absent" \/ (req[r].op = "submit" /\ k = req[r].k)

RequestInv(r) ==
    /\ req[r].op # None => req[r].k \in Reviews
    /\ req[r].op = "report" => req[r].reporter \in Reporters
    /\ Inserting(r) => reviews[req[r].k] = "absent"
    /\ req[r].op = "remove" => reviews[req[r].k] # "absent"
    /\ req[r].step \in {"counted", "updated"} => AggregateSound(r)

OneInserter ==
    \A r, o \in Requests : Inserting(r) /\ Inserting(o) /\ req[r].k = req[o].k => r = o

IInv ==
    /\ TypeOK
    /\ CountsStoredReviews
    /\ RemovalIsLogged
    /\ \A r \in Requests : RequestInv(r)
    /\ OneInserter
-----------------------------------------------------------------------------
LEMMA IdleIsRequest == Idle \in Request
  BY DEF Idle, Request

LEMMA Initially == Init => IInv
  <1> SUFFICES ASSUME Init PROVE IInv
    OBVIOUS
  <1>1. TypeOK
    BY IdleIsRequest DEF Init, TypeOK, ReviewState
  <1>2. CountsStoredReviews /\ RemovalIsLogged
    BY DEF Init, CountsStoredReviews, RemovalIsLogged
  <1>3. \A r \in Requests : RequestInv(r) /\ ~Inserting(r)
    BY ConstantsAssumption DEF Init, Idle, RequestInv, Inserting
  <1> QED
    BY <1>1, <1>2, <1>3 DEF IInv, OneInserter

(* A request that has written nothing, or whose writes are rolled back.    *)
HasNotWritten(q) == q.step \notin {"written", "counted", "updated"}

(* A step that changes no table and sends request r to q, which establishes *)
(* what q relies on and inserts nothing that another request inserts.      *)
LEMMA RequestMoves ==
  ASSUME IInv, NEW r \in Requests, NEW q \in Request,
         req' = [req EXCEPT ![r] = q], UNCHANGED <<reviews, rated, reports, log>>,
         RequestInv(r)',
         \A o \in Requests \ {r} :
            ~(Inserting(o) /\ q.op = "submit" /\ ~HasNotWritten(q) /\ req[o].k = q.k)
  PROVE  IInv'
  <1>1. req'[r] = q /\ \A o \in Requests \ {r} : req'[o] = req[o]
    BY DEF IInv, TypeOK
  <1>2. TypeOK'
    BY DEF IInv, TypeOK
  <1>3. CountsStoredReviews' /\ RemovalIsLogged'
    BY DEF IInv, CountsStoredReviews, RemovalIsLogged, Rates
  <1>4. ASSUME NEW o \in Requests PROVE RequestInv(o)'
    <2>1. CASE o # r
      <3>1. req'[o] = req[o] /\ RequestInv(o)
        BY <2>1, <1>1 DEF IInv
      <3> QED
        BY <3>1 DEF RequestInv, Inserting, AggregateSound, Recalculates, Rates, WorkerOf
    <2> QED
      BY <2>1
  <1>5. OneInserter'
    <2> SUFFICES ASSUME NEW a \in Requests, NEW b \in Requests,
                        Inserting(a)', Inserting(b)', req'[a].k = req'[b].k, a # b
                 PROVE  FALSE
      BY DEF OneInserter
    <2>1. a # r => Inserting(a)
      BY <1>1 DEF Inserting
    <2>2. b # r => Inserting(b)
      BY <1>1 DEF Inserting
    <2>3. CASE a # r /\ b # r
      BY <2>1, <2>2, <2>3, <1>1 DEF IInv, OneInserter
    <2>4. CASE a = r
      BY <2>2, <2>4, <1>1 DEF Inserting, HasNotWritten
    <2>5. CASE b = r
      BY <2>1, <2>5, <1>1 DEF Inserting, HasNotWritten
    <2> QED
      BY <2>3, <2>4, <2>5
  <1> QED
    BY <1>2, <1>3, <1>4, <1>5 DEF IInv

LEMMA FinishKeeps ==
  ASSUME IInv, NEW r \in Requests, Finish(r), UNCHANGED <<reviews, rated, reports, log>>
  PROVE  IInv'
  <1>1. RequestInv(r)'
    BY ConstantsAssumption DEF Finish, IInv, TypeOK, Idle, RequestInv, Inserting
  <1>2. HasNotWritten(Idle)
    BY DEF HasNotWritten, Idle
  <1> QED
    BY <1>1, <1>2, IdleIsRequest, RequestMoves DEF Finish

LEMMA LoadKeeps ==
  ASSUME IInv, NEW r \in Requests, NEW op \in {"submit", "report", "approve", "remove"},
         NEW k \in Reviews, NEW u \in Reporters \cup {None}, Load(r, op, k, u),
         op = "report" => u \in Reporters,
         op = "remove" => reviews[k] # "absent"
  PROVE  IInv'
  <1> DEFINE q == [Idle EXCEPT !.step = "loaded", !.op = op, !.k = k, !.reporter = u]
  <1>2. q \in Request
    BY IdleIsRequest DEF Request
  <1>3. req' = [req EXCEPT ![r] = q] /\ UNCHANGED <<reviews, rated, reports, log>>
    BY DEF Load
  <1>5. q.step = "loaded" /\ q.op = op /\ q.k = k /\ q.reporter = u
    BY DEF Idle
  <1> HIDE DEF q
  <1>4. req'[r] = q
    BY <1>3 DEF IInv, TypeOK
  <1>6. RequestInv(r)'
    BY <1>3, <1>4, <1>5 DEF RequestInv, Inserting
  <1>7. HasNotWritten(q)
    BY <1>5 DEF HasNotWritten
  <1> QED
    BY <1>2, <1>3, <1>6, <1>7, RequestMoves

-----------------------------------------------------------------------------
(* The steps of a handler that commit nothing.                             *)

LEMMA GoOnKeeps ==
  ASSUME IInv, NEW r \in Requests, req[r].op # None,
         NEW step \in {"checked", "written", "counted", "updated"},
         NEW set \in SUBSET (Reviews \cup Reporters),
         req' = [req EXCEPT ![r] = [@ EXCEPT !.step = step, !.seen = set]],
         UNCHANGED <<reviews, rated, reports, log>>,
         step # "checked" /\ req[r].op = "submit" =>
            /\ reviews[req[r].k] = "absent"
            /\ \A o \in Requests \ {r} : ~(Inserting(o) /\ req[o].k = req[r].k),
         step \in {"counted", "updated"} =>
            /\ Recalculates(r)
            /\ \A k \in set :
                  /\ k \in Reviews
                  /\ Rates(k, WorkerOf(req[r].k))
                  /\ reviews[k] # "absent" \/ (req[r].op = "submit" /\ k = req[r].k)
  PROVE  IInv'
  <1> DEFINE q == [req[r] EXCEPT !.step = step, !.seen = set]
  <1>1. q \in Request
    BY DEF IInv, TypeOK, Request
  <1>2. /\ q.step = step /\ q.op = req[r].op /\ q.k = req[r].k
        /\ q.reporter = req[r].reporter /\ q.seen = set
    BY DEF IInv, TypeOK, Request
  <1>3. req' = [req EXCEPT ![r] = q]
    OBVIOUS
  <1> HIDE DEF q
  <1>4. req'[r] = q
    BY <1>3 DEF IInv, TypeOK
  <1>5. RequestInv(r)
    BY DEF IInv
  <1>6. step \in {"counted", "updated"} => AggregateSound(r)'
    BY <1>2, <1>4 DEF AggregateSound, Recalculates, Rates, WorkerOf
  <1>7. RequestInv(r)'
    BY <1>2, <1>4, <1>5, <1>6 DEF RequestInv, Inserting
  <1>8. \A o \in Requests \ {r} :
          ~(Inserting(o) /\ q.op = "submit" /\ ~HasNotWritten(q) /\ req[o].k = q.k)
    BY <1>2 DEF HasNotWritten
  <1> QED
    BY <1>1, <1>3, <1>7, <1>8, RequestMoves

(* The same for a step that leaves what the handler saw alone.             *)
LEMMA GoToIsGoOn ==
  ASSUME TypeOK, NEW r \in Requests, NEW step, GoTo(r, step)
  PROVE  /\ req' = [req EXCEPT ![r] = [@ EXCEPT !.step = step, !.seen = req[r].seen]]
         /\ req[r].seen \in SUBSET (Reviews \cup Reporters)
  BY DEF TypeOK, Request, GoTo

LEMMA QuietStepKeeps ==
  ASSUME IInv, NEW r \in Requests,
         \/ SubmitCheck(r) \/ SubmitInsert(r) \/ ApproveSweep(r) \/ RemoveFlag(r)
         \/ CountReviews(r) \/ UpdateProfile(r)
  PROVE  IInv'
  <1>0. TypeOK /\ RequestInv(r) /\ req[r] \in Request
    BY DEF IInv, TypeOK
  <1>1. CASE SubmitCheck(r)
    <2>1. CASE Finish(r)
      BY <1>1, <2>1, FinishKeeps DEF SubmitCheck
    <2>2. CASE GoTo(r, "checked")
      BY <1>0, <1>1, <2>2, GoToIsGoOn, GoOnKeeps, ConstantsAssumption DEF SubmitCheck, At
    <2> QED
      BY <1>1, <2>1, <2>2 DEF SubmitCheck
  <1>2. CASE SubmitInsert(r)
    <2>1. CASE Finish(r)
      BY <1>2, <2>1, FinishKeeps DEF SubmitInsert
    <2>2. CASE GoTo(r, "written") /\ reviews[req[r].k] = "absent"
      <3>1. \A o \in Requests \ {r} : ~(Inserting(o) /\ req[o].k = req[r].k)
        BY <1>2 DEF SubmitInsert, Writing, Inserting
      <3> QED
        BY <1>0, <1>2, <2>2, <3>1, GoToIsGoOn, GoOnKeeps, ConstantsAssumption DEF SubmitInsert, At
    <2> QED
      BY <1>2, <2>1, <2>2 DEF SubmitInsert
  <1>3. CASE ApproveSweep(r)
    <2>1. reports[req[r].k] \in SUBSET (Reviews \cup Reporters)
      BY <1>0, <1>3, ConstantsAssumption DEF ApproveSweep, At, TypeOK, RequestInv
    <2> QED
      BY <1>0, <1>3, <2>1, GoOnKeeps, ConstantsAssumption DEF ApproveSweep, At, Saw
  <1>4. CASE RemoveFlag(r)
    BY <1>0, <1>4, GoToIsGoOn, GoOnKeeps, ConstantsAssumption DEF RemoveFlag, At
  <1>5. CASE CountReviews(r)
    <2> DEFINE set == Countable(r, WorkerOf(req[r].k))
    <2>1. set \in SUBSET (Reviews \cup Reporters)
      BY DEF Countable
    <2>2. \A k \in set :
             /\ k \in Reviews
             /\ Rates(k, WorkerOf(req[r].k))
             /\ reviews[k] # "absent" \/ (req[r].op = "submit" /\ k = req[r].k)
      BY DEF Countable, Shown
    <2>3. req[r].op # None /\ Recalculates(r) /\ req[r].step = "written"
      BY <1>5, ConstantsAssumption DEF CountReviews, Recalculates
    <2>4. req[r].op = "submit" =>
            /\ reviews[req[r].k] = "absent"
            /\ \A o \in Requests \ {r} : ~(Inserting(o) /\ req[o].k = req[r].k)
      BY <1>0, <2>3 DEF RequestInv, Inserting, IInv, OneInserter
    <2>5. /\ req' = [req EXCEPT ![r] = [@ EXCEPT !.step = "counted", !.seen = set]]
          /\ UNCHANGED <<reviews, rated, reports, log>>
      BY <1>5 DEF CountReviews, Saw
    <2> HIDE DEF set
    <2> QED
      BY <2>1, <2>2, <2>3, <2>4, <2>5, GoOnKeeps
  <1>6. CASE UpdateProfile(r)
    <2>1. AggregateSound(r) /\ req[r].op # None
      BY <1>0, <1>6, ConstantsAssumption DEF UpdateProfile, RequestInv, AggregateSound, Recalculates
    <2>2. req[r].op = "submit" =>
            /\ reviews[req[r].k] = "absent"
            /\ \A o \in Requests \ {r} : ~(Inserting(o) /\ req[o].k = req[r].k)
      BY <1>0, <1>6 DEF UpdateProfile, RequestInv, Inserting, IInv, OneInserter
    <2> QED
      BY <1>0, <1>6, <2>1, <2>2, GoToIsGoOn, GoOnKeeps DEF UpdateProfile, AggregateSound
  <1> QED
    BY <1>1, <1>2, <1>3, <1>4, <1>5, <1>6

-----------------------------------------------------------------------------
(* The commits.                                                            *)

(* A commit that ends request r, stores nothing another submission has     *)
(* inserted and makes no stored review vanish.                             *)
LEMMA CommitKeeps ==
  ASSUME IInv, NEW r \in Requests, Finish(r),
         reviews' \in [Reviews -> ReviewState],
         rated' \in [Workers -> SUBSET Reviews],
         reports' \in [Reviews -> SUBSET Reporters],
         log' \in [Reviews -> SUBSET Actions],
         CountsStoredReviews', RemovalIsLogged',
         \A k \in Reviews : reviews[k] # "absent" => reviews'[k] # "absent",
         \A o \in Requests \ {r} : Inserting(o) => reviews'[req[o].k] = "absent"
  PROVE  IInv'
  <1>1. req'[r] = Idle /\ \A o \in Requests \ {r} : req'[o] = req[o]
    BY DEF Finish, IInv, TypeOK
  <1>2. TypeOK'
    BY IdleIsRequest DEF Finish, IInv, TypeOK
  <1>3. ASSUME NEW o \in Requests PROVE RequestInv(o)'
    <2>1. CASE o = r
      BY <2>1, <1>1, ConstantsAssumption DEF Idle, RequestInv, Inserting
    <2>2. CASE o # r
      <3>1. req'[o] = req[o] /\ RequestInv(o)
        BY <2>2, <1>1 DEF IInv
      <3>2. AggregateSound(o) => AggregateSound(o)'
        BY <3>1 DEF AggregateSound, Recalculates, Rates, WorkerOf
      <3>3. req[o].op = "remove" => reviews'[req[o].k] # "absent"
        BY <3>1, ConstantsAssumption DEF RequestInv
      <3>4. Inserting(o)' = Inserting(o)
        BY <3>1 DEF Inserting
      <3> QED
        BY <2>2, <3>1, <3>2, <3>3, <3>4 DEF RequestInv
    <2> QED
      BY <2>1, <2>2
  <1>4. OneInserter'
    <2>1. ~Inserting(r)'
      BY <1>1 DEF Inserting, Idle
    <2>2. \A o \in Requests \ {r} : Inserting(o)' = Inserting(o) /\ req'[o].k = req[o].k
      BY <1>1 DEF Inserting
    <2> QED
      BY <2>1, <2>2 DEF IInv, OneInserter
  <1> QED
    BY <1>2, <1>3, <1>4 DEF IInv

(* The snapshot that a commit writes counts what is stored by then.        *)
LEMMA NewRatedIsStored ==
  ASSUME IInv, NEW r \in Requests, ReadyToCommit(r), rated' = NewRated(r),
         \A k \in Reviews : reviews[k] # "absent" => reviews'[k] # "absent",
         req[r].op = "submit" => reviews'[req[r].k] # "absent"
  PROVE  rated' \in [Workers -> SUBSET Reviews] /\ CountsStoredReviews'
  <1>1. rated \in [Workers -> SUBSET Reviews] /\ CountsStoredReviews /\ RequestInv(r)
    BY DEF IInv, TypeOK
  <1>2. CASE ~Recalculates(r)
    <2>1. rated' = rated
      BY <1>2 DEF NewRated
    <2> QED
      BY <1>1, <2>1 DEF CountsStoredReviews, Rates
  <1>3. CASE Recalculates(r)
    <2> DEFINE w0 == WorkerOf(req[r].k)
    <2>1. rated' = [rated EXCEPT ![w0] = req[r].seen]
      BY <1>3 DEF NewRated
    <2>2. AggregateSound(r)
      BY <1>1, <1>3 DEF ReadyToCommit, RequestInv
    <2>3. \A k \in req[r].seen : k \in Reviews /\ Rates(k, w0) /\ reviews'[k] # "absent"
      BY <2>2 DEF AggregateSound
    <2> HIDE DEF w0
    <2>4. rated' \in [Workers -> SUBSET Reviews]
      BY <1>1, <2>1, <2>3
    <2>5. ASSUME NEW w \in Workers, NEW k \in rated'[w]
          PROVE  Rates(k, w) /\ reviews'[k] # "absent"
      <3>1. CASE w = w0
        BY <1>1, <2>1, <2>3, <2>5, <3>1
      <3>2. CASE w # w0
        BY <1>1, <2>1, <2>5, <3>2 DEF CountsStoredReviews
      <3> QED
        BY <3>1, <3>2
    <2>6. CountsStoredReviews'
      BY <2>5 DEF CountsStoredReviews, Rates
    <2> QED
      BY <2>4, <2>6
  <1> QED
    BY <1>2, <1>3

LEMMA SubmitCommitKeeps == ASSUME IInv, NEW r \in Requests, SubmitCommit(r) PROVE IInv'
  <1> DEFINE k0 == req[r].k
  <1>1. Inserting(r) /\ k0 \in Reviews /\ reviews[k0] = "absent"
    BY ConstantsAssumption DEF SubmitCommit, ReadyToCommit, Inserting, IInv, RequestInv
  <1>2. /\ reviews' = [reviews EXCEPT ![k0] = "shown"] /\ reviews \in [Reviews -> ReviewState]
        /\ UNCHANGED <<reports, log>> /\ Finish(r) /\ rated' = NewRated(r) /\ ReadyToCommit(r)
    BY DEF SubmitCommit, IInv, TypeOK
  <1>3. reviews' \in [Reviews -> ReviewState] /\ reviews'[k0] = "shown"
    BY <1>1, <1>2 DEF ReviewState
  <1>4. \A k \in Reviews : reviews[k] # "absent" => reviews'[k] # "absent"
    BY <1>1, <1>2
  <1>5. rated' \in [Workers -> SUBSET Reviews] /\ CountsStoredReviews'
    BY <1>2, <1>3, <1>4, NewRatedIsStored
  <1>6. RemovalIsLogged'
    BY <1>1, <1>2 DEF IInv, RemovalIsLogged, ReviewState
  <1>7. \A o \in Requests \ {r} : Inserting(o) => reviews'[req[o].k] = "absent"
    BY <1>1, <1>2 DEF IInv, OneInserter, RequestInv
  <1>8. reports' \in [Reviews -> SUBSET Reporters] /\ log' \in [Reviews -> SUBSET Actions]
    BY <1>2 DEF IInv, TypeOK
  <1> HIDE DEF k0
  <1> QED
    BY <1>2, <1>3, <1>4, <1>5, <1>6, <1>7, <1>8, CommitKeeps

LEMMA RemoveCommitKeeps == ASSUME IInv, NEW r \in Requests, RemoveCommit(r) PROVE IInv'
  <1> DEFINE k0 == req[r].k
  <1>1. k0 \in Reviews /\ reviews[k0] # "absent"
    BY ConstantsAssumption DEF RemoveCommit, IInv, RequestInv
  <1>2. /\ reviews' = [reviews EXCEPT ![k0] = "flagged"] /\ reviews \in [Reviews -> ReviewState]
        /\ log' = [log EXCEPT ![k0] = @ \cup {"remove_review"}] /\ log \in [Reviews -> SUBSET Actions]
        /\ reports' = reports /\ Finish(r) /\ rated' = NewRated(r) /\ ReadyToCommit(r)
        /\ req[r].op = "remove"
    BY DEF RemoveCommit, IInv, TypeOK
  <1>3. reviews' \in [Reviews -> ReviewState] /\ log' \in [Reviews -> SUBSET Actions]
    BY <1>1, <1>2 DEF ReviewState, Actions
  <1>4. \A k \in Reviews : reviews[k] # "absent" => reviews'[k] # "absent"
    BY <1>1, <1>2
  <1>5. rated' \in [Workers -> SUBSET Reviews] /\ CountsStoredReviews'
    BY <1>2, <1>4, NewRatedIsStored
  <1>6. RemovalIsLogged'
    BY <1>1, <1>2 DEF IInv, RemovalIsLogged
  <1>7. \A o \in Requests \ {r} : Inserting(o) => reviews'[req[o].k] = "absent"
    BY <1>1, <1>2 DEF IInv, RequestInv
  <1>8. reports' \in [Reviews -> SUBSET Reporters]
    BY <1>2 DEF IInv, TypeOK
  <1> HIDE DEF k0
  <1> QED
    BY <1>2, <1>3, <1>4, <1>5, <1>6, <1>7, <1>8, CommitKeeps

LEMMA ReportCommitKeeps == ASSUME IInv, NEW r \in Requests, ReportCommit(r) PROVE IInv'
  <1>1. req[r].k \in Reviews /\ req[r].reporter \in Reporters
    BY ConstantsAssumption DEF ReportCommit, At, IInv, RequestInv
  <1>2. /\ reports' = [reports EXCEPT ![req[r].k] = @ \cup {req[r].reporter}]
        /\ UNCHANGED <<reviews, rated, log>> /\ Finish(r) /\ TypeOK
    BY DEF ReportCommit, IInv
  <1>3. reports' \in [Reviews -> SUBSET Reporters]
    BY <1>1, <1>2 DEF TypeOK
  <1>4. CountsStoredReviews' /\ RemovalIsLogged'
    BY <1>2 DEF IInv, CountsStoredReviews, RemovalIsLogged, Rates
  <1>5. \A o \in Requests \ {r} : Inserting(o) => reviews'[req[o].k] = "absent"
    BY <1>2 DEF IInv, RequestInv
  <1> QED
    BY <1>2, <1>3, <1>4, <1>5, CommitKeeps DEF TypeOK

LEMMA ApproveCommitKeeps == ASSUME IInv, NEW r \in Requests, ApproveCommit(r) PROVE IInv'
  <1>1. /\ reports' = [reports EXCEPT ![req[r].k] = @ \ req[r].seen]
        /\ log' = [log EXCEPT ![req[r].k] = @ \cup {"approve_review"}]
        /\ UNCHANGED <<reviews, rated>> /\ Finish(r) /\ TypeOK
    BY DEF ApproveCommit, IInv
  <1>2. reports' \in [Reviews -> SUBSET Reporters]
    BY <1>1 DEF TypeOK
  <1>3. log' \in [Reviews -> SUBSET Actions]
    BY <1>1 DEF TypeOK, Actions
  <1>4. CountsStoredReviews'
    BY <1>1 DEF IInv, CountsStoredReviews, Rates
  <1>5. RemovalIsLogged'
    BY <1>1 DEF IInv, RemovalIsLogged, TypeOK
  <1>6. \A o \in Requests \ {r} : Inserting(o) => reviews'[req[o].k] = "absent"
    BY <1>1 DEF IInv, RequestInv
  <1> QED
    BY <1>1, <1>2, <1>3, <1>4, <1>5, <1>6, CommitKeeps DEF TypeOK

-----------------------------------------------------------------------------
LEMMA ArriveKeeps == ASSUME IInv, NEW r \in Requests, Arrive(r) PROVE IInv'
  <1> PICK k \in Reviews : \/ SubmitLoad(r, k) \/ ApproveLoad(r, k) \/ RemoveLoad(r, k)
                           \/ \E u \in Reporters : ReportLoad(r, k, u)
    BY DEF Arrive
  <1>1. CASE SubmitLoad(r, k)
    BY <1>1, LoadKeeps DEF SubmitLoad
  <1>2. CASE ApproveLoad(r, k)
    BY <1>2, LoadKeeps DEF ApproveLoad
  <1>3. CASE RemoveLoad(r, k)
    BY <1>3, LoadKeeps DEF RemoveLoad, Shown
  <1>4. ASSUME NEW u \in Reporters, ReportLoad(r, k, u) PROVE IInv'
    BY <1>4, LoadKeeps DEF ReportLoad
  <1> QED
    BY <1>1, <1>2, <1>3, <1>4

LEMMA EveryStep == IInv /\ [Next]_vars => IInv'
  <1> SUFFICES ASSUME IInv, [Next]_vars PROVE IInv'
    OBVIOUS
  <1>1. CASE UNCHANGED vars
    BY <1>1 DEF vars, IInv, TypeOK, CountsStoredReviews, RemovalIsLogged, Rates, RequestInv,
                Inserting, AggregateSound, Recalculates, WorkerOf, OneInserter
  <1>2. ASSUME NEW r \in Requests, Arrive(r) PROVE IInv'
    BY <1>2, ArriveKeeps
  <1>3. ASSUME NEW r \in Requests, Advance(r) PROVE IInv'
    BY <1>3, QuietStepKeeps, SubmitCommitKeeps, RemoveCommitKeeps, ReportCommitKeeps,
       ApproveCommitKeeps DEF Advance
  <1>4. ASSUME NEW r \in Requests, Abort(r) PROVE IInv'
    BY <1>4, FinishKeeps DEF Abort
  <1> QED
    BY <1>1, <1>2, <1>3, <1>4 DEF Next

LEMMA Inductive == Spec => []IInv
  BY Initially, EveryStep, PTL DEF Spec

(* Rows and requests keep their shape under any interleaving.              *)
THEOREM TypeCorrect == Spec => []TypeOK
  <1>1. IInv => TypeOK
    BY DEF IInv
  <1> QED
    BY <1>1, Inductive, PTL

(* No snapshot counts a review that is not stored, even though submissions *)
(* count their own row before it is committed and may still die.           *)
THEOREM SnapshotsAreStored == Spec => []CountsStoredReviews
  <1>1. IInv => CountsStoredReviews
    BY DEF IInv
  <1> QED
    BY <1>1, Inductive, PTL

(* Hidden reviews are those whose removal is in the admins' log.           *)
THEOREM RemovalsAreLogged == Spec => []RemovalIsLogged
  <1>1. IInv => RemovalIsLogged
    BY DEF IInv
  <1> QED
    BY <1>1, Inductive, PTL

(* A commit stores a review nobody has stored before.                      *)
THEOREM ReviewedOnce == Spec => NoSecondReview
  <1>1. IInv => [\A r \in Requests : SubmitCommit(r) => reviews[req[r].k] = "absent"]_vars
    BY DEF IInv, SubmitCommit, ReadyToCommit, RequestInv, Inserting
  <1> QED
    BY <1>1, Inductive, PTL DEF NoSecondReview

-----------------------------------------------------------------------------
(***************************************************************************)
(* What the rating is worth.  An aggregate stays exact until somebody else *)
(* commits about the same worker: that is an overtaking.  So a snapshot    *)
(* written by a request that was not overtaken is that of the visible      *)
(* reviews, and stays so until the next one is written.                    *)
(***************************************************************************)

Counted(r) == req[r].step \in {"counted", "updated"}

(* What request r counted is what its worker will have once it commits.    *)
Fresh(r) ==
    Counted(r) /\ r \notin overtaken => req[r].seen = Countable(r, WorkerOf(req[r].k))

FreshInv == StaleOnlyIfOvertaken /\ \A r \in Requests : Fresh(r)

LEMMA FreshAtFirst == Init => FreshInv
  BY DEF Init, FreshInv, StaleOnlyIfOvertaken, Shown, Fresh, Counted, Idle

(* A step of request r that leaves reviews and snapshots alone.            *)
LEMMA MoveKeepsFresh ==
  ASSUME IInv, FreshInv, NEW r \in Requests, NEW q \in Request,
         req' = [req EXCEPT ![r] = q], UNCHANGED <<reviews, rated, outdated>>,
         overtaken' \in {overtaken, overtaken \ {r}}, Fresh(r)'
  PROVE  FreshInv'
  <1>1. \A o \in Requests \ {r} : req'[o] = req[o] /\ (o \in overtaken' <=> o \in overtaken)
    BY DEF IInv, TypeOK
  <1>2. ASSUME NEW o \in Requests \ {r} PROVE Fresh(o)'
    <2>1. Countable(o, WorkerOf(req[o].k))' = Countable(o, WorkerOf(req[o].k))
      BY <1>1 DEF Countable, Rates, WorkerOf, Shown
    <2> QED
      BY <1>1, <2>1 DEF FreshInv, Fresh, Counted
  <1>3. StaleOnlyIfOvertaken'
    BY DEF FreshInv, StaleOnlyIfOvertaken, Shown, Rates
  <1> QED
    BY <1>2, <1>3 DEF FreshInv

(* A request that has counted nothing relies on nothing.                   *)
LEMMA UncountedKeepsFresh ==
  ASSUME IInv, FreshInv, NEW r \in Requests, NEW q \in Request,
         q.step \notin {"counted", "updated"},
         req' = [req EXCEPT ![r] = q], UNCHANGED <<reviews, rated, outdated>>,
         overtaken' \in {overtaken, overtaken \ {r}}
  PROVE  FreshInv'
  <1>1. req'[r] = q
    BY DEF IInv, TypeOK
  <1>2. Fresh(r)'
    BY <1>1 DEF Fresh, Counted
  <1> QED
    BY <1>2, MoveKeepsFresh

LEMMA ArrivalKeepsFresh == ASSUME IInv, FreshInv, NEW r \in Requests, Arrive(r) PROVE FreshInv'
  <1>1. PICK op \in {"submit", "report", "approve", "remove"}, k \in Reviews, u \in Reporters \cup {None} :
          Load(r, op, k, u)
    BY DEF Arrive, SubmitLoad, ApproveLoad, RemoveLoad, ReportLoad
  <1>2. PICK q : q = [Idle EXCEPT !.step = "loaded", !.op = op, !.k = k, !.reporter = u]
    OBVIOUS
  <1>3. q \in Request /\ q.step = "loaded"
    BY <1>2 DEF Idle, Request
  <1>4. req' = [req EXCEPT ![r] = q] /\ UNCHANGED <<reviews, rated, outdated, overtaken>>
    BY <1>1, <1>2 DEF Load, history
  <1> QED
    BY <1>3, <1>4, UncountedKeepsFresh

LEMMA FinishKeepsFresh ==
  ASSUME IInv, FreshInv, NEW r \in Requests, Finish(r), UNCHANGED <<reviews, rated, outdated>>,
         overtaken' \in {overtaken, overtaken \ {r}}
  PROVE  FreshInv'
  <1>1. Idle \in Request /\ Idle.step \notin {"counted", "updated"}
    BY IdleIsRequest DEF Idle
  <1> QED
    BY <1>1, UncountedKeepsFresh DEF Finish

(* Steps within the transaction.                                           *)
LEMMA GoOnKeepsFresh ==
  ASSUME IInv, FreshInv, NEW r \in Requests, UNCHANGED <<reviews, rated, history>>,
         \/ GoTo(r, "checked") \/ GoTo(r, "written")
         \/ Saw(r, "written", reports[req[r].k]) /\ At(r, "approve", "loaded")
         \/ GoTo(r, "updated") /\ req[r].step = "counted"
         \/ CountReviews(r)
  PROVE  FreshInv'
  <1>1. req[r] \in Request /\ UNCHANGED <<overtaken, outdated>>
    BY DEF IInv, TypeOK, history
  <1>2. CASE GoTo(r, "checked") \/ GoTo(r, "written")
    <2>1. PICK step \in {"checked", "written"} : GoTo(r, step)
      BY <1>2
    <2>2. PICK q : q = [req[r] EXCEPT !.step = step]
      OBVIOUS
    <2>3. q \in Request /\ q.step = step
      BY <1>1, <2>2 DEF Request
    <2>4. req' = [req EXCEPT ![r] = q]
      BY <2>1, <2>2 DEF GoTo
    <2> QED
      BY <1>1, <2>3, <2>4, UncountedKeepsFresh
  <1>3. CASE Saw(r, "written", reports[req[r].k]) /\ At(r, "approve", "loaded")
    <2>1. reports[req[r].k] \in SUBSET (Reviews \cup Reporters)
      BY <1>3, ConstantsAssumption DEF IInv, TypeOK, RequestInv, At
    <2>2. PICK q : q = [req[r] EXCEPT !.step = "written", !.seen = reports[req[r].k]]
      OBVIOUS
    <2>3. q \in Request /\ q.step = "written"
      BY <1>1, <2>1, <2>2 DEF Request
    <2>4. req' = [req EXCEPT ![r] = q]
      BY <1>3, <2>2 DEF Saw
    <2> QED
      BY <1>1, <2>3, <2>4, UncountedKeepsFresh
  <1>4. CASE (GoTo(r, "updated") /\ req[r].step = "counted") \/ CountReviews(r)
    <2>1. PICK c : c = Countable(r, WorkerOf(req[r].k))
      OBVIOUS
    <2>2. c \in SUBSET (Reviews \cup Reporters)
      BY <2>1 DEF Countable
    <2>3. PICK q : q = IF CountReviews(r) THEN [req[r] EXCEPT !.step = "counted", !.seen = c]
                                          ELSE [req[r] EXCEPT !.step = "updated"]
      OBVIOUS
    <2>4. /\ q \in Request /\ q.op = req[r].op /\ q.k = req[r].k
          /\ CountReviews(r) => q.seen = c
          /\ ~CountReviews(r) => q.seen = req[r].seen
      BY <1>1, <2>2, <2>3 DEF Request
    <2>5. req' = [req EXCEPT ![r] = q]
      BY <1>4, <2>1, <2>3 DEF CountReviews, Saw, GoTo
    <2>6. req'[r] = q
      BY <2>5 DEF IInv, TypeOK
    <2>7. Countable(r, WorkerOf(req[r].k))' = c
      BY <2>1, <2>4, <2>6 DEF Countable, Rates, WorkerOf, Shown
    <2>8. ~CountReviews(r) /\ r \notin overtaken => req[r].seen = c
      BY <1>4, <2>1 DEF FreshInv, Fresh, Counted
    <2>9. Fresh(r)'
      BY <1>1, <2>4, <2>6, <2>7, <2>8 DEF Fresh
    <2> QED
      BY <1>1, <2>4, <2>5, <2>9, MoveKeepsFresh
  <1> QED
    BY <1>2, <1>3, <1>4

(* A commit leaves what it does not overtake exact, and writes what it     *)
(* counted: exact if nobody overtook it.                                   *)
LEMMA CommitKeepsFresh ==
  ASSUME IInv, FreshInv, NEW r \in Requests, SubmitCommit(r) \/ RemoveCommit(r)
  PROVE  FreshInv'
  <1> DEFINE k0 == req[r].k
             w0 == WorkerOf(k0)
             state == IF req[r].op = "submit" THEN "shown" ELSE "flagged"
  <1>0. TypeOK /\ RequestInv(r)
    BY DEF IInv
  <1>1. /\ req[r].op \in {"submit", "remove"} /\ ReadyToCommit(r)
        /\ reviews' = [reviews EXCEPT ![k0] = state]
        /\ rated' = NewRated(r)
        /\ req' = [req EXCEPT ![r] = Idle]
        /\ Overtake(r)
    BY DEF SubmitCommit, RemoveCommit, Finish
  <1>2. k0 \in Reviews
    BY <1>0, <1>1, ConstantsAssumption DEF RequestInv
  <1>3. k0[1] \in Jobs /\ k0[2] \in Sides /\ w0 \in Workers
    BY <1>2, ConstantsAssumption DEF WorkerOf
  <1>4. req'[r] = Idle /\ \A o \in Requests \ {r} : req'[o] = req[o]
    BY <1>0, <1>1 DEF TypeOK
  <1>5. \A k \in Reviews : Shown(k)' <=> IF k = k0 THEN req[r].op = "submit" ELSE Shown(k)
    BY <1>0, <1>1, <1>2 DEF Shown, TypeOK
  <1>6. \A w \in Workers : ~(Recalculates(r) /\ w = w0) => ~Rates(k0, w)
    BY <1>1 DEF Rates, Recalculates, WorkerOf
  <1>7. ASSUME NEW o \in Requests, Counted(o)', o \notin overtaken'
        PROVE  req'[o].seen = Countable(o, WorkerOf(req[o].k))'
    <2> DEFINE w == WorkerOf(req[o].k)
    <2>1. o # r /\ Counted(o)
      BY <1>4, <1>7 DEF Counted, Idle
    <2>2. ~(Recalculates(r) /\ w = w0) /\ o \notin overtaken
      BY <1>1, <1>7, <2>1 DEF Overtake, Counting, Counted, history
    <2>3. req[o].k \in Reviews /\ w \in Workers
      BY <2>1, ConstantsAssumption DEF IInv, RequestInv, AggregateSound, Recalculates, Counted, WorkerOf
    <2>4. \A k \in Reviews : Rates(k, w) => (Shown(k)' <=> Shown(k))
      BY <1>5, <1>6, <2>2, <2>3
    <2>5. req'[o] = req[o]
      BY <1>4, <2>1
    <2>6. Countable(o, WorkerOf(req[o].k))' = Countable(o, WorkerOf(req[o].k))
      BY <2>4, <2>5 DEF Countable, Rates, WorkerOf
    <2>7. req[o].seen = Countable(o, WorkerOf(req[o].k))
      BY <2>1, <2>2 DEF FreshInv, Fresh
    <2> QED
      BY <2>5, <2>6, <2>7
  <1>8. \A o \in Requests : Fresh(o)'
    BY <1>4, <1>7 DEF Fresh, Idle, Counted
  <1>9. ASSUME NEW w \in Workers, w \notin outdated'
        PROVE  rated'[w] = {k \in Reviews : Rates(k, w) /\ Shown(k)'}
    <2>1. CASE Recalculates(r) /\ w = w0
      <3>1. rated'[w] = req[r].seen
        BY <1>0, <1>1, <1>3, <2>1 DEF NewRated, TypeOK
      <3>2. r \notin overtaken
        BY <1>1, <1>9, <2>1 DEF Overtake
      <3>3. req[r].seen = Countable(r, w0)
        BY <1>1, <2>1, <3>2 DEF ReadyToCommit, FreshInv, Fresh, Counted
      <3> QED
        BY <1>5, <2>1, <3>1, <3>3 DEF Countable
    <2>2. CASE ~(Recalculates(r) /\ w = w0)
      <3>1. rated'[w] = rated[w]
        BY <1>0, <1>1, <1>3, <2>2 DEF NewRated, TypeOK
      <3>2. \A k \in Reviews : Rates(k, w) => (Shown(k)' <=> Shown(k))
        BY <1>5, <1>6, <2>2
      <3>3. w \notin outdated
        BY <1>1, <1>9, <2>2 DEF Overtake, history
      <3>4. rated[w] = {k \in Reviews : Rates(k, w) /\ Shown(k)}
        BY <3>3 DEF FreshInv, StaleOnlyIfOvertaken
      <3> QED
        BY <3>1, <3>2, <3>4
    <2> QED
      BY <2>1, <2>2
  <1>10. StaleOnlyIfOvertaken'
    BY <1>9 DEF StaleOnlyIfOvertaken, Rates
  <1> QED
    BY <1>8, <1>10 DEF FreshInv

LEMMA EveryStepKeepsFresh == IInv /\ FreshInv /\ [Next]_vars => FreshInv'
  <1> SUFFICES ASSUME IInv, FreshInv, [Next]_vars PROVE FreshInv'
    OBVIOUS
  <1>1. CASE UNCHANGED vars
    BY <1>1 DEF vars, history, FreshInv, StaleOnlyIfOvertaken, Shown, Rates, Fresh, Counted,
                Countable, WorkerOf
  <1>2. ASSUME NEW r \in Requests, Arrive(r) PROVE FreshInv'
    BY <1>2, ArrivalKeepsFresh
  <1>3. ASSUME NEW r \in Requests, Abort(r) PROVE FreshInv'
    BY <1>3, FinishKeepsFresh DEF Abort
  <1>4. ASSUME NEW r \in Requests, Advance(r) PROVE FreshInv'
    <2>1. CASE SubmitCommit(r) \/ RemoveCommit(r)
      BY <2>1, CommitKeepsFresh
    <2>2. CASE /\ SubmitCheck(r) \/ SubmitInsert(r) \/ ReportCommit(r) \/ ApproveCommit(r)
               /\ Finish(r)
      <3>1. UNCHANGED <<reviews, rated, overtaken, outdated>>
        BY <2>2 DEF SubmitCheck, SubmitInsert, ReportCommit, ApproveCommit, history
      <3> QED
        BY <2>2, <3>1, FinishKeepsFresh
    <2>3. CASE SubmitCheck(r) \/ SubmitInsert(r) \/ ApproveSweep(r) \/ RemoveFlag(r)
               \/ CountReviews(r) \/ UpdateProfile(r)
      <3>1. UNCHANGED <<reviews, rated, history>>
        BY <2>3 DEF SubmitCheck, SubmitInsert, ApproveSweep, RemoveFlag, CountReviews, UpdateProfile
      <3>2. \/ Finish(r) /\ (SubmitCheck(r) \/ SubmitInsert(r))
            \/ GoTo(r, "checked") \/ GoTo(r, "written")
            \/ Saw(r, "written", reports[req[r].k]) /\ At(r, "approve", "loaded")
            \/ GoTo(r, "updated") /\ req[r].step = "counted"
            \/ CountReviews(r)
        BY <2>3 DEF SubmitCheck, SubmitInsert, ApproveSweep, RemoveFlag, UpdateProfile
      <3> QED
        BY <2>2, <3>1, <3>2, GoOnKeepsFresh
    <2> QED
      BY <1>4, <2>1, <2>2, <2>3 DEF Advance, ReportCommit, ApproveCommit
  <1> QED
    BY <1>1, <1>2, <1>3, <1>4 DEF Next

LEMMA FreshForGood == Spec => []FreshInv
  BY FreshAtFirst, EveryStepKeepsFresh, Inductive, PTL DEF Spec

(* The snapshot of a worker is that of the visible reviews unless the      *)
(* request that wrote it was overtaken (rating_service.py,                 *)
(* recalculate_worker_rating): for any number of requests, jobs and        *)
(* workers, whatever rolls back.                                           *)
THEOREM RatingStaleOnlyIfOvertaken == Spec => []StaleOnlyIfOvertaken
  <1>1. FreshInv => StaleOnlyIfOvertaken
    BY DEF FreshInv
  <1> QED
    BY <1>1, FreshForGood, PTL

-----------------------------------------------------------------------------
(* One request at a time: nobody is overtaken.                             *)

Alone == \A r, o \in Requests : req[r] # Idle /\ req[o] # Idle => r = o

SerialInv == Alone /\ overtaken = {} /\ outdated = {}

(* A step of request r moves no other, and only an arrival finds it idle.  *)
LEMMA OnlyItself ==
  ASSUME IInv, NEW r \in Requests, Arrive(r) \/ Advance(r) \/ Abort(r)
  PROVE  /\ \A o \in Requests \ {r} : req'[o] = req[o]
         /\ Arrive(r) \/ req[r] # Idle
  <1>1. PICK q : req' = [req EXCEPT ![r] = q]
    BY DEF Arrive, Advance, Abort, SubmitLoad, ReportLoad, ApproveLoad, RemoveLoad, Load,
       SubmitCheck, SubmitInsert, SubmitCommit, ReportCommit, ApproveSweep, ApproveCommit,
       RemoveFlag, RemoveCommit, CountReviews, UpdateProfile, GoTo, Saw, Finish
  <1>2. Advance(r) => req[r].step # "idle"
    BY DEF Advance, SubmitCheck, SubmitInsert, SubmitCommit, ReportCommit, ApproveSweep,
       ApproveCommit, RemoveFlag, RemoveCommit, CountReviews, UpdateProfile, At, ReadyToCommit
  <1> QED
    BY <1>1, <1>2 DEF IInv, TypeOK, Abort, Idle

LEMMA EveryStepAlone ==
  ASSUME ~Concurrent
  PROVE  IInv /\ SerialInv /\ [Next]_vars => SerialInv'
  <1> SUFFICES ASSUME IInv, SerialInv, [Next]_vars PROVE SerialInv'
    OBVIOUS
  <1>1. CASE UNCHANGED vars
    BY <1>1 DEF vars, history, SerialInv, Alone
  <1>2. ASSUME NEW r \in Requests, Arrive(r) \/ Advance(r) \/ Abort(r) PROVE SerialInv'
    <2>1. \A o \in Requests \ {r} : req'[o] = req[o]
      BY <1>2, OnlyItself
    <2>2. \A o \in Requests \ {r} : req[o] = Idle
      <3>1. CASE Arrive(r)
        BY <3>1 DEF Arrive, SubmitLoad, ReportLoad, ApproveLoad, RemoveLoad, Load
      <3>2. CASE req[r] # Idle
        BY <3>2 DEF SerialInv, Alone
      <3> QED
        BY <1>2, <3>1, <3>2, OnlyItself
    <2>3. Alone'
      BY <2>1, <2>2 DEF Alone
    <2>4. CASE SubmitCommit(r) \/ RemoveCommit(r)
      <3>1. Overtake(r)
        BY <2>4 DEF SubmitCommit, RemoveCommit
      <3>2. \A w : Counting(w) \subseteq {r}
        BY <2>2 DEF Counting, Idle
      <3> QED
        BY <2>3, <3>1, <3>2 DEF SerialInv, Overtake, history
    <2>5. CASE ~(SubmitCommit(r) \/ RemoveCommit(r))
      <3>1. overtaken' \in {overtaken, overtaken \ {r}} /\ outdated' = outdated
        BY <1>2, <2>5 DEF history, Arrive, Advance, Abort, SubmitLoad, ReportLoad, ApproveLoad,
           RemoveLoad, Load, SubmitCheck, SubmitInsert, ReportCommit, ApproveSweep,
           ApproveCommit, RemoveFlag, CountReviews, UpdateProfile
      <3> QED
        BY <2>3, <3>1 DEF SerialInv
    <2> QED
      BY <2>4, <2>5
  <1> QED
    BY <1>1, <1>2 DEF Next

(* When requests come one at a time, and may still die anywhere, the       *)
(* rating of a worker is at every moment that of the visible reviews.      *)
THEOREM RatingIsCurrentAlone == ASSUME ~Concurrent PROVE Spec => []RatingIsCurrent
  <1>1. Init => SerialInv
    BY DEF Init, SerialInv, Alone, Idle
  <1>2. IInv /\ SerialInv /\ [Next]_vars => SerialInv'
    BY EveryStepAlone
  <1>3. SerialInv /\ FreshInv => RatingIsCurrent
    BY DEF SerialInv, FreshInv, StaleOnlyIfOvertaken, RatingIsCurrent
  <1> QED
    BY <1>1, <1>2, <1>3, Inductive, FreshForGood, PTL DEF Spec
=============================================================================
