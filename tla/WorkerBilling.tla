---------------------------- MODULE WorkerBilling ----------------------------
(***************************************************************************)
(* The commission of one completed job: an admin records the cash that     *)
(* came in, and the worker or an admin downloads the invoice.              *)
(*                                                                         *)
(* Marking a commission paid is two transactions, the payment and then the *)
(* billing row; producing an invoice is a file in object storage and then  *)
(* its key in the billing row.  A request may die between any two awaits,  *)
(* and its client may send it again.                                       *)
(***************************************************************************)
EXTENDS FiniteSetsExt, Integers

CONSTANTS
    BillingRequests,  \* slots for the HTTP requests in flight
    PaymentIds,       \* bound: the rows payments can hold
    Keys,             \* bound: the objects the bucket can hold
    Null,             \* SQL NULL, and the field a request does not use
    AmountOwed,       \* WORKER_COMMISSION_AMOUNT when the job completed
    BillingAborts     \* may a request die between awaits?

ASSUME BillingAssumption ==
    /\ AmountOwed \in Nat
    /\ BillingAborts \in BOOLEAN
    /\ Null \notin PaymentIds \cup Keys \cup Nat \cup {"pending", "paid"}

VARIABLES
    billing,     \* the row of worker_billing
    payments,    \* the amount of each row of payments
    bucket,      \* the status printed on each stored invoice
    requests     \* the requests in flight and what each has loaded

billingVars == <<billing, payments, bucket, requests>>

(* OVERDUE exists in the enum and is written by nothing.                   *)
BillingStatus == {"pending", "paid"}

Billing == [status : BillingStatus,
            amount_paid : Nat,
            payment_id : PaymentIds \cup {Null},
            invoice_key : Keys \cup {Null}]

NewBilling == [status |-> "pending", amount_paid |-> 0,
               payment_id |-> Null, invoice_key |-> Null]

(* "loaded" the billing row; "recorded" the payment, or "uploaded" the     *)
(* file, which the billing row does not mention yet.                       *)
BillingRequest == [step : {"idle", "loaded", "recorded", "uploaded"},
                   op : {Null, "mark_paid", "invoice"},
                   row : Billing,
                   made : PaymentIds \cup Keys \cup {Null}]

NoRequest == [step |-> "idle", op |-> Null, row |-> NewBilling, made |-> Null]

LoadBilling(r, op) ==
    /\ requests[r] = NoRequest
    /\ requests' = [requests EXCEPT ![r] =
                      [@ EXCEPT !.step = "loaded", !.op = op, !.row = billing]]

Reached(r, op, step) == requests[r].op = op /\ requests[r].step = step

Close(r) == requests' = [requests EXCEPT ![r] = NoRequest]

GoOn(r, step, made) ==
    requests' = [requests EXCEPT ![r] = [@ EXCEPT !.step = step, !.made = made]]

-----------------------------------------------------------------------------
(* PATCH /worker-billing/{id}/mark-paid                                    *)

MarkPaidLoad(r) ==
    /\ billing.status # "paid"
    /\ LoadBilling(r, "mark_paid")
    /\ UNCHANGED <<billing, payments, bucket>>

Outstanding(row) == AmountOwed - row.amount_paid

(* PaymentService and the cash provider: a ledger row, committed, or       *)
(* "Amount must be positive".                                              *)
RecordPaymentUnkept(r) ==                                                      \* mutant
    /\ Reached(r, "mark_paid", "loaded")
    /\ \E p \in PaymentIds : payments[p] = Null /\ GoOn(r, "recorded", p)
    /\ UNCHANGED <<billing, payments, bucket>>

RecordPayment(r) ==
    /\ Reached(r, "mark_paid", "loaded")
    /\ IF Outstanding(requests[r].row) <= 0
         THEN Close(r) /\ UNCHANGED payments
         ELSE \E p \in PaymentIds :
                /\ payments[p] = Null
                /\ payments' = [payments EXCEPT ![p] = Outstanding(requests[r].row)]
                /\ GoOn(r, "recorded", p)
    /\ UNCHANGED <<billing, bucket>>

SetPaid(row, p) ==
    [row EXCEPT !.amount_paid = AmountOwed, !.status = "paid", !.payment_id = p]

MarkPaid(r) ==
    /\ Reached(r, "mark_paid", "recorded")
    /\ billing' = SetPaid(billing, requests[r].made)
    /\ Close(r)
    /\ UNCHANGED <<payments, bucket>>

-----------------------------------------------------------------------------
(* GET /worker-billing/{id}/invoice.  With a key the file is served as it  *)
(* is, which changes nothing.                                              *)

InvoiceLoad(r) ==
    /\ billing.invoice_key = Null
    /\ LoadBilling(r, "invoice")
    /\ UNCHANGED <<billing, payments, bucket>>

(* Rendered from the row the handler loaded, under a new uuid.             *)
InvoiceUploadNothing(r) ==                                                     \* mutant
    /\ Reached(r, "invoice", "loaded")
    /\ \E k \in Keys : bucket[k] = Null /\ GoOn(r, "uploaded", k)
    /\ UNCHANGED <<billing, payments, bucket>>

InvoiceUpload(r) ==
    /\ Reached(r, "invoice", "loaded")
    /\ \E k \in Keys :
         /\ bucket[k] = Null
         /\ bucket' = [bucket EXCEPT ![k] = requests[r].row.status]
         /\ GoOn(r, "uploaded", k)
    /\ UNCHANGED <<billing, payments>>

(* FastCRUD.update writes the fields that are set in the schema object.    *)
KeySavedOverRow(r) == [requests[r].row EXCEPT !.invoice_key = requests[r].made] \* mutant

KeySaved(r) == [billing EXCEPT !.invoice_key = requests[r].made]

InvoiceSaveKey(r) ==
    /\ Reached(r, "invoice", "uploaded")
    /\ billing' = KeySaved(r)
    /\ Close(r)
    /\ UNCHANGED <<payments, bucket>>

-----------------------------------------------------------------------------
(* What is committed or stored stays; the request is forgotten.            *)
AbortBilling(r) ==
    /\ BillingAborts
    /\ requests[r] # NoRequest
    /\ Close(r)
    /\ UNCHANGED <<billing, payments, bucket>>

BillingInit ==
    /\ billing = NewBilling
    /\ payments = [p \in PaymentIds |-> Null]
    /\ bucket = [k \in Keys |-> Null]
    /\ requests = [r \in BillingRequests |-> NoRequest]

Start(r) == MarkPaidLoad(r) \/ InvoiceLoad(r)

Resume(r) == RecordPayment(r) \/ MarkPaid(r) \/ InvoiceUpload(r) \/ InvoiceSaveKey(r)

BillingNext == \E r \in BillingRequests : Start(r) \/ Resume(r) \/ AbortBilling(r)

BillingSpec == BillingInit /\ [][BillingNext]_billingVars

-----------------------------------------------------------------------------
(* Properties.                                                             *)

(* Rows, the bucket and the requests keep their shape                      *)
(* (models/worker_billing.py, models/payment.py).                          *)
BillingTypeOK ==
    /\ billing \in Billing
    /\ payments \in [PaymentIds -> Nat \cup {Null}]
    /\ bucket \in [Keys -> BillingStatus \cup {Null}]
    /\ requests \in [BillingRequests -> BillingRequest]

(* A commission is paid exactly when its amount is, and it then names a    *)
(* payment the ledger holds, of the whole amount: whatever two admins and  *)
(* an invoice download do at once, and wherever a request dies             *)
(* (worker_billing_service.py, mark_worker_billing_paid).                  *)
PaidHasItsPayment ==
    /\ billing.status = "paid" <=> billing.payment_id # Null
    /\ billing.payment_id # Null => /\ payments[billing.payment_id] = AmountOwed
                                    /\ billing.amount_paid = AmountOwed

(* A key in the billing row always opens a file: a crash leaves a file     *)
(* nobody names, never a name without a file (invoice_service.py).         *)
InvoiceRetrievable == billing.invoice_key # Null => bucket[billing.invoice_key] # Null

(* An invoice that says paid was printed after a payment was recorded.     *)
SomePayment == \E p \in PaymentIds : payments[p] # Null

NoInvoiceAheadOfPayment == (\E k \in Keys : bucket[k] = "paid") => SomePayment

(* What is stored as an invoice can be opened and says nothing that is not *)
(* so yet, although it is rendered from a row loaded earlier and stored    *)
(* before the row names it.                                                *)
InvoicesTellTruth == InvoiceRetrievable /\ NoInvoiceAheadOfPayment

(* Saving an invoice key, a second admin's click or a request that resumes *)
(* late never makes a paid commission due again.                           *)
PaidForGood == [][billing.status = "paid" => billing'.status = "paid"]_billingVars

(* The ledger holds at most what the worker owed for the job, one payment  *)
(* of the outstanding balance (mark_worker_billing_paid).                  *)
Collected == MapThenSumSet(LAMBDA p : IF payments[p] = Null THEN 0 ELSE payments[p], PaymentIds)

CollectedAtMostOwed == Collected <= AmountOwed
=============================================================================
