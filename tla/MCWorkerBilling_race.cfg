SPECIFICATION BillingSpec
CONSTANTS
    r1 = r1  r2 = r2  p1 = p1  p2 = p2  p3 = p3  k1 = k1  k2 = k2  k3 = k3
    Null = Null
    BillingRequests <- TwoRequests
    PaymentIds <- ThreePayments
    Keys <- ThreeKeys
    AmountOwed = 5
    BillingAborts = TRUE
SYMMETRY Interchangeable
CHECK_DEADLOCK FALSE
INVARIANTS
    PaidHasItsPayment
    InvoicesTellTruth
PROPERTIES
    PaidForGood
