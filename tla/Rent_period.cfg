SPECIFICATION Spec
CONSTANTS
  Workers = {w1, w2}
  Invoices = {i1, i2}
  Busy = {i1}
  Amounts = {1}
  RentAmount = 2
  Fee = 1
  Due = 1
  Grace = 1
  Scopes <- Bounds
  MaxCrashes = 1
  LastDay = 3
SYMMETRY Symmetry
INVARIANTS
  TypeOK
  RowFollowsLedger
  PaidIsCovered
  OneInvoicePerPeriod
