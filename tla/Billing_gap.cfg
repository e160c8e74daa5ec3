SPECIFICATION Spec
CONSTANTS
  Web = {w1}
  Charges = {c1}
  MaxInvoices = 3
  Price = 2
  Amounts = {2}
  MaxPaid = 2
  TrialDays = 0
  Interval = 6
  Renewal = 4
  Notice = 2
  Terms = 1
  Grace = 1
  LastDay = 8
  MaxChanges = 1
  MaxExtensions = 0
  MaxFaults = 0
INVARIANTS
  NextInvoiceComes
