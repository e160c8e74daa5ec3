SPECIFICATION DailySpec
CONSTANTS
  Workers = {w1}
  Invoices = {i1}
  Busy = {i1}
  Amounts = {1}
  RentAmount = 2
  Fee = 1
  Due = 1
  Grace = 1
  Scopes <- NoMoney
  MaxCrashes = 0
  LastDay = 4
PROPERTIES
  LateFeeComes
