SPECIFICATION Spec
CONSTANTS
  Cashiers = {x1, x2}
  Entries <- EitherWay
  MaxTotal = 2
  Properties = {1, 2}
  Units = {1, 2, 3}
  Layouts <- Mixed
  Slots = 1
  MaxPhotos = 2
SYMMETRY Symmetry
CHECK_DEADLOCK FALSE
INVARIANTS
  TypeOK
  CreditIsExplained
  DepartureIsPaid
  PagesAgree
