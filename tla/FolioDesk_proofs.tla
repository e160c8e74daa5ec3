--------------------------- MODULE FolioDesk_proofs ---------------------------
(***************************************************************************)
(* The desk keeps its accounts for any number of cashiers and any amounts: *)
(* what a cashier has read is either still right or known to be overtaken. *)
(***************************************************************************)
EXTENDS Shopfront, TLAPS

(* What a row of the till says of the folio as it is now: the charges of a *)
(* proposal to come have not got less, the amount proposed is owed, the    *)
(* charges counted at check-out are all there are, and a folio found square*)
(* is square.                                                              *)
Right(row) ==
  /\ row.step = "sum" => row.charges <= charges
  /\ row.step = "form" => row.amount = 0 \/ row.amount <= charges - payments
  /\ row.step = "counted" => row.charges = charges
  /\ row.step = "square" => charges = payments

Readings == \A c \in Cashiers \ overtaken : Right(till[c])

FolioInv == FolioTypeOK /\ Readings /\ CreditIsExplained /\ DepartureIsPaid

Steps == {"idle", "owes", "again", "sum", "form", "leaving", "counted", "square"}

-----------------------------------------------------------------------------
(* Type correctness.                                                       *)

LEMMA TotalIsInt == Total \subseteq Int /\ 0 \in Total /\ MaxTotal \in Nat
  BY FolioDeskAssumption DEF Total

(* The rows a cashier goes to.                                             *)
LEMMA RowIs ==
  ASSUME NEW step \in Steps, NEW n \in Total, NEW amount \in -2 * MaxTotal .. 2 * MaxTotal
  PROVE  /\ Row(step, n, amount) \in Till
         /\ Row(step, n, amount).step = step
         /\ Row(step, n, amount).charges = n
         /\ Row(step, n, amount).amount = amount
  BY DEF Row, Till, Steps

LEMMA Zero == 0 \in Total /\ 0 \in -2 * MaxTotal .. 2 * MaxTotal
  BY FolioDeskAssumption DEF Total

LEMMA Proposal ==
  ASSUME NEW m \in Total, NEW n \in Total
  PROVE  m - n \in -2 * MaxTotal .. 2 * MaxTotal
  BY FolioDeskAssumption DEF Total

(* A cashier that moves on leaves the others where they are.               *)
LEMMA GoesType ==
  ASSUME FolioTypeOK, NEW c \in Cashiers, NEW row \in Till, Goes(c, row)
  PROVE  /\ till' \in [Cashiers -> Till]
         /\ till'[c] = row
         /\ \A d \in Cashiers \ {c} : till'[d] = till[d]
  BY DEF FolioTypeOK, Goes

LEMMA TillType ==
  ASSUME FolioTypeOK, NEW c \in Cashiers
  PROVE  /\ till[c] \in Till /\ till[c].step \in Steps
         /\ till[c].charges \in Total /\ till[c].amount \in Int
  BY FolioDeskAssumption DEF FolioTypeOK, Till, Steps

LEMMA Sums ==
  ASSUME FolioTypeOK
  PROVE  charges \in Int /\ payments \in Int
  BY TotalIsInt DEF FolioTypeOK

LEMMA ChargeTypes ==
  ASSUME FolioTypeOK, NEW a \in Int, Charge(a)
  PROVE  /\ charges' \in Total /\ payments' \in Total /\ overtaken' \subseteq Cashiers
         /\ late' \in BOOLEAN /\ excused' \in BOOLEAN
  <1>1. excused' \in BOOLEAN
    BY DEF Charge, Excuse
  <1>2. QED
    BY <1>1 DEF FolioTypeOK, Charge

LEMMA CreditTypes ==
  ASSUME FolioTypeOK, NEW a \in Int, NEW reason, Credit(a, reason)
  PROVE  /\ charges' \in Total /\ payments' \in Total /\ overtaken' \subseteq Cashiers
         /\ late' \in BOOLEAN /\ excused' \in BOOLEAN
  <1>1. excused' \in BOOLEAN
    BY DEF Credit, Excuse
  <1>2. QED
    BY <1>1 DEF FolioTypeOK, Credit

-----------------------------------------------------------------------------
(* Steps on the folio and in the till.                                     *)

LEMMA ChargeKeeps ==
  ASSUME FolioInv, NEW a \in Int, Charge(a), UNCHANGED <<left, till>>
  PROVE  Readings' /\ CreditIsExplained' /\ DepartureIsPaid'
  <1>1. charges' = charges + a /\ payments' = payments /\ late' = left
        /\ excused' = (payments' > charges' /\ (excused \/ a < 0))
    BY DEF Charge, Excuse
  <1>2. charges \in Int /\ payments \in Int
    BY Sums DEF FolioInv
  <1>3. ASSUME NEW d \in Cashiers \ overtaken'
        PROVE  Right(till[d])'
    <2>1. /\ d \notin overtaken /\ ~At(d, "counted") /\ ~At(d, "square")
          /\ a < 0 => ~At(d, "sum") /\ ~At(d, "form")
      BY <1>3 DEF Charge
    <2>2. Right(till[d]) /\ till'[d] = till[d]
      BY <2>1 DEF FolioInv, Readings
    <2>3. till[d].charges \in Int /\ till[d].amount \in Int
      BY TillType, TotalIsInt DEF FolioInv
    <2>4. till[d].step = "sum" => till[d].charges <= charges'
      <3>1. CASE a < 0
        BY <2>1, <3>1 DEF At
      <3>2. CASE a >= 0
        <4>1. till[d].step = "sum" => till[d].charges <= charges
          BY <2>2 DEF Right
        <4>2. QED
          BY <1>1, <1>2, <2>3, <3>2, <4>1
      <3>3. QED
        BY <3>1, <3>2
    <2>5. till[d].step = "form" => till[d].amount = 0 \/ till[d].amount <= charges' - payments'
      <3>1. CASE a < 0
        BY <2>1, <3>1 DEF At
      <3>2. CASE a >= 0
        <4>1. till[d].step = "form" => till[d].amount = 0 \/ till[d].amount <= charges - payments
          BY <2>2 DEF Right
        <4>2. QED
          BY <1>1, <1>2, <2>3, <3>2, <4>1
      <3>3. QED
        BY <3>1, <3>2
    <2>6. QED
      BY <2>1, <2>2, <2>4, <2>5 DEF Right, At
  <1>4. Readings'
    BY <1>3 DEF Readings
  <1>5. CreditIsExplained'
    <2>1. ASSUME payments' > charges', ~(a < 0)
          PROVE  payments > charges
      BY <1>1, <1>2, <2>1
    <2>2. payments > charges => excused
      BY DEF FolioInv, CreditIsExplained
    <2>3. QED
      BY <1>1, <2>1, <2>2 DEF CreditIsExplained
  <1>6. DepartureIsPaid'
    BY <1>1 DEF FolioInv, DepartureIsPaid
  <1>7. QED
    BY <1>4, <1>5, <1>6

(* A payment outdates the proposals that are open and the folios found     *)
(* square; c is the cashier that takes it, if any does.                    *)
LEMMA CreditOutdates ==
  ASSUME FolioInv, NEW a \in Int, NEW reason, Credit(a, reason),
         NEW d \in Cashiers \ overtaken', till'[d] = till[d]
  PROVE  Right(till[d])'
  <1>1. charges' = charges
    BY DEF Credit
  <1>2. d \notin overtaken /\ ~At(d, "square") /\ ~At(d, "form")
    BY DEF Credit
  <1>3. Right(till[d])
    BY <1>2 DEF FolioInv, Readings
  <1>4. QED
    BY <1>1, <1>2, <1>3 DEF Right, At

LEMMA CreditDeparts ==
  ASSUME FolioInv, NEW a \in Int, NEW reason, Credit(a, reason), UNCHANGED left
  PROVE  DepartureIsPaid'
  BY DEF FolioInv, DepartureIsPaid, Credit

(* A cashier that goes on to a row that is right keeps the readings right. *)
LEMMA MoveKeeps ==
  ASSUME FolioInv, NEW c \in Cashiers, NEW row \in Till, Goes(c, row),
         UNCHANGED <<charges, payments, left, late, excused>>,
         overtaken' \in {overtaken, overtaken \ {c}},
         c \notin overtaken' => Right(row)
  PROVE  Readings' /\ CreditIsExplained' /\ DepartureIsPaid'
  <1>1. /\ till'[c] = row
        /\ \A d \in Cashiers \ {c} : till'[d] = till[d]
    BY GoesType DEF FolioInv
  <1>2. ASSUME NEW d \in Cashiers \ overtaken'
        PROVE  Right(till[d])'
    <2>1. CASE d = c
      BY <1>1, <2>1 DEF Right
    <2>2. CASE d # c
      <3>1. d \notin overtaken /\ till'[d] = till[d]
        BY <1>1, <2>2
      <3>2. Right(till[d])
        BY <3>1 DEF FolioInv, Readings
      <3>3. QED
        BY <3>1, <3>2 DEF Right
    <2>3. QED
      BY <2>1, <2>2
  <1>3. Readings'
    BY <1>2 DEF Readings
  <1>4. CreditIsExplained' /\ DepartureIsPaid'
    BY DEF FolioInv, CreditIsExplained, DepartureIsPaid
  <1>5. QED
    BY <1>3, <1>4

(* Rows that claim nothing.                                                *)
LEMMA RightRow ==
  ASSUME NEW step \in Steps \ {"sum", "form", "counted", "square"}, NEW n \in Total
  PROVE  Row(step, n, 0) \in Till /\ Right(Row(step, n, 0))
  <1>1. Row(step, n, 0) \in Till /\ Row(step, n, 0).step = step
    BY RowIs, Zero
  <1>2. QED
    BY <1>1 DEF Right

-----------------------------------------------------------------------------
(* One lemma per action.                                                   *)

LEMMA EntriesAreInt == Entries \subseteq Int
  BY FolioDeskAssumption

LEMMA PostChargeKeeps ==
  ASSUME FolioInv, PostCharge
  PROVE  FolioInv'
  <1>1. PICK a \in Entries : Charge(a)
    BY DEF PostCharge
  <1>2. a \in Int
    BY EntriesAreInt
  <1>3. UNCHANGED <<left, till, audit>>
    BY DEF PostCharge
  <1>4. FolioTypeOK'
    BY <1>1, <1>2, <1>3, ChargeTypes DEF FolioInv, FolioTypeOK
  <1>5. Readings' /\ CreditIsExplained' /\ DepartureIsPaid'
    BY <1>1, <1>2, <1>3, ChargeKeeps
  <1>6. QED
    BY <1>4, <1>5 DEF FolioInv

LEMMA SyncPaymentKeeps ==
  ASSUME FolioInv, SyncPayment
  PROVE  FolioInv'
  <1>1. PICK a \in Entries : Credit(a, TRUE)
    BY DEF SyncPayment
  <1>2. a \in Int
    BY EntriesAreInt
  <1>3. UNCHANGED <<left, till, audit>>
    BY DEF SyncPayment
  <1>4. FolioTypeOK'
    BY <1>1, <1>2, <1>3, CreditTypes DEF FolioInv, FolioTypeOK
  <1>5. Readings'
    BY <1>1, <1>2, <1>3, CreditOutdates DEF Readings
  <1>6. CreditIsExplained'
    BY <1>1 DEF Credit, Excuse, CreditIsExplained
  <1>7. DepartureIsPaid'
    BY <1>1, <1>2, <1>3, CreditDeparts
  <1>8. QED
    BY <1>4, <1>5, <1>6, <1>7 DEF FolioInv

(* An amount that is the one proposed, of a proposal not overtaken, leaves *)
(* no more credit than there was.                                          *)
LEMMA PayKeeps ==
  ASSUME FolioInv, NEW c \in Cashiers, Pay(c)
  PROVE  FolioInv'
  <1>1. PICK a \in Entries \cup {till[c].amount} :
               Credit(a, a # till[c].amount \/ c \in overtaken)
    BY DEF Pay
  <1>2. a \in Int
    BY EntriesAreInt, TillType DEF FolioInv
  <1>3. UNCHANGED <<left, audit>> /\ Goes(c, Idle)
    BY DEF Pay
  <1>4. Idle \in Till /\ Idle.step = "idle"
    BY RowIs, Zero DEF Idle, Steps
  <1>5. /\ till' \in [Cashiers -> Till]
        /\ till'[c] = Idle
        /\ \A d \in Cashiers \ {c} : till'[d] = till[d]
    BY <1>3, <1>4, GoesType DEF FolioInv
  <1>6. FolioTypeOK'
    BY <1>1, <1>2, <1>3, <1>5, CreditTypes DEF FolioInv, FolioTypeOK
  <1>7. ASSUME NEW d \in Cashiers \ overtaken'
        PROVE  Right(till[d])'
    <2>1. CASE d = c
      BY <1>4, <1>5, <2>1 DEF Right
    <2>2. CASE d # c
      BY <1>1, <1>2, <1>5, <2>2, CreditOutdates
    <2>3. QED
      BY <2>1, <2>2
  <1>8. Readings'
    BY <1>7 DEF Readings
  <1>9. CreditIsExplained'
    <2>1. /\ charges' = charges /\ payments' = payments + a
          /\ excused' = (payments' > charges' /\ (excused \/ (a # till[c].amount \/ c \in overtaken)))
      BY <1>1 DEF Credit, Excuse
    <2>2. CASE a # till[c].amount \/ c \in overtaken
      BY <2>1, <2>2 DEF CreditIsExplained
    <2>3. CASE a = till[c].amount /\ c \notin overtaken
      <3>1. a = 0 \/ a <= charges - payments
        BY <2>3 DEF FolioInv, Readings, Right, Pay, At
      <3>2. charges \in Int /\ payments \in Int
        BY Sums DEF FolioInv
      <3>3. payments' > charges' => payments > charges
        BY <1>2, <2>1, <3>1, <3>2
      <3>4. QED
        BY <2>1, <3>3 DEF FolioInv, CreditIsExplained
    <2>4. QED
      BY <2>2, <2>3
  <1>10. DepartureIsPaid'
    BY <1>1, <1>2, <1>3, CreditDeparts
  <1>11. QED
    BY <1>6, <1>8, <1>9, <1>10 DEF FolioInv

(* The steps of a form and of a check-out before it settles only change    *)
(* what the cashier is at.                                                 *)
LEMMA MoveIsSafe ==
  ASSUME FolioInv, NEW c \in Cashiers, NEW row \in Till, Goes(c, row), Unhurried,
         overtaken' \in {overtaken, overtaken \ {c}},
         c \notin overtaken' => Right(row)
  PROVE  FolioInv'
  <1>1. UNCHANGED <<charges, payments, left, audit, late, excused>>
    BY DEF Unhurried
  <1>2. FolioTypeOK'
    BY <1>1, GoesType DEF FolioInv, FolioTypeOK
  <1>3. Readings' /\ CreditIsExplained' /\ DepartureIsPaid'
    BY <1>1, MoveKeeps
  <1>4. QED
    BY <1>2, <1>3 DEF FolioInv

LEMMA FormKeeps ==
  ASSUME FolioInv, NEW c \in Cashiers,
         OpenForm(c) \/ Owes(c) \/ Again(c) \/ Propose(c)
  PROVE  FolioInv'
  <1>1. charges \in Total /\ payments \in Total /\ till[c].charges \in Total
    BY TillType DEF FolioInv, FolioTypeOK
  <1>2. CASE OpenForm(c)
    <2>1. Row("owes", charges, 0) \in Till /\ Right(Row("owes", charges, 0))
      BY <1>1, RightRow DEF Steps
    <2>2. QED
      BY <1>2, <2>1, MoveIsSafe DEF OpenForm
  <1>3. CASE Owes(c)
    <2>1. /\ Row("again", 0, 0) \in Till /\ Right(Row("again", 0, 0))
      BY Zero, RightRow DEF Steps
    <2>2. Row("form", 0, 0) \in Till /\ Right(Row("form", 0, 0))
      <3>1. /\ Row("form", 0, 0) \in Till /\ Row("form", 0, 0).step = "form"
            /\ Row("form", 0, 0).amount = 0
        BY Zero, RowIs DEF Steps
      <3>2. QED
        BY <3>1 DEF Right
    <2>3. Goes(c, Row("again", 0, 0)) \/ Goes(c, Row("form", 0, 0))
      BY <1>3 DEF Owes
    <2>4. Unhurried /\ overtaken' = overtaken
      BY <1>3 DEF Owes
    <2>5. QED
      BY <2>1, <2>2, <2>3, <2>4, MoveIsSafe
  <1>4. CASE Again(c)
    <2>1. Row("sum", charges, 0) \in Till /\ Right(Row("sum", charges, 0))
      <3>1. /\ Row("sum", charges, 0) \in Till /\ Row("sum", charges, 0).step = "sum"
            /\ Row("sum", charges, 0).charges = charges
        BY <1>1, Zero, RowIs DEF Steps
      <3>2. charges <= charges
        BY <1>1, TotalIsInt
      <3>3. QED
        BY <3>1, <3>2 DEF Right
    <2>2. QED
      BY <1>4, <2>1, MoveIsSafe DEF Again
  <1>5. CASE Propose(c)
    <2> DEFINE owed == till[c].charges - payments
    <2>1. /\ Row("form", 0, owed) \in Till /\ Row("form", 0, owed).step = "form"
          /\ Row("form", 0, owed).amount = owed
      <3>1. owed \in -2 * MaxTotal .. 2 * MaxTotal
        BY <1>1, Proposal
      <3>2. "form" \in Steps
        BY DEF Steps
      <3> HIDE DEF owed
      <3>3. QED
        BY <3>1, <3>2, Zero, RowIs
    <2>2. c \notin overtaken => till[c].charges <= charges
      BY <1>5 DEF Propose, At, FolioInv, Readings, Right
    <2>3. c \notin overtaken => owed <= charges - payments
      <3>1. charges \in Int /\ payments \in Int /\ till[c].charges \in Int
        BY <1>1, TotalIsInt
      <3>2. QED
        BY <2>2, <3>1
    <2>4. c \notin overtaken => Right(Row("form", 0, owed))
      BY <2>1, <2>3 DEF Right
    <2>5. Goes(c, Row("form", 0, owed)) /\ Unhurried /\ overtaken' = overtaken
      BY <1>5 DEF Propose
    <2>6. QED
      BY <2>1, <2>4, <2>5, MoveIsSafe
  <1>6. QED
    BY <1>2, <1>3, <1>4, <1>5

LEMMA CountingKeeps ==
  ASSUME FolioInv, NEW c \in Cashiers,
         FetchCheckOut(c) \/ CountCharges(c) \/ CountPayments(c)
  PROVE  FolioInv'
  <1>1. charges \in Total /\ payments \in Total /\ till[c].charges \in Total
    BY TillType DEF FolioInv, FolioTypeOK
  <1>2. CASE FetchCheckOut(c)
    <2>1. Row("leaving", 0, 0) \in Till /\ Right(Row("leaving", 0, 0))
      BY Zero, RightRow DEF Steps
    <2>2. QED
      BY <1>2, <2>1, MoveIsSafe DEF FetchCheckOut
  <1>3. CASE CountCharges(c)
    <2>1. /\ Row("counted", charges, 0) \in Till /\ Row("counted", charges, 0).step = "counted"
          /\ Row("counted", charges, 0).charges = charges
      BY <1>1, Zero, RowIs DEF Steps
    <2>2. Right(Row("counted", charges, 0))
      BY <2>1 DEF Right
    <2>3. QED
      BY <1>3, <2>1, <2>2, MoveIsSafe DEF CountCharges
  <1>4. CASE CountPayments(c)
    <2>1. Row("idle", 0, 0) \in Till /\ Right(Row("idle", 0, 0))
      BY Zero, RightRow DEF Steps
    <2>2. Row("square", 0, 0) \in Till /\ Row("square", 0, 0).step = "square"
      BY Zero, RowIs DEF Steps
    <2>3. Unhurried /\ overtaken' = overtaken
      BY <1>4 DEF CountPayments
    <2>4. CASE Goes(c, Row("idle", 0, 0))
      BY <2>1, <2>3, <2>4, MoveIsSafe
    <2>5. CASE till[c].charges - payments = 0 /\ Goes(c, Row("square", 0, 0))
      <3>1. c \notin overtaken => till[c].charges = charges
        BY <1>4 DEF CountPayments, At, FolioInv, Readings, Right
      <3>2. till[c].charges = payments
        <4>1. till[c].charges \in Int /\ payments \in Int
          BY <1>1, TotalIsInt
        <4>2. till[c].charges - payments = 0
          BY <2>5
        <4>3. QED
          BY <4>1, <4>2
      <3>3. c \notin overtaken => Right(Row("square", 0, 0))
        BY <2>2, <3>1, <3>2 DEF Right
      <3>4. QED
        BY <2>2, <2>3, <2>5, <3>3, MoveIsSafe
    <2>6. QED
      BY <1>4, <2>4, <2>5 DEF CountPayments
  <1>5. QED
    BY <1>2, <1>3, <1>4

LEMMA SettleKeeps ==
  ASSUME FolioInv, NEW c \in Cashiers, Settle(c)
  PROVE  FolioInv'
  <1>1. Idle \in Till /\ Idle.step = "idle"
    BY RowIs, Zero DEF Idle, Steps
  <1>2. /\ till' \in [Cashiers -> Till]
        /\ till'[c] = Idle
        /\ \A d \in Cashiers \ {c} : till'[d] = till[d]
    BY <1>1, GoesType DEF FolioInv, Settle
  <1>3. /\ UNCHANGED <<charges, payments, audit, overtaken, excused>>
        /\ left' = TRUE /\ late' = (c \in overtaken)
    BY DEF Settle
  <1>4. FolioTypeOK'
    BY <1>2, <1>3 DEF FolioInv, FolioTypeOK
  <1>5. ASSUME NEW d \in Cashiers \ overtaken'
        PROVE  Right(till[d])'
    <2>1. CASE d = c
      BY <1>1, <1>2, <2>1 DEF Right
    <2>2. CASE d # c
      BY <1>2, <1>3, <2>2 DEF FolioInv, Readings, Right
    <2>3. QED
      BY <2>1, <2>2
  <1>6. Readings'
    BY <1>5 DEF Readings
  <1>7. CreditIsExplained'
    BY <1>3 DEF FolioInv, CreditIsExplained
  <1>8. c \notin overtaken => charges = payments
    BY DEF Settle, At, FolioInv, Readings, Right
  <1>9. DepartureIsPaid'
    BY <1>3, <1>8 DEF DepartureIsPaid
  <1>10. QED
    BY <1>4, <1>6, <1>7, <1>9 DEF FolioInv

(* The night audit is no cashier: its charges are charges as any other.    *)
LEMMA AuditKeeps ==
  ASSUME FolioInv, AuditFetch \/ AuditPost \/ ApplyLevy
  PROVE  FolioInv'
  <1>1. CASE AuditFetch
    <2>1. FolioTypeOK'
      BY <1>1 DEF AuditFetch, FolioInv, FolioTypeOK
    <2>2. Readings' /\ CreditIsExplained' /\ DepartureIsPaid'
      BY <1>1 DEF AuditFetch, FolioInv, Readings, Right, CreditIsExplained, DepartureIsPaid
    <2>3. QED
      BY <2>1, <2>2 DEF FolioInv
  <1>2. CASE AuditPost
    <2>1. PICK a \in Entries : Charge(a)
      BY <1>2 DEF AuditPost
    <2>2. a \in Int
      BY EntriesAreInt
    <2>3. UNCHANGED <<left, till>> /\ audit' \in {"rooms", "levy"}
      BY <1>2 DEF AuditPost
    <2>4. FolioTypeOK'
      BY <2>1, <2>2, <2>3, ChargeTypes DEF FolioInv, FolioTypeOK
    <2>5. Readings' /\ CreditIsExplained' /\ DepartureIsPaid'
      BY <2>1, <2>2, <2>3, ChargeKeeps
    <2>6. QED
      BY <2>4, <2>5 DEF FolioInv
  <1>3. CASE ApplyLevy
    <2>1. FolioTypeOK'
      BY <1>3 DEF ApplyLevy, FolioInv, FolioTypeOK
    <2>2. Readings' /\ CreditIsExplained' /\ DepartureIsPaid'
      BY <1>3 DEF ApplyLevy, FolioInv, Readings, Right, CreditIsExplained, DepartureIsPaid
    <2>3. QED
      BY <2>1, <2>2 DEF FolioInv
  <1>4. QED
    BY <1>1, <1>2, <1>3

-----------------------------------------------------------------------------
LEMMA FolioStart == FolioInit => FolioInv
  <1> SUFFICES ASSUME FolioInit PROVE FolioInv
    OBVIOUS
  <1>1. Idle \in Till /\ Idle.step = "idle"
    BY RowIs, Zero DEF Idle, Steps
  <1>2. FolioTypeOK
    BY <1>1, Zero DEF FolioInit, FolioTypeOK
  <1>3. Readings
    BY <1>1 DEF FolioInit, Readings, Right
  <1>4. CreditIsExplained /\ DepartureIsPaid
    BY DEF FolioInit, CreditIsExplained, DepartureIsPaid
  <1>5. QED
    BY <1>2, <1>3, <1>4 DEF FolioInv

LEMMA FolioStep == FolioInv /\ [FolioNext]_folio => FolioInv'
  <1> SUFFICES ASSUME FolioInv, [FolioNext]_folio PROVE FolioInv'
    OBVIOUS
  <1>1. CASE PostCharge
    BY <1>1, PostChargeKeeps
  <1>2. CASE SyncPayment
    BY <1>2, SyncPaymentKeeps
  <1>3. ASSUME NEW c \in Cashiers, OpenForm(c) \/ Owes(c) \/ Again(c) \/ Propose(c)
        PROVE  FolioInv'
    BY <1>3, FormKeeps
  <1>4. ASSUME NEW c \in Cashiers, Pay(c)
        PROVE  FolioInv'
    BY <1>4, PayKeeps
  <1>5. ASSUME NEW c \in Cashiers, FetchCheckOut(c) \/ CountCharges(c) \/ CountPayments(c)
        PROVE  FolioInv'
    BY <1>5, CountingKeeps
  <1>6. ASSUME NEW c \in Cashiers, Settle(c)
        PROVE  FolioInv'
    BY <1>6, SettleKeeps
  <1>7. CASE AuditFetch \/ AuditPost \/ ApplyLevy
    BY <1>7, AuditKeeps
  <1>8. CASE UNCHANGED folio
    <2>1. FolioTypeOK'
      BY <1>8 DEF folio, FolioInv, FolioTypeOK
    <2>2. Readings' /\ CreditIsExplained' /\ DepartureIsPaid'
      BY <1>8 DEF folio, FolioInv, Readings, Right, CreditIsExplained, DepartureIsPaid
    <2>3. QED
      BY <2>1, <2>2 DEF FolioInv
  <1>9. QED
    BY <1>1, <1>2, <1>3, <1>4, <1>5, <1>6, <1>7, <1>8 DEF FolioNext

(* A step of the whole is one of the desk, or leaves it alone.              *)
LEMMA FolioMoves == [Next]_vars => [FolioNext]_folio
  BY DEF Next, vars, folio

LEMMA FolioAlways == Spec => []FolioInv
  <1>1. Init => FolioInv
    BY FolioStart DEF Init
  <1>2. FolioInv /\ [Next]_vars => FolioInv'
    BY FolioMoves, FolioStep
  <1>3. QED
    BY <1>1, <1>2, PTL DEF Spec

(* A payment taken as the form proposes it puts no folio in credit, unless *)
(* a payment or a discount overtook the form.                              *)
THEOREM CreditHasReason == Spec => []CreditIsExplained
  <1>1. FolioInv => CreditIsExplained
    BY DEF FolioInv
  <1>2. QED
    BY <1>1, FolioAlways, PTL

(* A guest leaves with the folio at zero, unless a row was posted behind   *)
(* the count.                                                              *)
THEOREM DeparturesArePaid == Spec => []DepartureIsPaid
  <1>1. FolioInv => DepartureIsPaid
    BY DEF FolioInv
  <1>2. QED
    BY <1>1, FolioAlways, PTL
=============================================================================
