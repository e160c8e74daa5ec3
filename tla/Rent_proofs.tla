------------------------------- MODULE Rent_proofs -------------------------------
(***************************************************************************)
(* What the stored totals of rent invoices promise, for any number of      *)
(* invoices and server processes, any rent, fee and amounts, and however   *)
(* payments, charges, late fees, the daily tasks and crashes interleave.   *)
(***************************************************************************)
EXTENDS Rent, TLAPS

-----------------------------------------------------------------------------
(* Type correctness.                                                       *)

Money == {"pay", "line"}

LEMMA RequestFields ==
  ASSUME NEW q \in Request
  PROVE  /\ q.kind \in {"idle", "generate", "pay", "line", "fee"}
         /\ q.kind \in Money \cup {"fee"} => q.inv \in Invoices /\ q.row \in Row
         /\ q.kind \in Money => /\ q.stage \in {"post", "fetch", "sum", "save"}
                                /\ q.amount \in Amounts /\ q.late \in BOOLEAN
         /\ q.kind = "fee" => q.stage \in {"sum", "save"}
  BY DEF Request, Idle, Money

LEMMA ConstantTypes ==
  /\ Amounts \subseteq Nat \ {0}
  /\ RentAmount \in Nat \ {0} /\ Fee \in Nat \ {0} /\ LastDay \in Nat \ {0}
  /\ Due \in Nat /\ Grace \in Nat /\ MaxCrashes \in Nat
  /\ Busy \subseteq Invoices
  BY RentAssumption

LEMMA NoRowIsRow == NoRow \in Row
  BY ConstantTypes DEF NoRow, Row, Status

LEMMA RecalculatedRow ==
  ASSUME NEW r \in Row, NEW subtotal \in Nat, NEW paidSum \in Nat
  PROVE  /\ Recalculated(r, subtotal, paidSum) \in Row
         /\ Recalculated(r, subtotal, paidSum).subtotal = subtotal
         /\ Recalculated(r, subtotal, paidSum).paid = paidSum
         /\ Recalculated(r, subtotal, paidSum).total = subtotal + r.lateFee
  <1> DEFINE total == subtotal + r.lateFee
             status == IF paidSum >= total THEN "PAID"
                       ELSE IF paidSum > 0 THEN "PART"
                       ELSE IF Due < today THEN "OVER" ELSE r.status
  <1>1. total \in Nat
    BY ConstantTypes DEF Row
  <1>2. status \in Status
    BY DEF Row, Status
  <1> HIDE DEF status
  <1>3. [r EXCEPT !.subtotal = subtotal, !.total = total, !.paid = paidSum,
                  !.status = status] \in Row
    BY <1>1, <1>2 DEF Row
  <1>4. Recalculated(r, subtotal, paidSum) =
          [r EXCEPT !.subtotal = subtotal, !.total = total, !.paid = paidSum,
                    !.status = status]
    BY Zenon DEF Recalculated, status
  <1>5. QED
    BY <1>3, <1>4 DEF Row

LEMMA LinesAreNatural ==
  ASSUME TypeOK, NEW i \in Invoices
  PROVE  Lines(i) \in Nat
  BY ConstantTypes DEF TypeOK, Lines

LEMMA TypeInit == Init => TypeOK
  BY NoRowIsRow, ConstantTypes DEF Init, TypeOK, Request

LEMMA TypeContinues ==
  ASSUME TypeOK, NEW w \in Workers, NEW q \in Request, Continues(w, q)
  PROVE  request' \in [Workers -> Request]
  BY DEF TypeOK, Continues

LEMMA IdleIsRequest == Idle \in Request
  BY DEF Request

LEMMA TypeStarts ==
  ASSUME TypeOK, NEW w \in Workers, NEW i \in Invoices, NEW q \in Request,
         Starts(w, i, q), beat' \subseteq {"fees", "flag"}
  PROVE  TypeOK'
  BY DEF TypeOK, Starts, Meets, ledger, bounds

LEMMA TypeGenerate ==
  ASSUME TypeOK, NEW w \in Workers, FetchGenerate(w) \/ Generate(w)
  PROVE  TypeOK'
  <1>1. CASE FetchGenerate(w)
    <2>1. [kind |-> "generate"] \in Request
      BY DEF Request
    <2>2. request' \in [Workers -> Request]
      BY <1>1, <2>1, TypeContinues DEF FetchGenerate
    <2>3. QED
      BY <1>1, <2>2 DEF TypeOK, FetchGenerate, ledger, clock, bounds, past
  <1>2. CASE Generate(w)
    <2>1. request' \in [Workers -> Request]
      BY <1>2, IdleIsRequest, TypeContinues DEF Generate
    <2>2. [Recalculated(NoRow, RentAmount, 0) EXCEPT !.status = "ISSUED"] \in Row
      BY RecalculatedRow, NoRowIsRow, ConstantTypes DEF Row, Status
    <2>3. row' \in [Invoices -> Row]
      BY <1>2, <2>2 DEF Generate, TypeOK
    <2>4. charged' \in [Invoices -> Nat] /\ disturbed' \subseteq Invoices
      BY <1>2, ConstantTypes DEF Generate, TypeOK
    <2>5. QED
      BY <1>2, <2>1, <2>3, <2>4 DEF Generate, TypeOK, clock, bounds
  <1>3. QED
    BY <1>1, <1>2

LEMMA TypeFetches ==
  ASSUME TypeOK, NEW w \in Workers,
         FetchPayment(w) \/ FetchLine(w) \/ FetchFee(w) \/ TaskFees(w)
  PROVE  TypeOK'
  <1>1. CASE FetchPayment(w)
    <2>1. PICK i \in Busy, a \in Amounts :
            Starts(w, i, [kind |-> "pay", inv |-> i, stage |-> "post", row |-> row[i],
                          amount |-> a, late |-> FALSE])
      BY <1>1 DEF FetchPayment
    <2>2. i \in Invoices /\ row[i] \in Row
      BY ConstantTypes DEF TypeOK
    <2>3. [kind |-> "pay", inv |-> i, stage |-> "post", row |-> row[i],
           amount |-> a, late |-> FALSE] \in Request
      BY <2>2 DEF Request
    <2>4. QED
      BY <1>1, <2>1, <2>2, <2>3, TypeStarts DEF FetchPayment, TypeOK
  <1>2. CASE FetchLine(w)
    <2>1. PICK i \in Busy, a \in Amounts, l \in BOOLEAN :
            Starts(w, i, [kind |-> "line", inv |-> i, stage |-> "post", row |-> NoRow,
                          amount |-> a, late |-> l])
      BY <1>2 DEF FetchLine
    <2>2. i \in Invoices
      BY ConstantTypes
    <2>3. [kind |-> "line", inv |-> i, stage |-> "post", row |-> NoRow,
           amount |-> a, late |-> l] \in Request
      BY <2>2, NoRowIsRow DEF Request
    <2>4. QED
      BY <1>2, <2>1, <2>2, <2>3, TypeStarts DEF FetchLine, TypeOK
  <1>3. ASSUME NEW i \in Busy,
               Starts(w, i, [kind |-> "fee", inv |-> i, stage |-> "sum", row |-> row[i]]),
               beat' \subseteq {"fees", "flag"}
        PROVE  TypeOK'
    <2>1. i \in Invoices /\ row[i] \in Row
      BY ConstantTypes DEF TypeOK
    <2>2. [kind |-> "fee", inv |-> i, stage |-> "sum", row |-> row[i]] \in Request
      BY <2>1 DEF Request
    <2>3. QED
      BY <1>3, <2>1, <2>2, TypeStarts
  <1>4. CASE FetchFee(w)
    BY <1>3, <1>4 DEF FetchFee, TypeOK
  <1>5. CASE TaskFees(w)
    <2>1. beat' \subseteq {"fees", "flag"}
      BY <1>5 DEF TaskFees, TypeOK
    <2>2. CASE UNCHANGED <<request, row, ledger, today, bounds, past>>
      BY <2>1, <2>2 DEF TypeOK, ledger, bounds, past
    <2>3. QED
      BY <1>3, <1>5, <2>1, <2>2 DEF TaskFees
  <1>6. QED
    BY <1>1, <1>2, <1>4, <1>5

LEMMA TypePosts ==
  ASSUME TypeOK, NEW w \in Workers,
         PostPayment(w) \/ PostLine(w) \/ FetchAgain(w)
  PROVE  TypeOK'
  <1> DEFINE q == request[w]
  <1>0. q \in Request
    BY DEF TypeOK
  <1>1. CASE PostPayment(w)
    <2>1. q.inv \in Invoices /\ q.amount \in Nat
      BY <1>0, <1>1, RequestFields, ConstantTypes DEF PostPayment, Money
    <2>2. [q EXCEPT !.stage = "sum"] \in Request
      BY <1>0, <1>1 DEF PostPayment, Request, Idle
    <2>3. request' \in [Workers -> Request]
      BY <1>1, <2>2, TypeContinues DEF PostPayment
    <2>4. received' \in [Invoices -> Nat]
      BY <1>1, <2>1 DEF PostPayment, TypeOK
    <2>5. QED
      BY <1>1, <2>3, <2>4 DEF PostPayment, TypeOK, clock, bounds, past
  <1>2. CASE PostLine(w)
    <2>1. q.inv \in Invoices /\ q.amount \in Nat
      BY <1>0, <1>2, RequestFields, ConstantTypes DEF PostLine, Money
    <2>2. [q EXCEPT !.stage = "fetch"] \in Request
      BY <1>0, <1>2 DEF PostLine, Request, Idle
    <2>3. request' \in [Workers -> Request]
      BY <1>2, <2>2, TypeContinues DEF PostLine
    <2>4. charged' \in [Invoices -> Nat] /\ late' \in [Invoices -> Nat]
      BY <1>2, <2>1 DEF PostLine, TypeOK
    <2>5. QED
      BY <1>2, <2>3, <2>4 DEF PostLine, TypeOK, clock, bounds, past
  <1>3. CASE FetchAgain(w)
    <2>1. row[q.inv] \in Row
      BY <1>0, <1>3, RequestFields DEF FetchAgain, TypeOK, Money
    <2>2. [q EXCEPT !.stage = "sum", !.row = row[q.inv]] \in Request
      BY <1>0, <1>3, <2>1 DEF FetchAgain, Request, Idle
    <2>3. request' \in [Workers -> Request]
      BY <1>3, <2>2, TypeContinues DEF FetchAgain
    <2>4. QED
      BY <1>3, <2>3 DEF FetchAgain, TypeOK, ledger, clock, bounds, past
  <1>4. QED
    BY <1>1, <1>2, <1>3

LEMMA TypeTotals ==
  ASSUME TypeOK, NEW w \in Workers, SumUp(w) \/ Save(w) \/ Dies(w)
  PROVE  TypeOK'
  <1> DEFINE q == request[w]
  <1>0. q \in Request
    BY DEF TypeOK
  <1>1. CASE SumUp(w)
    <2>1. q.inv \in Invoices /\ q.row \in Row
      BY <1>0, <1>1, RequestFields DEF SumUp, Money
    <2>2. Recalculated(q.row, Lines(q.inv), received[q.inv]) \in Row
      BY <2>1, LinesAreNatural, RecalculatedRow DEF TypeOK
    <2>3. [q EXCEPT !.stage = "save",
                    !.row = Recalculated(q.row, Lines(q.inv), received[q.inv])] \in Request
      BY <1>0, <1>1, <2>2 DEF SumUp, Request, Idle
    <2>4. request' \in [Workers -> Request]
      BY <1>1, <2>3, TypeContinues DEF SumUp
    <2>5. QED
      BY <1>1, <2>4 DEF SumUp, TypeOK, ledger, clock, bounds, past
  <1>2. CASE Save(w)
    <2>1. q.inv \in Invoices /\ q.row \in Row
      BY <1>0, <1>2, RequestFields DEF Save, Money
    <2>2. request' \in [Workers -> Request]
      BY <1>2, IdleIsRequest, TypeContinues DEF Save
    <2>3. row' \in [Invoices -> Row]
      BY <1>2, <2>1 DEF Save, TypeOK
    <2>4. QED
      BY <1>2, <2>2, <2>3 DEF Save, TypeOK, ledger, clock, bounds, past
  <1>3. CASE Dies(w)
    <2>1. request' \in [Workers -> Request]
      BY <1>3, IdleIsRequest, TypeContinues DEF Dies
    <2>2. disturbed' \subseteq Invoices
      BY <1>0, <1>3, RequestFields DEF Dies, TypeOK, Money
    <2>3. crashes' \in 0 .. MaxCrashes
      BY <1>3, ConstantTypes DEF Dies, TypeOK
    <2>4. QED
      BY <1>3, <2>1, <2>2, <2>3 DEF Dies, TypeOK, ledger, clock
  <1>4. QED
    BY <1>1, <1>2, <1>3

LEMMA TypeFee ==
  ASSUME TypeOK, NEW w \in Workers, SumFee(w) \/ SaveFee(w)
  PROVE  TypeOK'
  <1> DEFINE q == request[w]
             r == Recalculated([q.row EXCEPT !.lateFee = Fee],
                               Lines(q.inv) + Fee, received[q.inv])
  <1>0. q \in Request
    BY DEF TypeOK
  <1>1. CASE SumFee(w)
    <2>1. q.inv \in Invoices /\ q.row \in Row
      BY <1>0, <1>1, RequestFields DEF SumFee, Money
    <2>2. [q.row EXCEPT !.lateFee = Fee] \in Row
      BY <2>1, ConstantTypes DEF Row
    <2>3. Lines(q.inv) + Fee \in Nat
      BY <2>1, LinesAreNatural, ConstantTypes
    <2>4. r \in Row
      BY <2>1, <2>2, <2>3, RecalculatedRow DEF TypeOK
    <2> HIDE DEF r
    <2>5. [q EXCEPT !.stage = "save", !.row = r] \in Request
      BY <1>0, <1>1, <2>4 DEF SumFee, Request, Idle
    <2>6. Continues(w, Idle) \/ Continues(w, [q EXCEPT !.stage = "save", !.row = r])
      BY <1>1 DEF SumFee, r
    <2>7. request' \in [Workers -> Request]
      BY <2>5, <2>6, IdleIsRequest, TypeContinues
    <2>8. QED
      BY <1>1, <2>7 DEF SumFee, TypeOK, ledger, clock, bounds, past
  <1>2. CASE SaveFee(w)
    <2>1. q.inv \in Invoices /\ q.row \in Row
      BY <1>0, <1>2, RequestFields DEF SaveFee, Money
    <2>2. request' \in [Workers -> Request]
      BY <1>2, IdleIsRequest, TypeContinues DEF SaveFee
    <2>3. row' \in [Invoices -> Row] /\ late' \in [Invoices -> Nat]
      BY <1>2, <2>1 DEF SaveFee, TypeOK
    <2>4. QED
      BY <1>2, <2>2, <2>3 DEF SaveFee, TypeOK, clock, bounds, past
  <1>3. QED
    BY <1>1, <1>2

LEMMA TypeOthers ==
  ASSUME TypeOK, Recalculate \/ Void \/ TaskFlag \/ NextDay
  PROVE  TypeOK'
  <1>1. CASE Recalculate
    <2>1. PICK i \in Busy :
            /\ row' = [row EXCEPT ![i] = Recalculated(@, Lines(i), received[i])]
            /\ Meets(i)
            /\ UNCHANGED <<request, ledger, clock, bounds>>
      BY <1>1 DEF Recalculate
    <2>2. i \in Invoices /\ row[i] \in Row /\ received[i] \in Nat
      BY ConstantTypes DEF TypeOK
    <2>3. Recalculated(row[i], Lines(i), received[i]) \in Row
      BY <2>2, LinesAreNatural, RecalculatedRow
    <2>4. row' \in [Invoices -> Row]
      BY <2>1, <2>2, <2>3 DEF TypeOK
    <2>5. QED
      BY <2>1, <2>2, <2>4 DEF TypeOK, Meets, ledger, clock, bounds
  <1>2. CASE Void
    BY <1>2 DEF Void, TypeOK, Row, Status, ledger, clock, bounds
  <1>3. CASE TaskFlag
    <2>1. row' \in [Invoices -> Row]
      BY <1>3 DEF TaskFlag, TypeOK, Row, Status
    <2>2. QED
      BY <1>3, <2>1 DEF TaskFlag, TypeOK, ledger, bounds
  <1>4. CASE NextDay
    BY <1>4, ConstantTypes DEF NextDay, TypeOK, ledger, bounds, past
  <1>5. QED
    BY <1>1, <1>2, <1>3, <1>4

LEMMA TypeNext ==
  ASSUME TypeOK, [Next]_vars
  PROVE  TypeOK'
  <1>1. CASE UNCHANGED vars
    BY <1>1 DEF vars, ledger, clock, bounds, past, TypeOK
  <1>2. CASE Next
    BY <1>2, TypeGenerate, TypeFetches, TypePosts, TypeTotals, TypeFee, TypeOthers
       DEF Next
  <1>3. QED
    BY <1>1, <1>2

(* Every row and every request in flight keeps its type.                   *)
THEOREM RentTypes == Spec => []TypeOK
  BY TypeInit, TypeNext, PTL DEF Spec

-----------------------------------------------------------------------------
(* Copies of a row.  A request saves a copy that may be old, so what is    *)
(* promised of the row must hold of every copy that may still be saved.    *)

CopyGood(i, r) ==
  /\ r.status # "none"
  /\ r.status = "VOID" => i \in voided
  /\ r.paid <= received[i]
  /\ r.status = "PAID" => r.total > 0 /\ r.paid >= r.total

HoldsCopy(q) ==
  \/ q.kind \in {"pay", "fee"}
  \/ q.kind = "line" /\ q.stage \in {"sum", "save"}

Works(q) == q.kind \in {"pay", "line", "fee"}

CopiesGood ==
  /\ \A i \in Invoices : Exists(i) => CopyGood(i, row[i]) /\ charged[i] > 0
  /\ \A i \in Invoices : ~Exists(i) => charged[i] = 0 /\ late[i] = 0 /\ received[i] = 0
  /\ \A w \in Workers : Works(request[w]) => Exists(request[w].inv)
  /\ \A w \in Workers :
       HoldsCopy(request[w]) => CopyGood(request[w].inv, request[w].row)

(* What no step undoes.                                                    *)
LedgerGrows ==
  /\ voided \subseteq voided'
  /\ \A i \in Invoices : received[i] <= received'[i] /\ charged[i] <= charged'[i]

LEMMA CopyStaysGood ==
  ASSUME TypeOK, TypeOK', LedgerGrows, NEW i \in Invoices, NEW r \in Row, CopyGood(i, r)
  PROVE  CopyGood(i, r)'
  BY DEF CopyGood, LedgerGrows, TypeOK, Row

LEMMA LinesPositive ==
  ASSUME TypeOK, NEW i \in Invoices, charged[i] > 0
  PROVE  Lines(i) \in Nat /\ Lines(i) > 0
  <1>1. Fee * late[i] \in Nat
    BY ConstantTypes DEF TypeOK
  <1>2. QED
    BY <1>1 DEF TypeOK, Lines

LEMMA RecalculatedGood ==
  ASSUME TypeOK, NEW i \in Invoices, NEW r \in Row, CopyGood(i, r),
         NEW subtotal \in Nat, subtotal > 0
  PROVE  CopyGood(i, Recalculated(r, subtotal, received[i]))
  <1>1. received[i] \in Nat /\ r.lateFee \in Nat /\ r.paid \in Nat /\ r.total \in Nat
    BY ConstantTypes DEF TypeOK, Row
  <1> DEFINE n == Recalculated(r, subtotal, received[i])
  <1>2. /\ n.paid = received[i]
        /\ n.total = subtotal + r.lateFee
    <2> DEFINE p == received[i]
    <2> HIDE DEF p
    <2>0. p \in Nat
      BY <1>1 DEF p
    <2>1. Recalculated(r, subtotal, p).paid = p
      BY <2>0, RecalculatedRow
    <2>2. Recalculated(r, subtotal, p).total = subtotal + r.lateFee
      BY <2>0, RecalculatedRow
    <2>3. QED
      BY <2>1, <2>2 DEF p
  <1>3. n.status = IF received[i] >= subtotal + r.lateFee THEN "PAID"
                   ELSE IF received[i] > 0 THEN "PART"
                   ELSE IF Due < today THEN "OVER" ELSE r.status
    BY DEF Recalculated, Row
  <1> HIDE DEF n
  <1>4. CASE received[i] >= subtotal + r.lateFee
    BY <1>1, <1>2, <1>3, <1>4 DEF CopyGood, n
  <1>5. CASE received[i] > 0 /\ ~(received[i] >= subtotal + r.lateFee)
    BY <1>1, <1>2, <1>3, <1>5 DEF CopyGood, n
  <1>6. CASE ~(received[i] > 0) /\ ~(received[i] >= subtotal + r.lateFee)
    <2>1. r.status # "PAID"
      BY <1>1, <1>6 DEF CopyGood
    <2>2. QED
      BY <1>1, <1>2, <1>3, <1>6, <2>1 DEF CopyGood, n
  <1>7. QED
    BY <1>4, <1>5, <1>6

(* It is enough to look at the rows and the requests a step has changed.   *)
LEMMA ChangedCopies ==
  ASSUME TypeOK, TypeOK', CopiesGood, LedgerGrows,
         \A i \in Invoices :
           \/ /\ row'[i] = row[i]
              /\ \/ Exists(i)
                 \/ charged'[i] = charged[i] /\ late'[i] = late[i] /\ received'[i] = received[i]
           \/ CopyGood(i, row[i])' /\ charged'[i] > 0,
         \A w \in Workers :
           \/ request'[w] = request[w]
           \/ /\ Works(request'[w]) => Exists(request'[w].inv)
              /\ HoldsCopy(request'[w]) => CopyGood(request[w].inv, request[w].row)'
  PROVE  CopiesGood'
  <1>1. ASSUME NEW i \in Invoices, Exists(i)'
        PROVE  CopyGood(i, row[i])' /\ charged'[i] > 0
    <2>1. CASE row'[i] = row[i]
      <3>1. row[i] \in Row /\ Exists(i) /\ CopyGood(i, row[i]) /\ charged[i] > 0
        BY <1>1, <2>1 DEF CopiesGood, Exists, TypeOK
      <3>2. CopyGood(i, row[i])'
        BY <2>1, <3>1, CopyStaysGood
      <3>3. charged'[i] > 0
        BY <3>1 DEF LedgerGrows, TypeOK
      <3>4. QED
        BY <3>2, <3>3
    <2>2. QED
      BY <2>1
  <1>2. ASSUME NEW i \in Invoices, ~Exists(i)'
        PROVE  charged'[i] = 0 /\ late'[i] = 0 /\ received'[i] = 0
    BY <1>2 DEF CopyGood, CopiesGood, Exists
  <1>3. \A i \in Invoices : Exists(i) => Exists(i)'
    BY DEF Exists, CopyGood
  <1>4. ASSUME NEW w \in Workers, Works(request'[w])
        PROVE  Exists(request[w].inv)'
    <2>1. request'[w].inv \in Invoices
      BY <1>4, RequestFields DEF TypeOK, Works, Money
    <2>2. Exists(request'[w].inv)
      BY <1>4 DEF CopiesGood
    <2>3. QED
      BY <1>3, <2>1, <2>2 DEF Exists
  <1>5. ASSUME NEW w \in Workers, HoldsCopy(request'[w])
        PROVE  CopyGood(request[w].inv, request[w].row)'
    <2>1. CASE request'[w] = request[w]
      <3>1. request[w].inv \in Invoices /\ request[w].row \in Row
        BY <1>5, <2>1, RequestFields DEF TypeOK, HoldsCopy, Money
      <3>2. CopyGood(request[w].inv, request[w].row)
        BY <1>5, <2>1 DEF CopiesGood
      <3>3. QED
        BY <2>1, <3>1, <3>2, CopyStaysGood
    <2>2. QED
      BY <1>5, <2>1
  <1>6. QED
    BY <1>1, <1>2, <1>4, <1>5 DEF CopiesGood

LEMMA CopiesGenerate ==
  ASSUME TypeOK, TypeOK', CopiesGood, NEW w \in Workers, FetchGenerate(w) \/ Generate(w)
  PROVE  CopiesGood'
  <1>1. CASE FetchGenerate(w)
    <2>1. LedgerGrows
      BY <1>1 DEF FetchGenerate, LedgerGrows, TypeOK, ledger, past
    <2>2. UNCHANGED <<row, charged, late, received>>
      BY <1>1 DEF FetchGenerate, ledger
    <2>3. \A v \in Workers : \/ request'[v] = request[v]
                             \/ ~Works(request'[v]) /\ ~HoldsCopy(request'[v])
      BY <1>1 DEF FetchGenerate, Continues, TypeOK, Works, HoldsCopy
    <2>4. QED
      BY <2>1, <2>2, <2>3, ChangedCopies
  <1>2. CASE Generate(w)
    <2>1. PICK i \in Invoices :
            /\ ~Exists(i)
            /\ row' = [row EXCEPT ![i] =
                 [Recalculated(NoRow, RentAmount, 0) EXCEPT !.status = "ISSUED"]]
            /\ charged' = [charged EXCEPT ![i] = RentAmount]
      BY <1>2 DEF Generate
    <2>2. UNCHANGED <<late, received, voided>>
      BY <1>2 DEF Generate
    <2>3. \A j \in Invoices : received[j] <= received'[j]
      BY <2>2 DEF TypeOK
    <2>4. \A j \in Invoices : charged[j] <= charged'[j]
      BY <2>1, ConstantTypes DEF CopiesGood, TypeOK
    <2>5. LedgerGrows
      BY <2>2, <2>3, <2>4 DEF LedgerGrows
    <2>6. CopyGood(i, row[i])'
      <3>1. /\ Recalculated(NoRow, RentAmount, 0) \in Row
            /\ Recalculated(NoRow, RentAmount, 0).paid = 0
        BY RecalculatedRow, NoRowIsRow, ConstantTypes
      <3>2. row'[i].status = "ISSUED" /\ row'[i].paid = 0
        BY <2>1, <3>1 DEF TypeOK, Row
      <3>3. QED
        BY <3>2 DEF CopyGood, TypeOK
    <2>7. charged'[i] > 0
      BY <2>1, ConstantTypes DEF TypeOK
    <2>8. \A j \in Invoices \ {i} :
            /\ row'[j] = row[j] /\ charged'[j] = charged[j]
            /\ late'[j] = late[j] /\ received'[j] = received[j]
      BY <2>1, <2>2 DEF TypeOK
    <2>9. \A v \in Workers : \/ request'[v] = request[v]
                             \/ ~Works(request'[v]) /\ ~HoldsCopy(request'[v])
      BY <1>2 DEF Generate, Continues, TypeOK, Works, HoldsCopy, Idle
    <2>10. QED
      BY <2>5, <2>6, <2>7, <2>8, <2>9, ChangedCopies
  <1>3. QED
    BY <1>1, <1>2

LEMMA CopiesFetches ==
  ASSUME TypeOK, TypeOK', CopiesGood, NEW w \in Workers,
         FetchPayment(w) \/ FetchLine(w) \/ FetchFee(w) \/ TaskFees(w)
  PROVE  CopiesGood'
  <1>1. UNCHANGED <<row, charged, late, received, voided>>
    BY DEF FetchPayment, FetchLine, FetchFee, TaskFees, Starts, Meets, ledger, past
  <1>2. LedgerGrows
    BY <1>1 DEF LedgerGrows, TypeOK
  <1>3. ASSUME NEW i \in Invoices, NEW q \in Request, Starts(w, i, q), Exists(i),
               q.inv = i, q.kind = "line" => q.stage = "post",
               HoldsCopy(q) => q.row = row[i]
        PROVE  \A v \in Workers :
                 \/ request'[v] = request[v]
                 \/ /\ Works(request'[v]) => Exists(request'[v].inv)
                    /\ HoldsCopy(request'[v]) => CopyGood(request[v].inv, request[v].row)'
    <2>1. CopyGood(i, row[i])'
      BY <1>1, <1>3 DEF CopiesGood, CopyGood
    <2>2. request' = [request EXCEPT ![w] = q]
      BY <1>3 DEF Starts
    <2>3. request'[w] = q /\ \A v \in Workers \ {w} : request'[v] = request[v]
      BY <2>2 DEF TypeOK
    <2>4. HoldsCopy(q) => CopyGood(request[w].inv, request[w].row)'
      BY <1>1, <1>3, <2>1, <2>3
    <2>5. QED
      BY <1>3, <2>3, <2>4
  <1>4. \A v \in Workers :
          \/ request'[v] = request[v]
          \/ /\ Works(request'[v]) => Exists(request'[v].inv)
             /\ HoldsCopy(request'[v]) => CopyGood(request[v].inv, request[v].row)'
    <2>1. CASE FetchPayment(w)
      <3>1. PICK i \in Busy, a \in Amounts :
              /\ Exists(i)
              /\ Starts(w, i, [kind |-> "pay", inv |-> i, stage |-> "post", row |-> row[i],
                               amount |-> a, late |-> FALSE])
        BY <2>1 DEF FetchPayment
      <3>2. i \in Invoices /\ row[i] \in Row
        BY ConstantTypes DEF TypeOK
      <3>3. [kind |-> "pay", inv |-> i, stage |-> "post", row |-> row[i],
             amount |-> a, late |-> FALSE] \in Request
        BY <3>2 DEF Request
      <3>4. QED
        BY <1>3, <3>1, <3>2, <3>3
    <2>2. CASE FetchLine(w)
      <3>1. PICK i \in Busy, a \in Amounts, l \in BOOLEAN :
              /\ Exists(i)
              /\ Starts(w, i, [kind |-> "line", inv |-> i, stage |-> "post", row |-> NoRow,
                               amount |-> a, late |-> l])
        BY <2>2 DEF FetchLine
      <3>2. i \in Invoices
        BY ConstantTypes
      <3>3. [kind |-> "line", inv |-> i, stage |-> "post", row |-> NoRow,
             amount |-> a, late |-> l] \in Request
        BY <3>2, NoRowIsRow DEF Request
      <3>4. QED
        BY <1>3, <3>1, <3>2, <3>3 DEF HoldsCopy
    <2>3. CASE FetchFee(w) \/ TaskFees(w)
      <3>1. CASE request' = request
        BY <3>1
      <3>2. CASE request' # request
        <4>1. PICK i \in Busy :
                /\ row[i].status \notin {"none", "PAID", "VOID"}
                /\ Starts(w, i, [kind |-> "fee", inv |-> i, stage |-> "sum", row |-> row[i]])
          BY <2>3, <3>2 DEF FetchFee, TaskFees
        <4>2. i \in Invoices /\ row[i] \in Row /\ Exists(i)
          BY <4>1, ConstantTypes DEF TypeOK, Exists
        <4>3. [kind |-> "fee", inv |-> i, stage |-> "sum", row |-> row[i]] \in Request
          BY <4>2 DEF Request
        <4>4. QED
          BY <1>3, <4>1, <4>2, <4>3
      <3>3. QED
        BY <3>1, <3>2
    <2>4. QED
      BY <2>1, <2>2, <2>3
  <1>5. QED
    BY <1>1, <1>2, <1>4, ChangedCopies

LEMMA CopiesPosts ==
  ASSUME TypeOK, TypeOK', CopiesGood, NEW w \in Workers,
         PostPayment(w) \/ PostLine(w) \/ FetchAgain(w)
  PROVE  CopiesGood'
  <1> DEFINE q == request[w]
  <1>0. q \in Request
    BY DEF TypeOK
  <1>1. /\ q.kind \in {"pay", "line"} /\ q.inv \in Invoices
        /\ q.amount \in Nat /\ Exists(q.inv)
    BY <1>0, RequestFields, ConstantTypes
       DEF PostPayment, PostLine, FetchAgain, Money, CopiesGood, Works
  <1>2. UNCHANGED <<row, voided>>
    BY DEF PostPayment, PostLine, FetchAgain, past
  <1>3. /\ \A i \in Invoices \ {q.inv} :
             charged'[i] = charged[i] /\ late'[i] = late[i] /\ received'[i] = received[i]
        /\ charged[q.inv] <= charged'[q.inv] /\ received[q.inv] <= received'[q.inv]
    <2>1. CASE PostPayment(w)
      BY <1>1, <2>1 DEF PostPayment, TypeOK
    <2>2. CASE PostLine(w)
      BY <1>1, <2>2 DEF PostLine, TypeOK
    <2>3. CASE FetchAgain(w)
      BY <1>1, <2>3 DEF FetchAgain, ledger, TypeOK
    <2>4. QED
      BY <2>1, <2>2, <2>3
  <1>4. LedgerGrows
    BY <1>2, <1>3 DEF LedgerGrows, TypeOK
  <1>5. PICK i \in Invoices : i = q.inv /\ CopyGood(i, row[i])'
    <2>1. PICK i \in Invoices : i = q.inv
      BY <1>1
    <2>2. CopyGood(i, row[i]) /\ row[i] \in Row
      BY <1>1, <2>1 DEF CopiesGood, TypeOK
    <2>3. CopyGood(i, row[i])'
      BY <1>2, <1>4, <2>2 DEF CopyGood, LedgerGrows, TypeOK, Row
    <2>4. QED
      BY <2>1, <2>3
  <1>6. \A v \in Workers \ {w} : request'[v] = request[v]
    BY DEF PostPayment, PostLine, FetchAgain, Continues, TypeOK
  <1>7. /\ request'[w].inv = q.inv
        /\ HoldsCopy(request'[w]) => \/ request'[w].row = row[q.inv]
                                     \/ HoldsCopy(q) /\ request'[w].row = q.row
    <2>1. CASE PostPayment(w)
      <3>1. request'[w] = [q EXCEPT !.stage = "sum"]
        BY <2>1 DEF PostPayment, Continues, TypeOK
      <3>2. request'[w].inv = q.inv /\ request'[w].row = q.row
        BY <1>0, <2>1, <3>1 DEF PostPayment, Request, Idle
      <3>3. HoldsCopy(q)
        BY <2>1 DEF PostPayment, HoldsCopy
      <3>4. QED
        BY <3>2, <3>3
    <2>2. CASE PostLine(w)
      <3>1. request'[w] = [q EXCEPT !.stage = "fetch"]
        BY <2>2 DEF PostLine, Continues, TypeOK
      <3>2. QED
        BY <1>0, <2>2, <3>1 DEF PostLine, Request, Idle, HoldsCopy
    <2>3. CASE FetchAgain(w)
      <3>1. request'[w] = [q EXCEPT !.stage = "sum", !.row = row[q.inv]]
        BY <2>3 DEF FetchAgain, Continues, TypeOK
      <3>2. QED
        BY <1>0, <2>3, <3>1 DEF FetchAgain, Request, Idle
    <2>4. QED
      BY <2>1, <2>2, <2>3
  <1>8. HoldsCopy(request'[w]) => CopyGood(request[w].inv, request[w].row)'
    <2>1. HoldsCopy(q) => CopyGood(q.inv, q.row) /\ q.row \in Row
      BY <1>0, RequestFields DEF CopiesGood, HoldsCopy, Money
    <2>2. HoldsCopy(q) => /\ q.row.status # "none"
                          /\ q.row.status = "VOID" => q.inv \in voided'
                          /\ q.row.paid <= received'[q.inv]
                          /\ q.row.status = "PAID" => q.row.total > 0 /\ q.row.paid >= q.row.total
      BY <1>1, <1>4, <2>1 DEF CopyGood, LedgerGrows, TypeOK, Row
    <2>3. QED
      BY <1>2, <1>5, <1>7, <2>2 DEF CopyGood
  <1>9. QED
    BY <1>1, <1>2, <1>3, <1>4, <1>6, <1>7, <1>8, ChangedCopies DEF Exists

LEMMA CopiesTotals ==
  ASSUME TypeOK, TypeOK', CopiesGood, NEW w \in Workers,
         SumUp(w) \/ Save(w) \/ Dies(w) \/ SumFee(w) \/ SaveFee(w)
  PROVE  CopiesGood'
  <1> DEFINE q == request[w]
  <1>0. q \in Request
    BY DEF TypeOK
  <1>1. UNCHANGED <<charged, received, voided>>
    BY DEF SumUp, Save, Dies, SumFee, SaveFee, ledger, past
  <1>2. LedgerGrows
    BY <1>1 DEF LedgerGrows, TypeOK
  <1>3. \A v \in Workers \ {w} : request'[v] = request[v]
    BY DEF SumUp, Save, Dies, SumFee, SaveFee, Continues, TypeOK
  <1>4. CASE Dies(w) \/ (SumFee(w) /\ request'[w] = Idle)
    <2>1. UNCHANGED <<row, late>> /\ request'[w] = Idle
      BY <1>4 DEF Dies, SumFee, Continues, ledger, TypeOK
    <2>2. ~Works(request'[w]) /\ ~HoldsCopy(request'[w])
      BY <2>1 DEF Works, HoldsCopy, Idle
    <2>3. QED
      BY <1>1, <1>2, <1>3, <2>1, <2>2, ChangedCopies
  <1>5. CASE Save(w) \/ SaveFee(w)
    <2>1. /\ q.inv \in Invoices /\ q.row \in Row /\ Works(q)
          /\ HoldsCopy(q)
      BY <1>0, <1>5, RequestFields DEF Save, SaveFee, HoldsCopy, Money, Works
    <2>2. CopyGood(q.inv, q.row) /\ Exists(q.inv) /\ charged[q.inv] > 0
      BY <2>1 DEF CopiesGood
    <2>3. row' = [row EXCEPT ![q.inv] = q.row] /\ request'[w] = Idle
      BY <1>5 DEF Save, SaveFee, Continues, TypeOK
    <2>4. \A i \in Invoices : i = q.inv => CopyGood(i, row[i])'
      BY <1>1, <2>1, <2>2, <2>3 DEF CopyGood, TypeOK
    <2>5. \A i \in Invoices \ {q.inv} : row'[i] = row[i] /\ late'[i] = late[i]
      BY <1>5, <2>1, <2>3 DEF Save, SaveFee, TypeOK, ledger
    <2>6. ~Works(request'[w]) /\ ~HoldsCopy(request'[w])
      BY <2>3 DEF Works, HoldsCopy, Idle
    <2>7. QED
      BY <1>1, <1>2, <1>3, <2>1, <2>2, <2>4, <2>5, <2>6, ChangedCopies
  <1>6. CASE SumUp(w)
    <2> DEFINE r == Recalculated(q.row, Lines(q.inv), received[q.inv])
    <2>1. q.inv \in Invoices /\ q.row \in Row /\ Works(q) /\ HoldsCopy(q)
      BY <1>0, <1>6, RequestFields DEF SumUp, HoldsCopy, Money, Works
    <2>2. CopyGood(q.inv, q.row) /\ Exists(q.inv) /\ charged[q.inv] > 0
      BY <2>1 DEF CopiesGood
    <2>3. Lines(q.inv) \in Nat /\ Lines(q.inv) > 0
      BY <2>1, <2>2, LinesPositive
    <2>4. CopyGood(q.inv, r)
      BY <2>1, <2>2, <2>3, RecalculatedGood
    <2> HIDE DEF r
    <2>5. request'[w] = [q EXCEPT !.stage = "save", !.row = r]
      BY <1>6 DEF SumUp, Continues, TypeOK, r
    <2>6. request'[w].inv = q.inv /\ request'[w].row = r
      BY <1>0, <1>6, <2>5 DEF SumUp, Request, Idle
    <2>7. CopyGood(request[w].inv, request[w].row)'
      BY <1>1, <2>4, <2>6 DEF CopyGood
    <2>8. UNCHANGED <<row, late>>
      BY <1>6 DEF SumUp, ledger
    <2>9. QED
      BY <1>1, <1>2, <1>3, <2>2, <2>6, <2>7, <2>8, ChangedCopies
  <1>7. CASE SumFee(w) /\ request'[w] # Idle
    <2> DEFINE r == Recalculated([q.row EXCEPT !.lateFee = Fee],
                                 Lines(q.inv) + Fee, received[q.inv])
    <2>1. q.inv \in Invoices /\ q.row \in Row /\ Works(q) /\ HoldsCopy(q)
      BY <1>0, <1>7, RequestFields DEF SumFee, HoldsCopy, Money, Works
    <2>2. CopyGood(q.inv, q.row) /\ Exists(q.inv) /\ charged[q.inv] > 0
      BY <2>1 DEF CopiesGood
    <2>3. Lines(q.inv) + Fee \in Nat /\ Lines(q.inv) + Fee > 0
      BY <2>1, <2>2, LinesPositive, ConstantTypes
    <2>4. /\ [q.row EXCEPT !.lateFee = Fee] \in Row
          /\ CopyGood(q.inv, [q.row EXCEPT !.lateFee = Fee])
      BY <2>1, <2>2, ConstantTypes DEF Row, CopyGood
    <2>5. CopyGood(q.inv, r)
      BY <2>1, <2>3, <2>4, RecalculatedGood
    <2> HIDE DEF r
    <2>6. request'[w] = [q EXCEPT !.stage = "save", !.row = r]
      BY <1>7 DEF SumFee, Continues, TypeOK, r
    <2>7. request'[w].inv = q.inv /\ request'[w].row = r
      BY <1>0, <1>7, <2>6 DEF SumFee, Request, Idle
    <2>8. CopyGood(request[w].inv, request[w].row)'
      BY <1>1, <2>5, <2>7 DEF CopyGood
    <2>9. UNCHANGED <<row, late>>
      BY <1>7 DEF SumFee, ledger
    <2>10. QED
      BY <1>1, <1>2, <1>3, <2>2, <2>7, <2>8, <2>9, ChangedCopies
  <1>8. QED
    BY <1>4, <1>5, <1>6, <1>7

LEMMA CopiesOthers ==
  ASSUME TypeOK, TypeOK', CopiesGood, Recalculate \/ Void \/ TaskFlag \/ NextDay
  PROVE  CopiesGood'
  <1>1. /\ UNCHANGED <<request, charged, late, received>>
        /\ voided \subseteq voided'
    BY DEF Recalculate, Void, TaskFlag, NextDay, Meets, ledger, past
  <1>2. LedgerGrows
    BY <1>1 DEF LedgerGrows, TypeOK
  <1>3. ASSUME NEW i \in Invoices
        PROVE  row'[i] = row[i] \/ (Exists(i) /\ CopyGood(i, row[i])')
    <2>1. CASE row'[i] = row[i]
      BY <2>1
    <2>2. CASE Recalculate /\ row'[i] # row[i]
      <3>1. /\ Exists(i)
            /\ row'[i] = Recalculated(row[i], Lines(i), received[i])
        BY <2>2 DEF Recalculate, TypeOK
      <3>2. CopyGood(i, row[i]) /\ row[i] \in Row /\ Lines(i) \in Nat /\ Lines(i) > 0
        BY <3>1, LinesPositive DEF CopiesGood, TypeOK
      <3>3. CopyGood(i, row'[i])
        BY <3>1, <3>2, RecalculatedGood
      <3>4. QED
        BY <1>1, <3>1, <3>3 DEF CopyGood
    <2>3. CASE Void /\ row'[i] # row[i]
      <3>1. /\ Exists(i)
            /\ row'[i] = [row[i] EXCEPT !.status = "VOID"] /\ i \in voided'
        BY <2>3 DEF Void, TypeOK, Exists
      <3>2. CopyGood(i, row[i]) /\ row[i] \in Row
        BY <3>1 DEF CopiesGood, TypeOK
      <3>3. QED
        BY <1>1, <3>1, <3>2 DEF CopyGood, Row
    <2>4. CASE TaskFlag /\ row'[i] # row[i]
      <3>1. Exists(i) /\ row'[i] = [row[i] EXCEPT !.status = "OVER"]
        BY <2>4 DEF TaskFlag, TypeOK, Exists
      <3>2. CopyGood(i, row[i]) /\ row[i] \in Row
        BY <3>1 DEF CopiesGood, TypeOK
      <3>3. QED
        BY <1>1, <3>1, <3>2 DEF CopyGood, Row
    <2>5. CASE NextDay
      BY <2>5 DEF NextDay
    <2>6. QED
      BY <2>1, <2>2, <2>3, <2>4, <2>5
  <1>4. \A i \in Invoices : Exists(i) => charged'[i] > 0
    BY <1>1 DEF CopiesGood
  <1>5. QED
    BY <1>1, <1>2, <1>3, <1>4, ChangedCopies

LEMMA CopiesNext ==
  ASSUME TypeOK, TypeOK', CopiesGood, [Next]_vars
  PROVE  CopiesGood'
  <1>1. CASE UNCHANGED vars
    BY <1>1 DEF vars, ledger, clock, bounds, past, CopiesGood, CopyGood, Exists
  <1>2. CASE Next
    BY <1>2, CopiesGenerate, CopiesFetches, CopiesPosts, CopiesTotals, CopiesOthers DEF Next
  <1>3. QED
    BY <1>1, <1>2

LEMMA CopiesInit == Init => CopiesGood
  BY DEF Init, CopiesGood, Exists, NoRow, Idle, HoldsCopy, Works

LEMMA CopiesAlwaysGood == Spec => []CopiesGood
  BY CopiesInit, CopiesNext, RentTypes, PTL DEF Spec

(* An invoice shown as paid has totals that are covered, whichever copies  *)
(* requests save over each other and wherever they are cut short.          *)
THEOREM PaidInvoicesAreCovered == Spec => []PaidIsCovered
  <1>1. TypeOK /\ CopiesGood => PaidIsCovered
    BY DEF CopiesGood, CopyGood, PaidIsCovered, Exists, TypeOK
  <1>2. QED
    BY <1>1, RentTypes, CopiesAlwaysGood, PTL

-----------------------------------------------------------------------------
(* One invoice per period.  While a request generates one, every invoice   *)
(* that exists was void when it looked, or came from a rival since.        *)

PeriodInv ==
  /\ \A i, j \in Invoices :
       i # j /\ Exists(i) /\ Exists(j) => {i, j} \cap (disturbed \cup voided) # {}
  /\ \A w \in Workers : request[w].kind = "generate" =>
       \A i \in Invoices : Exists(i) => i \in disturbed \cup voided

LEMMA HistoryGrows ==
  ASSUME TypeOK, [Next]_vars
  PROVE  disturbed \subseteq disturbed' /\ voided \subseteq voided'
  <1>1. CASE UNCHANGED vars
    BY <1>1 DEF vars, past
  <1>2. ASSUME NEW w \in Workers,
               \/ FetchGenerate(w) \/ Generate(w)
               \/ FetchPayment(w) \/ PostPayment(w)
               \/ FetchLine(w) \/ PostLine(w) \/ FetchAgain(w)
               \/ SumUp(w) \/ Save(w) \/ Dies(w)
               \/ FetchFee(w) \/ TaskFees(w) \/ SumFee(w) \/ SaveFee(w)
        PROVE  disturbed \subseteq disturbed' /\ voided \subseteq voided'
    BY <1>2 DEF TypeOK, FetchGenerate, Generate, FetchPayment, PostPayment, FetchLine, PostLine,
                FetchAgain, SumUp, Save, Dies, FetchFee, TaskFees, SumFee, SaveFee,
                Starts, Meets, past
  <1>3. CASE Recalculate \/ Void \/ TaskFlag \/ NextDay
    BY <1>3 DEF Recalculate, Void, TaskFlag, NextDay, Meets, past
  <1>4. QED
    BY <1>1, <1>2, <1>3 DEF Next

LEMMA NextStage ==
  ASSUME NEW q \in Request, Works(q), NEW s, NEW r
  PROVE  /\ [q EXCEPT !.stage = s].kind = q.kind
         /\ [q EXCEPT !.stage = s].inv = q.inv
         /\ [q EXCEPT !.stage = s].row = q.row
         /\ [q EXCEPT !.stage = s].stage = s
         /\ [q EXCEPT !.stage = s, !.row = r].kind = q.kind
         /\ [q EXCEPT !.stage = s, !.row = r].inv = q.inv
         /\ [q EXCEPT !.stage = s, !.row = r].row = r
         /\ [q EXCEPT !.stage = s, !.row = r].stage = s
  BY DEF Request, Idle, Works

LEMMA PeriodGenerate ==
  ASSUME TypeOK, CopiesGood, PeriodInv, NEW w \in Workers, FetchGenerate(w) \/ Generate(w)
  PROVE  PeriodInv'
  <1>1. CASE FetchGenerate(w)
    <2>1. \A i \in Invoices : Exists(i) => i \in voided
      BY <1>1 DEF FetchGenerate, CopiesGood, CopyGood, Exists
    <2>2. QED
      BY <1>1, <2>1 DEF FetchGenerate, PeriodInv, Exists, past
  <1>2. CASE Generate(w)
    <2>1. PICK i \in Invoices :
            /\ ~Exists(i)
            /\ row' = [row EXCEPT ![i] =
                 [Recalculated(NoRow, RentAmount, 0) EXCEPT !.status = "ISSUED"]]
            /\ disturbed' = IF \E v \in Workers \ {w} : request[v].kind = "generate"
                              THEN disturbed \cup Invoices ELSE disturbed
      BY <1>2 DEF Generate
    <2>2. \A j \in Invoices : j # i => (Exists(j)' <=> Exists(j))
      BY <2>1 DEF Exists, TypeOK
    <2>3. \A j \in Invoices : Exists(j) => j \in disturbed \cup voided
      BY <1>2 DEF Generate, PeriodInv
    <2>4. voided' = voided /\ disturbed \subseteq disturbed'
      BY <1>2, <2>1 DEF Generate
    <2>5. ASSUME NEW v \in Workers, request'[v].kind = "generate"
          PROVE  Invoices \subseteq disturbed'
      <3>1. v # w /\ request[v].kind = "generate"
        BY <1>2, <2>5 DEF Generate, Continues, Idle, TypeOK
      <3>2. QED
        BY <2>1, <3>1
    <2>6. QED
      BY <2>2, <2>3, <2>4, <2>5 DEF PeriodInv
  <1>3. QED
    BY <1>1, <1>2

LEMMA PeriodStep ==
  ASSUME TypeOK, CopiesGood, PeriodInv, [Next]_vars
  PROVE  PeriodInv'
  <1>1. CASE \E w \in Workers : FetchGenerate(w) \/ Generate(w)
    BY <1>1, PeriodGenerate
  <1>2. ASSUME \A i \in Invoices : Exists(i)' => Exists(i),
               \A w \in Workers : request'[w].kind = "generate" => request[w].kind = "generate"
        PROVE  PeriodInv'
    BY <1>2, HistoryGrows DEF PeriodInv
  <1>3. CASE UNCHANGED vars
    BY <1>2, <1>3 DEF vars, Exists
  <1>4. ASSUME NEW w \in Workers, FetchPayment(w) \/ FetchLine(w) \/ FetchFee(w) \/ TaskFees(w)
        PROVE  PeriodInv'
    <2>1. \A i \in Invoices : Exists(i)' => Exists(i)
      BY <1>4 DEF FetchPayment, FetchLine, FetchFee, TaskFees, Starts, Exists
    <2>2. \A v \in Workers : request'[v].kind = "generate" => request[v].kind = "generate"
      BY <1>4 DEF FetchPayment, FetchLine, FetchFee, TaskFees, Starts, TypeOK
    <2>3. QED
      BY <1>2, <2>1, <2>2
  <1>5. ASSUME NEW w \in Workers,
               PostPayment(w) \/ PostLine(w) \/ FetchAgain(w) \/ SumUp(w) \/ Dies(w) \/ SumFee(w)
        PROVE  PeriodInv'
    <2>1. \A i \in Invoices : Exists(i)' => Exists(i)
      BY <1>5 DEF PostPayment, PostLine, FetchAgain, SumUp, Dies, SumFee, Exists
    <2>2. CASE request' = [request EXCEPT ![w] = Idle]
      <3>1. \A v \in Workers : request'[v].kind = "generate" => request[v].kind = "generate"
        BY <2>2 DEF Idle, TypeOK
      <3>2. QED
        BY <1>2, <2>1, <3>1
    <2>3. CASE request' # [request EXCEPT ![w] = Idle]
      <3>1. request[w] \in Request /\ Works(request[w])
        BY <1>5, <2>3
           DEF PostPayment, PostLine, FetchAgain, SumUp, Dies, SumFee, Continues, Works, TypeOK
      <3>2. PICK s, r : \/ Continues(w, [request[w] EXCEPT !.stage = s])
                        \/ Continues(w, [request[w] EXCEPT !.stage = s, !.row = r])
        BY <1>5, <2>3, Zenon
           DEF PostPayment, PostLine, FetchAgain, SumUp, Dies, SumFee, Continues
      <3>3. request'[w].kind = request[w].kind
        <4>1. \/ request'[w] = [request[w] EXCEPT !.stage = s]
              \/ request'[w] = [request[w] EXCEPT !.stage = s, !.row = r]
          BY <3>2 DEF Continues, TypeOK
        <4>2. /\ [request[w] EXCEPT !.stage = s].kind = request[w].kind
              /\ [request[w] EXCEPT !.stage = s, !.row = r].kind = request[w].kind
          BY <3>1, NextStage
        <4>3. QED
          BY <4>1, <4>2, Zenon
      <3>4. \A v \in Workers : request'[v].kind = "generate" => request[v].kind = "generate"
        BY <3>2, <3>3 DEF Continues, TypeOK
      <3>5. QED
        BY <1>2, <2>1, <3>4
    <2>4. QED
      BY <2>2, <2>3
  <1>6. ASSUME NEW w \in Workers, Save(w) \/ SaveFee(w)
        PROVE  PeriodInv'
    <2>1. Works(request[w]) /\ request[w].inv \in Invoices /\ Exists(request[w].inv)
      BY <1>6, RequestFields DEF Save, SaveFee, CopiesGood, Works, TypeOK, Money
    <2>2. \A i \in Invoices : Exists(i)' => Exists(i)
      BY <1>6, <2>1 DEF Save, SaveFee, Exists, TypeOK
    <2>3. \A v \in Workers : request'[v].kind = "generate" => request[v].kind = "generate"
      BY <1>6 DEF Save, SaveFee, Continues, Idle, TypeOK
    <2>4. QED
      BY <1>2, <2>2, <2>3
  <1>7. CASE Recalculate \/ Void \/ TaskFlag \/ NextDay
    <2>1. \A i \in Invoices : Exists(i)' => Exists(i)
      BY <1>7 DEF Recalculate, Void, TaskFlag, NextDay, Exists, TypeOK
    <2>2. request' = request
      BY <1>7 DEF Recalculate, Void, TaskFlag, NextDay
    <2>3. QED
      BY <1>2, <2>1, <2>2
  <1>8. QED
    BY <1>1, <1>3, <1>4, <1>5, <1>6, <1>7 DEF Next

(* A period has two invoices only if both were generated at the same time, *)
(* or one of them was void once.                                           *)
THEOREM PeriodsHaveOneInvoice == Spec => []OneInvoicePerPeriod
  <1>1. Init => PeriodInv
    BY DEF Init, PeriodInv, Exists, NoRow, Idle
  <1>2. PeriodInv => OneInvoicePerPeriod
    BY DEF PeriodInv, OneInvoicePerPeriod
  <1>3. QED
    BY <1>1, <1>2, PeriodStep, RentTypes, CopiesAlwaysGood, PTL DEF Spec

-----------------------------------------------------------------------------
(* The row and the ledger.  On an invoice that was never disturbed there   *)
(* is at most one request, and what it will save has the sums.             *)

Follows(i) == row[i].subtotal = Lines(i) /\ row[i].paid = received[i]

SumsGood(i, q) ==
  /\ q.kind \in Money /\ q.stage = "save" =>
       q.row.subtotal = Lines(i) /\ q.row.paid = received[i]
  /\ q.kind = "fee" /\ q.stage = "save" =>
       q.row.subtotal = Lines(i) + Fee /\ q.row.paid = received[i]
  /\ q.kind = "fee" \/ q.stage = "post" => Follows(i)

LedgerInv(i) ==
  i \notin disturbed /\ Exists(i) =>
    /\ \A w, v \in On(i) : w = v
    /\ On(i) = {} => Follows(i)
    /\ \A w \in On(i) : SumsGood(i, request[w])

LEMMA OnWorks ==
  ASSUME NEW i
  PROVE  /\ On(i) \subseteq Workers /\ On(i)' \subseteq Workers
         /\ \A w \in Workers : w \in On(i) <=> Works(request[w]) /\ request[w].inv = i
         /\ \A w \in Workers : w \in On(i)' <=> Works(request'[w]) /\ request'[w].inv = i
  BY DEF On, Works

(* An invoice a step does not touch.                                       *)
LEMMA Untouched ==
  ASSUME TypeOK, NEW i \in Invoices, LedgerInv(i),
         disturbed \subseteq disturbed',
         row'[i] = row[i], Lines(i)' = Lines(i), received'[i] = received[i],
         \A v \in Workers :
           \/ request'[v] = request[v]
           \/ /\ ~(Works(request[v]) /\ request[v].inv = i)
              /\ ~(Works(request'[v]) /\ request'[v].inv = i)
  PROVE  LedgerInv(i)'
  <1>1. On(i)' = On(i)
    <2>1. \A v \in Workers : v \in On(i)' <=> v \in On(i)
      BY OnWorks
    <2>2. QED
      BY <2>1, OnWorks
  <1>2. \A v \in On(i) : request'[v] = request[v]
    BY OnWorks
  <1>3. Follows(i)' <=> Follows(i)
    BY DEF Follows
  <1>4. \A v \in On(i) : SumsGood(i, request[v])' <=> SumsGood(i, request[v])
    BY <1>2, <1>3 DEF SumsGood
  <1>5. QED
    BY <1>1, <1>3, <1>4 DEF LedgerInv, Exists

LEMMA LedgerStarts ==
  ASSUME TypeOK, NEW w \in Workers, NEW i \in Invoices, NEW j \in Invoices, NEW q \in Request,
         Starts(w, i, q), Works(q), q.inv = i, q.kind = "fee" => q.stage = "sum",
         q.stage # "save", LedgerInv(j)
  PROVE  LedgerInv(j)'
  <1>1. /\ request' = [request EXCEPT ![w] = q] /\ request[w] = Idle
        /\ UNCHANGED <<row, charged, late, received>>
        /\ disturbed' = IF On(i) = {} THEN disturbed ELSE disturbed \cup {i}
    BY DEF Starts, Meets, ledger
  <1>2. request'[w] = q /\ \A v \in Workers \ {w} : request'[v] = request[v]
    BY <1>1 DEF TypeOK
  <1>3. Lines(j)' = Lines(j) /\ received'[j] = received[j] /\ row'[j] = row[j]
    BY <1>1 DEF Lines
  <1>4. ~Works(request[w])
    BY <1>1 DEF Works, Idle
  <1>5. CASE j # i
    BY <1>1, <1>2, <1>3, <1>4, <1>5, Untouched
  <1>6. CASE j = i /\ On(i) # {}
    BY <1>1, <1>6 DEF LedgerInv
  <1>7. CASE j = i /\ On(i) = {}
    <2>1. On(i)' = {w}
      BY <1>2, <1>7, OnWorks
    <2>2. i \notin disturbed' /\ Exists(i)' => Follows(i)'
      BY <1>1, <1>3, <1>7 DEF LedgerInv, Follows, Exists
    <2>3. i \notin disturbed' /\ Exists(i)' => SumsGood(i, request[w])'
      BY <1>2, <2>2 DEF SumsGood
    <2>4. QED
      BY <1>7, <2>1, <2>3 DEF LedgerInv
  <1>8. QED
    BY <1>5, <1>6, <1>7

(* A request that goes on, and stays the only one on its invoice.          *)
LEMMA LedgerContinues ==
  ASSUME TypeOK, NEW w \in Workers, NEW i \in Invoices, NEW j \in Invoices, NEW q,
         Works(request[w]), request[w].inv = i, Continues(w, q), Works(q), q.inv = i,
         disturbed \subseteq disturbed', row' = row,
         j # i => Lines(j)' = Lines(j) /\ received'[j] = received[j],
         i \notin disturbed' => SumsGood(i, q)', Exists(i), LedgerInv(j)
  PROVE  LedgerInv(j)'
  <1>1. request'[w] = q /\ \A v \in Workers \ {w} : request'[v] = request[v]
    BY DEF Continues, TypeOK
  <1>2. CASE j # i
    BY <1>1, <1>2, Untouched
  <1>3. CASE j = i
    <2>1. On(i)' = On(i) /\ w \in On(i)
      <3>1. \A v \in Workers : v \in On(i)' <=> v \in On(i)
        BY <1>1, OnWorks
      <3>2. QED
        BY <3>1, OnWorks
    <2>2. i \notin disturbed' => On(i) = {w}
      BY <1>3, <2>1 DEF LedgerInv
    <2>3. QED
      BY <1>1, <1>3, <2>1, <2>2 DEF LedgerInv
  <1>4. QED
    BY <1>2, <1>3

(* A request that is over.                                                 *)
LEMMA LedgerEnds ==
  ASSUME TypeOK, NEW w \in Workers, NEW i \in Invoices, NEW j \in Invoices,
         Works(request[w]), request[w].inv = i, Continues(w, Idle),
         disturbed \subseteq disturbed',
         j # i => Lines(j)' = Lines(j) /\ received'[j] = received[j] /\ row'[j] = row[j],
         i \notin disturbed' => Follows(i)', Exists(i), LedgerInv(j)
  PROVE  LedgerInv(j)'
  <1>1. request'[w] = Idle /\ \A v \in Workers \ {w} : request'[v] = request[v]
    BY DEF Continues, TypeOK
  <1>2. ~Works(request'[w])
    BY <1>1 DEF Works, Idle
  <1>3. CASE j # i
    BY <1>1, <1>2, <1>3, Untouched
  <1>4. CASE j = i
    <2>1. i \notin disturbed' => On(i) = {w}
      BY <1>4, OnWorks DEF LedgerInv
    <2>2. i \notin disturbed' => On(i)' = {}
      BY <1>1, <1>2, <2>1, OnWorks
    <2>3. QED
      BY <1>4, <2>2 DEF LedgerInv
  <1>5. QED
    BY <1>3, <1>4

LEMMA LedgerFetches ==
  ASSUME TypeOK, NEW w \in Workers, NEW j \in Invoices, LedgerInv(j),
         FetchPayment(w) \/ FetchLine(w) \/ FetchFee(w) \/ TaskFees(w)
  PROVE  LedgerInv(j)'
  <1>1. CASE FetchPayment(w)
    <2>1. PICK i \in Busy, a \in Amounts :
            Starts(w, i, [kind |-> "pay", inv |-> i, stage |-> "post", row |-> row[i],
                          amount |-> a, late |-> FALSE])
      BY <1>1 DEF FetchPayment
    <2>2. i \in Invoices /\ row[i] \in Row
      BY ConstantTypes DEF TypeOK
    <2>3. [kind |-> "pay", inv |-> i, stage |-> "post", row |-> row[i],
           amount |-> a, late |-> FALSE] \in Request
      BY <2>2 DEF Request
    <2>4. QED
      BY <2>1, <2>2, <2>3, LedgerStarts DEF Works
  <1>2. CASE FetchLine(w)
    <2>1. PICK i \in Busy, a \in Amounts, l \in BOOLEAN :
            Starts(w, i, [kind |-> "line", inv |-> i, stage |-> "post", row |-> NoRow,
                          amount |-> a, late |-> l])
      BY <1>2 DEF FetchLine
    <2>2. i \in Invoices
      BY ConstantTypes
    <2>3. [kind |-> "line", inv |-> i, stage |-> "post", row |-> NoRow,
           amount |-> a, late |-> l] \in Request
      BY <2>2, NoRowIsRow DEF Request
    <2>4. QED
      BY <2>1, <2>2, <2>3, LedgerStarts DEF Works
  <1>3. CASE FetchFee(w) \/ TaskFees(w)
    <2>1. CASE UNCHANGED <<request, row, ledger, today, bounds, past>>
      <3>1. Lines(j)' = Lines(j)
        BY <2>1 DEF Lines, ledger
      <3>2. QED
        BY <2>1, <3>1, Untouched DEF ledger, past
    <2>2. CASE ~UNCHANGED <<request, row, ledger, today, bounds, past>>
      <3>1. PICK i \in Busy :
              Starts(w, i, [kind |-> "fee", inv |-> i, stage |-> "sum", row |-> row[i]])
        BY <1>3, <2>2 DEF FetchFee, TaskFees
      <3>2. i \in Invoices /\ row[i] \in Row
        BY ConstantTypes DEF TypeOK
      <3>3. [kind |-> "fee", inv |-> i, stage |-> "sum", row |-> row[i]] \in Request
        BY <3>2 DEF Request
      <3>4. QED
        BY <3>1, <3>2, <3>3, LedgerStarts DEF Works
    <2>3. QED
      BY <2>1, <2>2
  <1>4. QED
    BY <1>1, <1>2, <1>3

LEMMA LedgerPosts ==
  ASSUME TypeOK, TypeOK', CopiesGood, NEW w \in Workers, NEW j \in Invoices, LedgerInv(j),
         PostPayment(w) \/ PostLine(w) \/ FetchAgain(w) \/ SumUp(w)
  PROVE  LedgerInv(j)'
  <1> DEFINE q == request[w]
  <1>0. q \in Request
    BY DEF TypeOK
  <1>1. /\ q.kind \in Money /\ Works(q) /\ Exists(q.inv)
        /\ q.row \in Row /\ q.inv \in Invoices /\ q.amount \in Amounts
    BY <1>0, RequestFields DEF PostPayment, PostLine, FetchAgain, SumUp, Money, CopiesGood, Works
  <1>2. PICK i \in Invoices : i = q.inv
    BY <1>1
  <1>3. row' = row /\ disturbed' = disturbed
    BY DEF PostPayment, PostLine, FetchAgain, SumUp, past
  <1>4. j # i => Lines(j)' = Lines(j) /\ received'[j] = received[j]
    <2>1. CASE PostPayment(w)
      BY <1>2, <2>1 DEF PostPayment, Lines, TypeOK
    <2>2. CASE PostLine(w)
      BY <1>2, <2>2 DEF PostLine, Lines, TypeOK
    <2>3. CASE FetchAgain(w) \/ SumUp(w)
      BY <2>3 DEF FetchAgain, SumUp, Lines, ledger
    <2>4. QED
      BY <2>1, <2>2, <2>3
  <1>5. ASSUME NEW n, Continues(w, n), n.kind = q.kind, n.inv = q.inv, n.stage # "post",
               n.stage = "save" => /\ n.row.subtotal = Lines(i)'
                                   /\ n.row.paid = received'[i]
        PROVE  LedgerInv(j)'
    <2>1. SumsGood(i, n)'
      BY <1>1, <1>5 DEF SumsGood, Money
    <2>2. Works(n)
      BY <1>1, <1>5 DEF Works
    <2>3. QED
      BY <1>1, <1>2, <1>3, <1>4, <1>5, <2>1, <2>2, LedgerContinues
  <1>6. CASE PostPayment(w)
    <2>1. Continues(w, [q EXCEPT !.stage = "sum"])
      BY <1>6 DEF PostPayment
    <2>2. QED
      BY <1>0, <1>1, <1>5, <2>1, NextStage
  <1>7. CASE PostLine(w)
    <2>1. Continues(w, [q EXCEPT !.stage = "fetch"])
      BY <1>7 DEF PostLine
    <2>2. QED
      BY <1>0, <1>1, <1>5, <2>1, NextStage
  <1>8. CASE FetchAgain(w)
    <2>1. Continues(w, [q EXCEPT !.stage = "sum", !.row = row[q.inv]])
      BY <1>8 DEF FetchAgain
    <2> DEFINE n == [q EXCEPT !.stage = "sum", !.row = row[q.inv]]
    <2>2. n.kind = q.kind /\ n.inv = q.inv /\ n.stage = "sum"
      BY <1>0, <1>1, NextStage
    <2> HIDE DEF n
    <2>3. Continues(w, n)
      BY <2>1 DEF n
    <2>4. QED
      BY <1>5, <2>2, <2>3
  <1>9. CASE SumUp(w)
    <2> DEFINE r == Recalculated(q.row, Lines(q.inv), received[q.inv])
    <2>1. r.subtotal = Lines(i) /\ r.paid = received[i]
      <3>1. Lines(i) \in Nat /\ received[i] \in Nat
        BY LinesAreNatural DEF TypeOK
      <3> DEFINE l == Lines(i)
                 p == received[i]
      <3>2. l \in Nat /\ p \in Nat
        BY <3>1
      <3> HIDE DEF l, p
      <3>3. Recalculated(q.row, l, p).subtotal = l /\ Recalculated(q.row, l, p).paid = p
        BY <1>1, <3>2, RecalculatedRow
      <3>4. QED
        BY <1>2, <3>3 DEF l, p
    <2>2. Lines(i)' = Lines(i) /\ received' = received
      BY <1>9 DEF SumUp, ledger, Lines
    <2> HIDE DEF r
    <2> DEFINE n == [q EXCEPT !.stage = "save", !.row = r]
    <2>3. n.kind = q.kind /\ n.inv = q.inv /\ n.stage = "save" /\ n.row = r
      BY <1>0, <1>1, NextStage
    <2>4. Continues(w, n)
      BY <1>9 DEF SumUp, r
    <2> HIDE DEF n
    <2>5. QED
      BY <1>5, <2>1, <2>2, <2>3, <2>4
  <1>10. QED
    BY <1>6, <1>7, <1>8, <1>9

LEMMA LedgerSave ==
  ASSUME TypeOK, TypeOK', CopiesGood, NEW w \in Workers, NEW j \in Invoices, LedgerInv(j),
         Save(w) \/ Dies(w)
  PROVE  LedgerInv(j)'
  <1> DEFINE q == request[w]
  <1>0. q \in Request
    BY DEF TypeOK
  <1>1. /\ UNCHANGED <<charged, late, received>> /\ disturbed \subseteq disturbed'
        /\ Continues(w, Idle)
    BY DEF Save, Dies, ledger, past
  <1>2. \A i \in Invoices : Lines(i)' = Lines(i) /\ received'[i] = received[i]
    BY <1>1 DEF Lines
  <1>3. CASE Works(q)
    <2>1. PICK i \in Invoices : i = q.inv
      BY <1>0, <1>3, RequestFields DEF Works, Money
    <2>2. Exists(i) /\ q.row \in Row
      BY <1>0, <1>3, <2>1, RequestFields DEF CopiesGood, Works, Money
    <2>3. j = i /\ i \notin disturbed => SumsGood(i, q)
      BY <1>3, <2>1, <2>2, OnWorks DEF LedgerInv
    <2>4. CASE Save(w)
      <3>1. row' = [row EXCEPT ![i] = q.row] /\ q.kind \in Money /\ q.stage = "save"
        BY <2>1, <2>4 DEF Save, Money
      <3>2. i = j /\ i \notin disturbed => Follows(i)'
        BY <1>2, <2>2, <2>3, <3>1 DEF SumsGood, Follows, TypeOK
      <3>3. j # i => row'[j] = row[j]
        BY <3>1 DEF TypeOK
      <3>4. CASE j = i
        BY <1>1, <1>2, <1>3, <2>1, <2>2, <3>2, <3>4, LedgerEnds
      <3>5. CASE j # i
        <4>1. \A v \in Workers \ {w} : request'[v] = request[v]
          BY <1>1 DEF Continues, TypeOK
        <4>2. ~Works(request'[w])
          BY <1>1 DEF Continues, TypeOK, Works, Idle
        <4>3. QED
          BY <1>1, <1>2, <2>1, <3>3, <3>5, <4>1, <4>2, Untouched
      <3>6. QED
        BY <3>4, <3>5
    <2>5. CASE Dies(w)
      <3>1. row' = row
        BY <2>5 DEF Dies
      <3>2. j = i /\ i \notin disturbed' => q.kind = "fee"
        BY <1>3, <2>1, <2>5 DEF Dies, Works
      <3>3. j = i /\ i \notin disturbed' => Follows(i)'
        BY <1>1, <1>2, <2>3, <3>1, <3>2 DEF SumsGood, Follows
      <3>4. CASE j = i /\ i \in disturbed'
        BY <3>4 DEF LedgerInv
      <3>5. CASE j = i /\ i \notin disturbed'
        BY <1>1, <1>2, <1>3, <2>1, <2>2, <3>1, <3>3, <3>5, LedgerEnds
      <3>6. CASE j # i
        <4>1. \A v \in Workers \ {w} : request'[v] = request[v]
          BY <1>1 DEF Continues, TypeOK
        <4>2. ~Works(request'[w])
          BY <1>1 DEF Continues, TypeOK, Works, Idle
        <4>3. QED
          BY <1>1, <1>2, <2>1, <3>1, <3>6, <4>1, <4>2, Untouched
      <3>7. QED
        BY <3>4, <3>5, <3>6
    <2>6. QED
      BY <2>4, <2>5
  <1>4. CASE ~Works(q)
    <2>1. row' = row
      BY <1>4 DEF Save, Dies, Works
    <2>2. \A v \in Workers \ {w} : request'[v] = request[v]
      BY <1>1 DEF Continues, TypeOK
    <2>3. ~Works(request'[w])
      BY <1>1 DEF Continues, TypeOK, Works, Idle
    <2>4. QED
      BY <1>1, <1>2, <1>4, <2>1, <2>2, <2>3, Untouched
  <1>5. QED
    BY <1>3, <1>4

LEMMA LedgerFee ==
  ASSUME TypeOK, TypeOK', CopiesGood, NEW w \in Workers, NEW j \in Invoices, LedgerInv(j),
         SumFee(w) \/ SaveFee(w)
  PROVE  LedgerInv(j)'
  <1> DEFINE q == request[w]
  <1>0. q \in Request
    BY DEF TypeOK
  <1>1. /\ q.kind = "fee" /\ Works(q) /\ Exists(q.inv) /\ q.inv \in Invoices /\ q.row \in Row
    BY <1>0, RequestFields DEF SumFee, SaveFee, CopiesGood, Works, Money
  <1>2. PICK i \in Invoices : i = q.inv
    BY <1>1
  <1>3. CASE j # i
    <2>1. row'[j] = row[j] /\ Lines(j)' = Lines(j) /\ received'[j] = received[j]
      BY <1>2, <1>3 DEF SumFee, SaveFee, Lines, ledger, TypeOK
    <2>2. disturbed' = disturbed /\ \A v \in Workers \ {w} : request'[v] = request[v]
      BY DEF SumFee, SaveFee, Continues, past, TypeOK
    <2>3. ~(Works(request'[w]) /\ request'[w].inv = j)
      <3>1. CASE request'[w] = Idle
        BY <3>1 DEF Works, Idle
      <3>2. CASE request'[w] # Idle
        <4>1. PICK r : request'[w] = [q EXCEPT !.stage = "save", !.row = r]
          BY <3>2, Zenon DEF SumFee, SaveFee, Continues, TypeOK
        <4>2. [q EXCEPT !.stage = "save", !.row = r].inv = q.inv
          BY <1>0, <1>1, NextStage
        <4>3. QED
          BY <1>2, <1>3, <4>1, <4>2
      <3>3. QED
        BY <3>1, <3>2
    <2>4. QED
      BY <1>2, <1>3, <2>1, <2>2, <2>3, Untouched
  <1>4. CASE j = i
    <2>1. i \notin disturbed => SumsGood(i, q) /\ Follows(i)
      BY <1>1, <1>2, <1>4, OnWorks DEF LedgerInv, SumsGood
    <2>2. CASE SaveFee(w)
      <3>1. /\ row' = [row EXCEPT ![i] = q.row] /\ late' = [late EXCEPT ![i] = @ + 1]
            /\ UNCHANGED <<charged, received, disturbed>> /\ Continues(w, Idle)
            /\ q.stage = "save"
        BY <1>2, <2>2 DEF SaveFee, past
      <3>2. Lines(i)' = Lines(i) + Fee
        <4>1. late[i] \in Nat /\ charged[i] \in Nat /\ Fee \in Nat
          BY ConstantTypes DEF TypeOK
        <4>2. Fee * (late[i] + 1) = Fee * late[i] + Fee
          BY <4>1
        <4>3. QED
          BY <3>1, <4>1, <4>2 DEF Lines, TypeOK
      <3>3. i \notin disturbed => Follows(i)'
        BY <1>1, <2>1, <3>1, <3>2 DEF SumsGood, Follows, TypeOK
      <3>4. QED
        BY <1>1, <1>2, <1>4, <3>1, <3>3, LedgerEnds
    <2>3. CASE SumFee(w) /\ Continues(w, Idle)
      <3>1. /\ UNCHANGED <<row, charged, late, received, disturbed>>
        BY <2>3 DEF SumFee, ledger, past
      <3>2. i \notin disturbed => Follows(i)'
        BY <2>1, <3>1 DEF Follows, Lines
      <3>3. QED
        BY <1>1, <1>2, <1>4, <2>3, <3>1, <3>2, LedgerEnds
    <2>4. CASE SumFee(w) /\ ~Continues(w, Idle)
      <3> DEFINE r == Recalculated([q.row EXCEPT !.lateFee = Fee],
                                   Lines(q.inv) + Fee, received[q.inv])
      <3>1. UNCHANGED <<row, charged, late, received, disturbed>>
        BY <2>4 DEF SumFee, ledger, past
      <3>2. r.subtotal = Lines(i) + Fee /\ r.paid = received[i]
        <4> DEFINE l == Lines(i) + Fee
                   p == received[i]
                   c == [q.row EXCEPT !.lateFee = Fee]
        <4>1. l \in Nat /\ p \in Nat /\ c \in Row
          BY <1>1, LinesAreNatural, ConstantTypes DEF TypeOK, Row
        <4> HIDE DEF l, p, c
        <4>2. Recalculated(c, l, p).subtotal = l /\ Recalculated(c, l, p).paid = p
          BY <4>1, RecalculatedRow
        <4>3. QED
          BY <1>2, <4>2 DEF l, p, c
      <3> HIDE DEF r
      <3>3. PICK n : n = [q EXCEPT !.stage = "save", !.row = r] /\ Continues(w, n)
        BY <2>4 DEF SumFee, r
      <3>4. n.kind = q.kind /\ n.inv = q.inv /\ n.stage = "save" /\ n.row = r
        BY <1>0, <1>1, <3>3, NextStage
      <3>5. Lines(i)' = Lines(i) /\ (Follows(i)' <=> Follows(i))
        BY <3>1 DEF Follows, Lines
      <3>6. i \notin disturbed => SumsGood(i, n)'
        BY <1>1, <2>1, <3>1, <3>2, <3>4, <3>5 DEF SumsGood, Money
      <3>7. Works(n)
        BY <1>1, <3>4 DEF Works
      <3>8. QED
        BY <1>1, <1>2, <1>4, <3>1, <3>3, <3>4, <3>6, <3>7, LedgerContinues
    <2>5. QED
      BY <2>2, <2>3, <2>4
  <1>5. QED
    BY <1>3, <1>4

LEMMA LedgerGenerate ==
  ASSUME TypeOK, CopiesGood, NEW w \in Workers, NEW j \in Invoices, LedgerInv(j),
         FetchGenerate(w) \/ Generate(w)
  PROVE  LedgerInv(j)'
  <1>1. \A v \in Workers : \/ request'[v] = request[v]
                           \/ ~Works(request[v]) /\ ~Works(request'[v])
    BY DEF FetchGenerate, Generate, Continues, TypeOK, Works, Idle
  <1>2. disturbed \subseteq disturbed' /\ UNCHANGED <<late, received>>
    BY DEF FetchGenerate, Generate, ledger, past
  <1>3. CASE FetchGenerate(w)
    <2>1. row'[j] = row[j] /\ Lines(j)' = Lines(j)
      BY <1>3 DEF FetchGenerate, ledger, Lines
    <2>2. QED
      BY <1>1, <1>2, <2>1, Untouched
  <1>4. CASE Generate(w)
    <2>1. PICK i \in Invoices :
            /\ ~Exists(i)
            /\ row' = [row EXCEPT ![i] =
                 [Recalculated(NoRow, RentAmount, 0) EXCEPT !.status = "ISSUED"]]
            /\ charged' = [charged EXCEPT ![i] = RentAmount]
      BY <1>4 DEF Generate
    <2>2. CASE j # i
      <3>1. row'[j] = row[j] /\ Lines(j)' = Lines(j)
        BY <1>2, <2>1, <2>2 DEF Lines, TypeOK
      <3>2. QED
        BY <1>1, <1>2, <3>1, Untouched
    <2>3. CASE j = i
      <3>1. On(i)' = {}
        <4>1. \A v \in Workers : ~(Works(request'[v]) /\ request'[v].inv = i)
          BY <1>1, <2>1 DEF CopiesGood
        <4>2. QED
          BY <4>1, OnWorks
      <3>2. /\ Recalculated(NoRow, RentAmount, 0) \in Row
            /\ Recalculated(NoRow, RentAmount, 0).subtotal = RentAmount
            /\ Recalculated(NoRow, RentAmount, 0).paid = 0
        BY RecalculatedRow, NoRowIsRow, ConstantTypes
      <3>3. row'[i].subtotal = RentAmount /\ row'[i].paid = 0
        BY <2>1, <3>2 DEF TypeOK, Row
      <3>4. late'[i] = 0 /\ received'[i] = 0 /\ charged'[i] = RentAmount
        BY <1>2, <2>1 DEF CopiesGood, TypeOK
      <3>5. Follows(i)'
        BY <3>3, <3>4, ConstantTypes DEF Follows, Lines
      <3>6. QED
        BY <2>3, <3>1, <3>5 DEF LedgerInv
    <2>4. QED
      BY <2>2, <2>3
  <1>5. QED
    BY <1>3, <1>4

LEMMA LedgerOthers ==
  ASSUME TypeOK, CopiesGood, NEW j \in Invoices, LedgerInv(j),
         Recalculate \/ Void \/ TaskFlag \/ NextDay
  PROVE  LedgerInv(j)'
  <1>1. UNCHANGED <<request, charged, late, received>>
    BY DEF Recalculate, Void, TaskFlag, NextDay, ledger
  <1>2. disturbed \subseteq disturbed'
    BY DEF Recalculate, Void, TaskFlag, NextDay, Meets, past
  <1>3. Lines(j)' = Lines(j) /\ On(j)' = On(j)
    BY <1>1 DEF Lines, On
  <1>4. CASE row'[j] = row[j]
    BY <1>1, <1>2, <1>3, <1>4, Untouched
  <1>5. CASE Recalculate /\ row'[j] # row[j]
    <2>1. PICK i \in Busy : /\ Exists(i)
                            /\ row' = [row EXCEPT ![i] = Recalculated(@, Lines(i), received[i])]
                            /\ Meets(i)
      BY <1>5 DEF Recalculate
    <2>2. i = j
      BY <1>5, <2>1, ConstantTypes DEF TypeOK
    <2>3. row'[j] = Recalculated(row[j], Lines(j), received[j])
      BY <2>1, <2>2 DEF TypeOK
    <2>4. Follows(j)'
      <3> DEFINE l == Lines(j)
                 p == received[j]
                 c == row[j]
      <3>1. l \in Nat /\ p \in Nat /\ c \in Row
        BY LinesAreNatural DEF TypeOK
      <3> HIDE DEF l, p, c
      <3>2. Recalculated(c, l, p).subtotal = l /\ Recalculated(c, l, p).paid = p
        BY <3>1, RecalculatedRow
      <3>3. QED
        BY <1>1, <1>3, <2>3, <3>2 DEF l, p, c, Follows
    <2>5. j \notin disturbed' => On(j) = {}
      BY <2>1, <2>2 DEF Meets
    <2>6. QED
      BY <1>3, <2>4, <2>5 DEF LedgerInv
  <1>6. CASE (Void \/ TaskFlag) /\ row'[j] # row[j]
    <2>1. \E s \in Status : row'[j] = [row[j] EXCEPT !.status = s]
      BY <1>6 DEF Void, TaskFlag, TypeOK, Status
    <2>2. Exists(j)
      BY <1>6 DEF Void, TaskFlag, TypeOK, Exists
    <2>3. row'[j].subtotal = row[j].subtotal /\ row'[j].paid = row[j].paid
      BY <2>1 DEF TypeOK, Row
    <2>4. Follows(j)' <=> Follows(j)
      BY <1>1, <1>3, <2>3 DEF Follows
    <2>5. \A v \in Workers : SumsGood(j, request[v])' <=> SumsGood(j, request[v])
      BY <1>1, <1>3, <2>4 DEF SumsGood
    <2>6. QED
      BY <1>2, <1>3, <2>2, <2>4, <2>5, OnWorks DEF LedgerInv
  <1>7. CASE NextDay
    BY <1>4, <1>7 DEF NextDay
  <1>8. QED
    BY <1>4, <1>5, <1>6, <1>7

LEMMA LedgerStep ==
  ASSUME TypeOK, TypeOK', CopiesGood, NEW j \in Invoices, LedgerInv(j), [Next]_vars
  PROVE  LedgerInv(j)'
  <1>1. CASE UNCHANGED vars
    <2>1. Lines(j)' = Lines(j)
      BY <1>1 DEF vars, ledger, Lines
    <2>2. QED
      BY <1>1, <2>1, Untouched DEF vars, ledger, past
  <1>2. CASE Next
    BY <1>2, LedgerGenerate, LedgerFetches, LedgerPosts, LedgerSave, LedgerFee, LedgerOthers
       DEF Next
  <1>3. QED
    BY <1>1, <1>2

LedgersGood == \A i \in Invoices : LedgerInv(i)

(* An invoice whose requests ran one after the other, and to their end,    *)
(* repeats the ledger once the last of them is done: no payment, charge or *)
(* late fee is missing from its totals.                                    *)
THEOREM RowsFollowTheLedger == Spec => []RowFollowsLedger
  <1>1. Init => LedgersGood
    BY DEF Init, LedgersGood, LedgerInv, Exists, NoRow
  <1>2. TypeOK /\ TypeOK' /\ CopiesGood /\ LedgersGood /\ [Next]_vars => LedgersGood'
    BY LedgerStep DEF LedgersGood
  <1>3. LedgersGood => RowFollowsLedger
    BY DEF LedgersGood, LedgerInv, RowFollowsLedger, Follows
  <1>4. QED
    BY <1>1, <1>2, <1>3, RentTypes, CopiesAlwaysGood, PTL DEF Spec
=============================================================================
