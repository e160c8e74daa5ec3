--------------------------- MODULE Billing_proofs ---------------------------
(***************************************************************************)
(* What TLC finds on a short calendar holds for every calendar, price and  *)
(* number of workers, invoices and charges.                                *)
(***************************************************************************)
EXTENDS Billing, TLAPS

-----------------------------------------------------------------------------
(* Type correctness.                                                       *)

LEMMA RequestFields ==
  ASSUME NEW q \in Request
  PROVE  /\ q.kind \in {"cancel", "extend"} => q.sub \in Subscription
         /\ q.kind = "pay" => /\ q.invoice \in Invoices /\ q.amount \in Nat
                              /\ q.charge \in Charges \cup {NoCharge}
                              /\ q.before \in Nat /\ q.sub \in Subscription
                              /\ q.active \in BOOLEAN
         /\ q.kind \in {"idle", "cancel", "extend", "pay"}
  BY DEF Request, Idle

LEMMA JobFields ==
  ASSUME NEW j \in Job
  PROVE  /\ j.kind \in {"convert", "first", "renew", "suspend"} => j.sub \in Subscription
         /\ j.kind \in {"idle", "flip", "convert", "first", "renew", "suspend"}
  BY DEF Job, Idle

LEMMA TypeInit == Init => TypeOK
  BY BillingAssumption
     DEF Init, TypeOK, StartTrial, Subscription, SubStatus, Blank, Invoice, InvoiceStatus,
         Request, Job, Done, NoInvoice

LEMMA TypeFetched ==
  ASSUME TypeOK, NEW w \in Web, NEW q \in Request, Fetched(w, q)
  PROVE  TypeOK'
  BY DEF TypeOK, Fetched, money, clock, tally

LEMMA TypeChangePlan ==
  ASSUME TypeOK, NEW w \in Web, ChangePlan(w)
  PROVE  TypeOK'
  <1>1. invoice' \in [Invoices -> Invoice]
    BY DEF TypeOK, ChangePlan, Invoice, InvoiceStatus
  <1>2. changes' \in Nat
    BY DEF TypeOK, ChangePlan
  <1>3. QED
    BY <1>1, <1>2 DEF TypeOK, ChangePlan, money, clock, tally

LEMMA TypeCancel ==
  ASSUME TypeOK, NEW w \in Web, FetchCancel(w) \/ Cancel(w)
  PROVE  TypeOK'
  <1>1. CASE FetchCancel(w)
    <2>1. [kind |-> "cancel", sub |-> sub] \in Request
      BY DEF TypeOK, Request
    <2>2. QED
      BY <1>1, <2>1, TypeFetched DEF FetchCancel
  <1>2. CASE Cancel(w)
    <2>1. request[w].sub \in Subscription
      BY <1>2, RequestFields DEF TypeOK, Cancel
    <2>2. sub' \in Subscription
      BY <1>2, <2>1 DEF Cancel, Subscription, SubStatus
    <2>3. request' \in [Web -> Request]
      BY <1>2 DEF TypeOK, Cancel, Answered, Request
    <2>4. QED
      BY <1>2, <2>2, <2>3 DEF TypeOK, Cancel, money, clock, tally
  <1>3. QED
    BY <1>1, <1>2

LEMMA TypeExtend ==
  ASSUME TypeOK, NEW w \in Web, FetchExtendTrial(w) \/ ExtendTrial(w)
  PROVE  TypeOK'
  <1>1. CASE FetchExtendTrial(w)
    <2>1. [kind |-> "extend", sub |-> sub] \in Request
      BY DEF TypeOK, Request
    <2>2. QED
      BY <1>1, <2>1, TypeFetched DEF FetchExtendTrial
  <1>2. CASE ExtendTrial(w)
    <2>1. request[w].sub \in Subscription
      BY <1>2, RequestFields DEF TypeOK, ExtendTrial
    <2>2. sub' \in Subscription
      BY <1>2, <2>1 DEF TypeOK, ExtendTrial, Subscription
    <2>3. request' \in [Web -> Request] /\ extensions' \in Nat
      BY <1>2 DEF TypeOK, ExtendTrial, Answered, Request
    <2>4. QED
      BY <1>2, <2>2, <2>3 DEF TypeOK, ExtendTrial, money, clock
  <1>3. QED
    BY <1>1, <1>2

LEMMA TypePayInvoice ==
  ASSUME TypeOK, NEW c \in Charges, PayInvoice(c)
  PROVE  TypeOK'
  BY DEF TypeOK, PayInvoice, clock, tally

LEMMA PaymentIsRequest ==
  ASSUME TypeOK, NEW i \in Invoices, NEW a \in Nat, NEW c \in Charges \cup {NoCharge}
  PROVE  Payment(i, a, c) \in Request
  BY DEF TypeOK, Payment, Request

LEMMA TypeFetchPayment ==
  ASSUME TypeOK, NEW w \in Web, FetchCallback(w) \/ FetchMarkPaid(w)
  PROVE  TypeOK'
  <1>1. CASE FetchCallback(w)
    <2>1. PICK c \in Charges : charge[c] # NoInvoice /\ Fetched(w, Payment(charge[c], Price, c))
      BY <1>1 DEF FetchCallback
    <2>2. charge[c] \in Invoices /\ Price \in Nat
      BY <2>1, BillingAssumption DEF TypeOK
    <2>3. QED
      BY <2>1, <2>2, PaymentIsRequest, TypeFetched
  <1>2. CASE FetchMarkPaid(w)
    <2>1. PICK i \in Invoices, a \in Amounts : Fetched(w, Payment(i, a, NoCharge))
      BY <1>2 DEF FetchMarkPaid
    <2>2. a \in Nat
      BY BillingAssumption
    <2>3. QED
      BY <2>1, <2>2, PaymentIsRequest, TypeFetched
  <1>3. QED
    BY <1>1, <1>2

LEMMA TypePaidUp ==
  ASSUME TypeOK, NEW s \in Subscription, NEW until \in Nat
  PROVE  PaidUp(s, until) \in Subscription
  BY DEF TypeOK, PaidUp, Subscription, SubStatus

LEMMA TypeRecordPayment ==
  ASSUME TypeOK, NEW w \in Web, RecordPayment(w)
  PROVE  TypeOK'
  <1> DEFINE q == request[w]
  <1>1. /\ q.invoice \in Invoices /\ q.amount \in Nat /\ q.before \in Nat
        /\ q.sub \in Subscription /\ q.active \in BOOLEAN
    BY RequestFields DEF TypeOK, RecordPayment
  <1>2. invoice[q.invoice].until \in Nat
    BY <1>1 DEF TypeOK, Invoice
  <1>3. sub' \in Subscription
    BY <1>1, <1>2, TypePaidUp DEF RecordPayment
  <1>4. invoice' \in [Invoices -> Invoice]
    BY <1>1 DEF TypeOK, RecordPayment, Invoice, InvoiceStatus
  <1>5. paid' \in [Invoices -> Nat]
    BY <1>1 DEF TypeOK, RecordPayment
  <1>6. recorded' \in [Charges -> Nat]
    BY DEF TypeOK, RecordPayment
  <1>7. request' \in [Web -> Request]
    BY DEF TypeOK, RecordPayment, Answered, Request
  <1>8. tenantActive' \in BOOLEAN
    BY DEF TypeOK, RecordPayment
  <1>9. QED
    BY <1>3, <1>4, <1>5, <1>6, <1>7, <1>8 DEF TypeOK, RecordPayment, clock, tally

LEMMA TypeGenerate ==
  ASSUME TypeOK, NEW s \in Subscription, NEW until \in Nat, NEW due \in Nat,
         GenerateInvoice(s, until, due)
  PROVE  invoice' \in [Invoices -> Invoice]
  BY DEF TypeOK, GenerateInvoice, Invoice, InvoiceStatus, Subscription

LEMMA TypeScanned ==
  ASSUME TypeOK, NEW n \in 1 .. 4, NEW found, NEW j \in Job, Scanned(n, found, j)
  PROVE  TypeOK'
  <1>1. job' \in Job /\ slot' \in 1 .. Done
    BY DEF TypeOK, Scanned, Job, Done
  <1>2. QED
    BY <1>1 DEF TypeOK, Scanned, money, tally

(* The slot of the day a task in progress belongs to: without it the last  *)
(* task of a day could run the count over.                                 *)
JobInSlot ==
  /\ job.kind \in {"convert", "first"} => slot = 1
  /\ job.kind = "renew" => slot = 2
  /\ job.kind = "flip" => slot = 3
  /\ job.kind = "suspend" => slot = 4

LEMMA TypeTaskEnds ==
  ASSUME TypeOK, JobInSlot, TaskEnds, job.kind # "idle" \/ slot < Done
  PROVE  job' \in Job /\ slot' \in 1 .. Done
  <1>1. slot < Done
    BY JobFields DEF TypeOK, JobInSlot, Done
  <1>2. QED
    BY <1>1 DEF TypeOK, TaskEnds, Job, Done

LEMMA TypeTrials ==
  ASSUME TypeOK, JobInSlot, ScanTrials \/ ConvertTrial \/ IssueFirst
  PROVE  TypeOK'
  <1>1. CASE ScanTrials
    <2>1. [kind |-> "convert", sub |-> sub] \in Job
      BY DEF TypeOK, Job
    <2>2. QED
      BY <1>1, <2>1, TypeScanned DEF ScanTrials
  <1>2. CASE ConvertTrial
    <2>1. job.sub \in Subscription
      BY <1>2, JobFields DEF TypeOK, ConvertTrial
    <2>2. sub' \in Subscription /\ job' \in Job
      BY <1>2, <2>1 DEF TypeOK, ConvertTrial, Subscription, SubStatus, Job
    <2>3. QED
      BY <1>2, <2>2 DEF TypeOK, ConvertTrial, money, clock, tally
  <1>3. CASE IssueFirst
    <2>1. job.sub \in Subscription
      BY <1>3, JobFields DEF TypeOK, IssueFirst
    <2>2. job.sub.periodEnd + Interval \in Nat /\ today + Terms \in Nat
      BY <2>1, BillingAssumption DEF TypeOK, Subscription
    <2>3. invoice' \in [Invoices -> Invoice]
      BY <1>3, <2>1, <2>2, TypeGenerate DEF IssueFirst
    <2>4. job' \in Job /\ slot' \in 1 .. Done
      BY <1>3, TypeTaskEnds DEF IssueFirst
    <2>5. QED
      BY <1>3, <2>3, <2>4 DEF TypeOK, IssueFirst, money, tally
  <1>4. QED
    BY <1>1, <1>2, <1>3

LEMMA TypeRenewals ==
  ASSUME TypeOK, JobInSlot, ScanRenewals \/ IssueRenewal
  PROVE  TypeOK'
  <1>1. CASE ScanRenewals
    <2>1. [kind |-> "renew", sub |-> sub] \in Job
      BY DEF TypeOK, Job
    <2>2. PICK found : Scanned(2, found, [kind |-> "renew", sub |-> sub])
      BY <1>1 DEF ScanRenewals
    <2>3. QED
      BY <2>1, <2>2, TypeScanned
  <1>2. CASE IssueRenewal
    <2>1. job.sub \in Subscription
      BY <1>2, JobFields DEF TypeOK, IssueRenewal
    <2>2. job.sub.periodEnd + Renewal \in Nat /\ job.sub.periodEnd \in Nat
      BY <2>1, BillingAssumption DEF Subscription
    <2>3. invoice' \in [Invoices -> Invoice]
      BY <1>2, <2>1, <2>2, TypeGenerate DEF IssueRenewal
    <2>4. job' \in Job /\ slot' \in 1 .. Done
      BY <1>2, TypeTaskEnds DEF IssueRenewal
    <2>5. QED
      BY <1>2, <2>3, <2>4 DEF TypeOK, IssueRenewal, money, tally
  <1>3. QED
    BY <1>1, <1>2

LEMMA TypeOverdue ==
  ASSUME TypeOK, JobInSlot, MarkOverdue \/ FlipPastDue
  PROVE  TypeOK'
  <1>1. CASE MarkOverdue
    <2>1. invoice' \in [Invoices -> Invoice]
      BY <1>1 DEF TypeOK, MarkOverdue, Invoice, InvoiceStatus
    <2>2. job' \in Job
      BY <1>1 DEF MarkOverdue, Job
    <2>3. QED
      BY <1>1, <2>1, <2>2 DEF TypeOK, MarkOverdue, money, clock, tally
  <1>2. CASE FlipPastDue
    <2>1. sub' \in Subscription
      BY <1>2 DEF TypeOK, FlipPastDue, Subscription, SubStatus
    <2>2. job' \in Job /\ slot' \in 1 .. Done
      BY <1>2, TypeTaskEnds DEF FlipPastDue
    <2>3. QED
      BY <1>2, <2>1, <2>2 DEF TypeOK, FlipPastDue, money, tally
  <1>3. QED
    BY <1>1, <1>2

LEMMA TypeDelinquents ==
  ASSUME TypeOK, JobInSlot, ScanDelinquents \/ Suspend
  PROVE  TypeOK'
  <1>1. CASE ScanDelinquents
    <2>1. [kind |-> "suspend", sub |-> sub] \in Job
      BY DEF TypeOK, Job
    <2>2. QED
      BY <1>1, <2>1, TypeScanned DEF ScanDelinquents
  <1>2. CASE Suspend
    <2>1. job.sub \in Subscription
      BY <1>2, JobFields DEF TypeOK, Suspend
    <2>2. sub' \in Subscription /\ tenantActive' \in BOOLEAN
      BY <1>2, <2>1 DEF TypeOK, Suspend, Subscription, SubStatus
    <2>3. job' \in Job /\ slot' \in 1 .. Done
      BY <1>2, TypeTaskEnds DEF Suspend
    <2>4. QED
      BY <1>2, <2>2, <2>3 DEF TypeOK, Suspend, money, tally
  <1>3. QED
    BY <1>1, <1>2

LEMMA TypeTaskFails ==
  ASSUME TypeOK, JobInSlot, TaskFails
  PROVE  TypeOK'
  <1>1. job' \in Job /\ slot' \in 1 .. Done
    BY TypeTaskEnds DEF TaskFails
  <1>2. faults' \in Nat
    BY DEF TypeOK, TaskFails
  <1>3. QED
    BY <1>1, <1>2 DEF TypeOK, TaskFails, money

LEMMA TypeNextDay ==
  ASSUME TypeOK, NextDay
  PROVE  TypeOK'
  BY DEF TypeOK, NextDay, Unpaid, Done, money, tally

LEMMA TypeNext ==
  ASSUME TypeOK, JobInSlot, [Next]_vars
  PROVE  TypeOK'
  <1>1. CASE \E w \in Web : WebRequest(w)
    BY <1>1, TypeChangePlan, TypeCancel, TypeExtend, TypeFetchPayment, TypeRecordPayment
       DEF WebRequest
  <1>2. CASE \E c \in Charges : PayInvoice(c)
    BY <1>2, TypePayInvoice
  <1>3. CASE Beat
    BY <1>3, TypeTrials, TypeRenewals, TypeOverdue, TypeDelinquents, TypeTaskFails, TypeNextDay
       DEF Beat
  <1>4. CASE UNCHANGED vars
    BY <1>4 DEF vars, money, clock, tally, TypeOK
  <1>5. QED
    BY <1>1, <1>2, <1>3, <1>4 DEF Next

(* Web requests leave the task in progress alone; the tasks keep to their  *)
(* slots.                                                                  *)
LEMMA SlotNext ==
  ASSUME JobInSlot, [Next]_vars
  PROVE  JobInSlot'
  <1>1. CASE \E w \in Web : WebRequest(w)
    BY <1>1 DEF WebRequest, ChangePlan, FetchCancel, Cancel, FetchExtendTrial, ExtendTrial,
                FetchCallback, FetchMarkPaid, RecordPayment, Fetched, clock, JobInSlot
  <1>2. CASE \E c \in Charges : PayInvoice(c)
    BY <1>2 DEF PayInvoice, clock, JobInSlot
  <1>3. CASE Beat
    BY <1>3 DEF Beat, ScanTrials, ConvertTrial, IssueFirst, ScanRenewals, IssueRenewal,
                MarkOverdue, FlipPastDue, ScanDelinquents, Suspend, TaskFails, NextDay,
                Scanned, TaskEnds, clock, Idle, JobInSlot
  <1>4. CASE UNCHANGED vars
    BY <1>4 DEF vars, clock, JobInSlot
  <1>5. QED
    BY <1>1, <1>2, <1>3, <1>4 DEF Next

(* Every variable keeps its type: for the task count of the day this needs *)
(* that a task only runs in its slot.                                      *)
THEOREM BillingTypes == Spec => []TypeOK
  <1>1. Init => TypeOK /\ JobInSlot
    BY TypeInit DEF Init, JobInSlot, Idle
  <1>2. TypeOK /\ JobInSlot /\ [Next]_vars => TypeOK' /\ JobInSlot'
    BY TypeNext, SlotNext
  <1>3. QED
    BY <1>1, <1>2, PTL DEF Spec
-----------------------------------------------------------------------------
(***************************************************************************)
(* The relation between a subscription and its invoices, proved from an    *)
(* inductive invariant that follows stale copies of the subscription: what *)
(* a request or a task in progress will write back.                        *)
(***************************************************************************)

(* What no step undoes.  rows and gone stand for the invoices of one state *)
(* and for those of them that had lapsed.                                  *)

IsEnd(rows, d) ==
  d = TrialDays \/ \E j \in Invoices : rows[j].status # "none" /\ rows[j].until = d

WasLate(rows, gone) == \E i \in gone : rows[i].status \in {"OVER", "PAID"}

(* A copy of the subscription that may safely be written back.             *)
GoodCopy(rows, gone, s) ==
  IsEnd(rows, s.periodEnd) /\ (s.status = "SUSP" => WasLate(rows, gone))

RowsKept ==
  /\ today <= today' /\ lapsed \subseteq lapsed'
  /\ \A i \in Invoices : paid[i] <= paid'[i]
  /\ \A i \in Invoices : invoice[i].status # "none" =>
       /\ invoice'[i].status # "none"
       /\ invoice'[i].from = invoice[i].from
       /\ invoice'[i].until = invoice[i].until
       /\ invoice'[i].due = invoice[i].due
       /\ invoice[i].status = "OVER" => invoice'[i].status \in {"OVER", "PAID"}
       /\ invoice[i].status = "PAID" => invoice'[i].status = "PAID"

LEMMA RowsKeptByFetch ==
  ASSUME TypeOK, UNCHANGED <<invoice, paid, today, lapsed>>
  PROVE  RowsKept
  BY DEF TypeOK, RowsKept

LEMMA RowsKeptByGenerate ==
  ASSUME TypeOK, NEW s, NEW until, NEW due, GenerateInvoice(s, until, due),
         UNCHANGED <<paid, today, lapsed>>
  PROVE  RowsKept
  BY DEF TypeOK, RowsKept, GenerateInvoice, NextRow

LEMMA RowsKeptByPayment ==
  ASSUME TypeOK, NEW w \in Web, RecordPayment(w)
  PROVE  RowsKept
  <1>1. request[w].invoice \in Invoices /\ request[w].amount \in Nat
    BY RequestFields DEF TypeOK, RecordPayment
  <1>2. today <= today' /\ lapsed' = lapsed
    BY DEF RecordPayment, clock, tally, TypeOK
  <1>3. \A i \in Invoices : paid[i] <= paid'[i]
    BY <1>1 DEF RecordPayment, TypeOK
  <1>4. \A i \in Invoices : invoice[i] \in Invoice
    BY DEF TypeOK
  <1>5. \A i \in Invoices :
          invoice'[i] = invoice[i] \/ invoice'[i] = [invoice[i] EXCEPT !.status = "PAID"]
    BY <1>1 DEF RecordPayment, TypeOK
  <1>6. QED
    BY <1>2, <1>3, <1>4, <1>5 DEF RowsKept, Invoice

(* Invoices are never deleted, their dates never change, debts are settled *)
(* only by payment, payments add up and time does not run backwards.       *)
LEMMA RowsKeptByNext ==
  ASSUME TypeOK, [Next]_vars
  PROVE  RowsKept
  <1>1. CASE \E w \in Web : WebRequest(w)
    <2> PICK w \in Web : WebRequest(w)
      BY <1>1
    <2>1. CASE ChangePlan(w)
      BY <2>1 DEF TypeOK, Invoice, ChangePlan, RowsKept, money, clock
    <2>2. CASE FetchCancel(w) \/ FetchExtendTrial(w) \/ FetchCallback(w) \/ FetchMarkPaid(w)
      BY <2>2, RowsKeptByFetch
         DEF FetchCancel, FetchExtendTrial, FetchCallback, FetchMarkPaid, Fetched, money, clock, tally
    <2>3. CASE Cancel(w) \/ ExtendTrial(w)
      BY <2>3, RowsKeptByFetch DEF Cancel, ExtendTrial, money, clock, tally
    <2>4. CASE RecordPayment(w)
      BY <2>4, RowsKeptByPayment
    <2>5. QED
      BY <2>1, <2>2, <2>3, <2>4 DEF WebRequest
  <1>2. CASE \E c \in Charges : PayInvoice(c)
    BY <1>2, RowsKeptByFetch DEF PayInvoice, clock, tally
  <1>3. CASE Beat
    <2>1. CASE ScanTrials \/ ScanRenewals \/ ScanDelinquents
      BY <2>1, RowsKeptByFetch
         DEF ScanTrials, ScanRenewals, ScanDelinquents, Scanned, money, tally
    <2>2. CASE ConvertTrial \/ FlipPastDue \/ Suspend \/ TaskFails
      BY <2>2, RowsKeptByFetch
         DEF ConvertTrial, FlipPastDue, Suspend, TaskFails, money, clock, tally
    <2>3. CASE IssueFirst \/ IssueRenewal
      BY <2>3, RowsKeptByGenerate DEF IssueFirst, IssueRenewal, money, tally
    <2>4. CASE MarkOverdue
      BY <2>4 DEF TypeOK, Invoice, MarkOverdue, RowsKept, money, clock, tally
    <2>5. CASE NextDay
      BY <2>5 DEF TypeOK, NextDay, RowsKept, money
    <2>6. QED
      BY <1>3, <2>1, <2>2, <2>3, <2>4, <2>5 DEF Beat
  <1>4. CASE UNCHANGED vars
    BY <1>4, RowsKeptByFetch DEF vars, money, clock, tally
  <1>5. QED
    BY <1>1, <1>2, <1>3, <1>4 DEF Next

(* What a stale copy was right about stays right.                          *)
LEMMA CopyStaysGood ==
  ASSUME TypeOK, TypeOK', RowsKept, NEW s, GoodCopy(invoice, lapsed, s)
  PROVE  GoodCopy(invoice', lapsed', s)
  <1>1. IsEnd(invoice', s.periodEnd)
    BY DEF GoodCopy, IsEnd, RowsKept
  <1>2. WasLate(invoice, lapsed) => WasLate(invoice', lapsed')
    BY DEF WasLate, RowsKept, TypeOK
  <1>3. QED
    BY <1>1, <1>2 DEF GoodCopy

-----------------------------------------------------------------------------
(* The invariant.                                                          *)

SubscriptionGood == GoodCopy(invoice, lapsed, sub)

RequestsGood ==
  \A w \in Web :
    /\ request[w].kind # "idle" => GoodCopy(invoice, lapsed, request[w].sub)
    /\ request[w].kind = "pay" =>
         /\ invoice[request[w].invoice].status # "none"
         /\ request[w].before <= paid[request[w].invoice]
         /\ request[w].amount > 0

JobGood ==
  job.kind \in {"convert", "first", "renew", "suspend"} => GoodCopy(invoice, lapsed, job.sub)

ChargesGood == \A c \in Charges : charge[c] # NoInvoice => invoice[charge[c]].status # "none"

(* Every invoice unpaid beyond its days of grace is on record, for which a *)
(* renewal must still lie ahead when it is issued.                         *)
LapsedGood ==
  /\ Unpaid(today) \subseteq lapsed
  /\ job.kind = "renew" => today < job.sub.periodEnd

CopiesGood == SubscriptionGood /\ RequestsGood /\ JobGood /\ ChargesGood /\ LapsedGood

LEMMA CopiesInit == Init => CopiesGood
  BY DEF Init, CopiesGood, SubscriptionGood, RequestsGood, JobGood, ChargesGood, GoodCopy, IsEnd,
         LapsedGood, Unpaid, Blank, StartTrial, Idle, NoInvoice

(* Nothing lapses during a day: a new invoice is not due before today.     *)
LEMMA LapsedByGenerate ==
  ASSUME TypeOK, LapsedGood, NEW s, NEW until, NEW due \in Nat, today <= due,
         GenerateInvoice(s, until, due), UNCHANGED <<today, lapsed>>
  PROVE  Unpaid(today)' \subseteq lapsed'
  <1> SUFFICES ASSUME NEW i \in Invoices, invoice'[i].status \in {"ISSUED", "OVER"},
                      invoice'[i].due + Grace < today
               PROVE  i \in lapsed
    BY DEF Unpaid
  <1>1. CASE invoice'[i] = invoice[i]
    BY <1>1 DEF LapsedGood, Unpaid
  <1>2. CASE invoice'[i] # invoice[i]
    <2>1. invoice'[i].due = due
      BY <1>2 DEF GenerateInvoice, TypeOK
    <2>2. Grace \in Nat /\ today \in Nat
      BY BillingAssumption DEF TypeOK
    <2>3. QED
      BY <2>1, <2>2
  <1>3. QED
    BY <1>1, <1>2

(* Other steps of the day open no invoice.                                 *)
LEMMA LapsedBySettling ==
  ASSUME TypeOK, LapsedGood, UNCHANGED <<today, lapsed>>,
         \A i \in Invoices : invoice'[i].status \in {"ISSUED", "OVER"} =>
           invoice[i].status \in {"ISSUED", "OVER"} /\ invoice'[i].due = invoice[i].due
  PROVE  Unpaid(today)' \subseteq lapsed'
  BY DEF LapsedGood, Unpaid

LEMMA LapsedNext ==
  ASSUME TypeOK, CopiesGood, [Next]_vars
  PROVE  LapsedGood'
  <1>0. LapsedGood
    BY DEF CopiesGood
  <1>1. Unpaid(today)' \subseteq lapsed'
    <2>1. CASE invoice' = invoice /\ today' = today /\ lapsed' = lapsed
      BY <2>1, <1>0, LapsedBySettling
    <2>2. ASSUME NEW w \in Web, WebRequest(w)
          PROVE  Unpaid(today)' \subseteq lapsed'
      <3>1. CASE ChangePlan(w)
        <4>1. \A i \in Invoices : invoice'[i].status \in {"ISSUED", "OVER"} => invoice'[i] = invoice[i]
          BY <3>1 DEF ChangePlan, TypeOK, Invoice
        <4>2. QED
          BY <1>0, <3>1, <4>1, LapsedBySettling DEF ChangePlan, clock
      <3>2. CASE RecordPayment(w)
        <4>1. request[w].invoice \in Invoices
          BY <3>2, RequestFields DEF RecordPayment, TypeOK
        <4>2. \A i \in Invoices : invoice'[i].status \in {"ISSUED", "OVER"} => invoice'[i] = invoice[i]
          BY <3>2, <4>1 DEF RecordPayment, TypeOK, Invoice
        <4>3. QED
          BY <1>0, <3>2, <4>2, LapsedBySettling DEF RecordPayment, clock, tally
      <3>3. QED
        BY <2>1, <2>2, <3>1, <3>2 DEF WebRequest, FetchCancel, Cancel, FetchExtendTrial,
           ExtendTrial, FetchCallback, FetchMarkPaid, Fetched, clock, tally
    <2>3. CASE IssueFirst
      <3>1. today <= today + Terms /\ today + Terms \in Nat
        BY BillingAssumption DEF TypeOK
      <3>2. QED
        BY <1>0, <2>3, <3>1, LapsedByGenerate DEF IssueFirst, tally
    <2>4. CASE IssueRenewal
      <3>1. job.sub.periodEnd \in Nat /\ today \in Nat
        BY <2>4, JobFields DEF IssueRenewal, TypeOK, Subscription
      <3>2. today <= job.sub.periodEnd
        BY <1>0, <2>4, <3>1 DEF IssueRenewal, LapsedGood
      <3>3. QED
        BY <1>0, <2>4, <3>1, <3>2, LapsedByGenerate DEF IssueRenewal, tally
    <2>5. CASE MarkOverdue
      <3>1. \A i \in Invoices : invoice'[i].status \in {"ISSUED", "OVER"} =>
              invoice[i].status \in {"ISSUED", "OVER"} /\ invoice'[i].due = invoice[i].due
        BY <2>5 DEF MarkOverdue, TypeOK, Invoice
      <3>2. QED
        BY <1>0, <2>5, <3>1, LapsedBySettling DEF MarkOverdue, clock, tally
    <2>6. CASE NextDay
      BY <2>6 DEF NextDay, Unpaid
    <2>7. CASE Beat /\ ~IssueFirst /\ ~IssueRenewal /\ ~MarkOverdue /\ ~NextDay
      BY <2>1, <2>7 DEF Beat, ScanTrials, ConvertTrial, ScanRenewals, FlipPastDue,
         ScanDelinquents, Suspend, TaskFails, Scanned, clock, tally
    <2>8. QED
      BY <2>1, <2>2, <2>3, <2>4, <2>5, <2>6, <2>7 DEF Next, PayInvoice, vars, clock, tally
  <1>2. job'.kind = "renew" => today' < job'.sub.periodEnd
    <2>1. CASE UNCHANGED <<job, today>>
      BY <1>0, <2>1 DEF LapsedGood
    <2>2. CASE ScanRenewals
      BY <2>2 DEF ScanRenewals, Scanned, Idle
    <2>3. CASE Beat /\ ~ScanRenewals
      <3>1. job'.kind # "renew"
        BY <2>3 DEF Beat, ScanTrials, ConvertTrial, IssueFirst, IssueRenewal, MarkOverdue,
           FlipPastDue, ScanDelinquents, Suspend, TaskFails, NextDay, Scanned, TaskEnds, Idle
      <3>2. QED
        BY <3>1
    <2>4. CASE ~Beat
      BY <2>1, <2>4 DEF Next, WebRequest, ChangePlan, FetchCancel, Cancel, FetchExtendTrial,
         ExtendTrial, FetchCallback, FetchMarkPaid, RecordPayment, Fetched, PayInvoice, clock, vars
    <2>5. QED
      BY <2>2, <2>3, <2>4
  <1>3. QED
    BY <1>1, <1>2 DEF LapsedGood

LEMMA ChargesNext ==
  ASSUME TypeOK, CopiesGood, RowsKept, [Next]_vars
  PROVE  ChargesGood'
  <1>1. CASE UNCHANGED charge
    BY <1>1 DEF CopiesGood, ChargesGood, RowsKept, TypeOK, NoInvoice
  <1>2. CASE \E c \in Charges : PayInvoice(c)
    BY <1>2 DEF CopiesGood, ChargesGood, PayInvoice, TypeOK
  <1>3. CASE \E w \in Web : WebRequest(w)
    BY <1>3, <1>1 DEF WebRequest, ChangePlan, FetchCancel, Cancel, FetchExtendTrial, ExtendTrial,
                      FetchCallback, FetchMarkPaid, RecordPayment, Fetched, money
  <1>4. CASE Beat
    BY <1>4, <1>1 DEF Beat, ScanTrials, ConvertTrial, IssueFirst, ScanRenewals, IssueRenewal,
                      MarkOverdue, FlipPastDue, ScanDelinquents, Suspend, TaskFails, NextDay,
                      Scanned, money
  <1>5. QED
    BY <1>1, <1>2, <1>3, <1>4 DEF Next, vars, money

(* A task fetches the subscription as it is.                               *)
LEMMA JobNext ==
  ASSUME TypeOK, TypeOK', CopiesGood, RowsKept, [Next]_vars
  PROVE  JobGood'
  <1>1. job' = job \/ job'.kind \in {"idle", "flip"}
          \/ job'.sub = sub \/ (job.kind = "convert" /\ job'.sub = job.sub)
    <2>1. CASE \E w \in Web : WebRequest(w)
      BY <2>1 DEF WebRequest, ChangePlan, FetchCancel, Cancel, FetchExtendTrial, ExtendTrial,
                  FetchCallback, FetchMarkPaid, RecordPayment, Fetched
    <2>2. CASE (\E c \in Charges : PayInvoice(c)) \/ UNCHANGED vars
      BY <2>2 DEF PayInvoice, vars
    <2>3. CASE ScanTrials \/ ScanRenewals \/ ScanDelinquents
      BY <2>3 DEF ScanTrials, ScanRenewals, ScanDelinquents, Scanned, Idle
    <2>4. CASE ConvertTrial
      BY <2>4 DEF ConvertTrial
    <2>5. CASE IssueFirst \/ IssueRenewal \/ FlipPastDue \/ Suspend \/ TaskFails
      BY <2>5 DEF IssueFirst, IssueRenewal, FlipPastDue, Suspend, TaskFails, TaskEnds, Idle
    <2>6. CASE MarkOverdue \/ NextDay
      BY <2>6 DEF MarkOverdue, NextDay
    <2>7. QED
      BY <2>1, <2>2, <2>3, <2>4, <2>5, <2>6 DEF Next, Beat
  <1>2. CASE job'.kind \in {"idle", "flip"}
    BY <1>2 DEF JobGood
  <1>3. CASE job'.kind \in {"convert", "first", "renew", "suspend"}
    <2>1. GoodCopy(invoice, lapsed, job'.sub)
      BY <1>1, <1>3 DEF CopiesGood, SubscriptionGood, JobGood
    <2>2. PICK s : s = job'.sub
      OBVIOUS
    <2>3. GoodCopy(invoice', lapsed', s)
      BY <2>1, <2>2, CopyStaysGood
    <2>4. QED
      BY <2>2, <2>3 DEF JobGood, GoodCopy
  <1>4. QED
    BY <1>2, <1>3 DEF JobGood

LEMMA RequestsKept ==
  ASSUME TypeOK, TypeOK', CopiesGood, RowsKept, NEW w \in Web, request'[w] = request[w]
  PROVE  /\ request'[w].kind # "idle" => GoodCopy(invoice', lapsed', request'[w].sub)
         /\ request'[w].kind = "pay" =>
              /\ invoice'[request'[w].invoice].status # "none"
              /\ request'[w].before <= paid'[request'[w].invoice]
              /\ request'[w].amount > 0
  <1>1. ASSUME request[w].kind # "idle"
        PROVE  GoodCopy(invoice', lapsed', request[w].sub)
    <2>1. PICK s : s = request[w].sub
      OBVIOUS
    <2>2. GoodCopy(invoice, lapsed, s)
      BY <1>1, <2>1 DEF CopiesGood, RequestsGood
    <2>3. GoodCopy(invoice', lapsed', s)
      BY <2>2, CopyStaysGood
    <2>4. QED
      BY <2>1, <2>3
  <1>2. ASSUME request[w].kind = "pay"
        PROVE  /\ invoice'[request[w].invoice].status # "none"
               /\ request[w].before <= paid'[request[w].invoice]
               /\ request[w].amount > 0
    <2>1. PICK q : q = request[w]
      OBVIOUS
    <2>2. q.invoice \in Invoices /\ q.before \in Nat
      BY <1>2, <2>1, RequestFields DEF TypeOK
    <2>3. invoice[q.invoice].status # "none" /\ q.before <= paid[q.invoice] /\ q.amount > 0
      BY <1>2, <2>1 DEF CopiesGood, RequestsGood
    <2>4. invoice'[q.invoice].status # "none" /\ paid[q.invoice] <= paid'[q.invoice]
      BY <2>2, <2>3 DEF RowsKept
    <2>5. paid[q.invoice] \in Nat /\ paid'[q.invoice] \in Nat
      BY <2>2 DEF TypeOK
    <2>6. QED
      BY <2>1, <2>2, <2>3, <2>4, <2>5
  <1>3. QED
    BY <1>1, <1>2

(* A request fetches the subscription as it is, and a payment an invoice   *)
(* that exists and what has been paid for it so far.                       *)
LEMMA RequestsFetched ==
  ASSUME TypeOK, TypeOK', CopiesGood, RowsKept, NEW w \in Web, NEW q \in Request, Fetched(w, q),
         q.sub = sub,
         q.kind = "pay" => /\ invoice[q.invoice].status # "none"
                           /\ q.before = paid[q.invoice]
                           /\ q.amount > 0
  PROVE  RequestsGood'
  <1> SUFFICES ASSUME NEW v \in Web
               PROVE  /\ request'[v].kind # "idle" => GoodCopy(invoice', lapsed', request'[v].sub)
                      /\ request'[v].kind = "pay" =>
                           /\ invoice'[request'[v].invoice].status # "none"
                           /\ request'[v].before <= paid'[request'[v].invoice]
                           /\ request'[v].amount > 0
    BY DEF RequestsGood
  <1>1. CASE v # w
    <2>1. request'[v] = request[v]
      BY <1>1 DEF Fetched, TypeOK
    <2>2. QED
      BY <2>1, RequestsKept
  <1>2. CASE v = w
    <2>1. request'[v] = q
      BY <1>2 DEF Fetched, TypeOK
    <2>2. invoice' = invoice /\ lapsed' = lapsed /\ paid' = paid
      BY DEF Fetched, money, tally
    <2>3. GoodCopy(invoice', lapsed', q.sub)
      BY <2>2 DEF CopiesGood, SubscriptionGood
    <2>4. q.kind = "pay" => paid[q.invoice] \in Nat
      BY RequestFields DEF TypeOK
    <2>5. QED
      BY <2>1, <2>2, <2>3, <2>4
  <1>3. QED
    BY <1>1, <1>2

LEMMA RequestsOtherwise ==
  ASSUME TypeOK, TypeOK', CopiesGood, RowsKept,
         \A w \in Web : request'[w] = request[w] \/ request'[w] = Idle
  PROVE  RequestsGood'
  BY RequestsKept DEF RequestsGood, Idle

LEMMA RequestsNext ==
  ASSUME TypeOK, TypeOK', CopiesGood, RowsKept, [Next]_vars
  PROVE  RequestsGood'
  <1>1. CASE \E w \in Web : WebRequest(w)
    <2> PICK w \in Web : WebRequest(w)
      BY <1>1
    <2>1. CASE FetchCancel(w)
      <3>1. [kind |-> "cancel", sub |-> sub] \in Request
        BY DEF TypeOK, Request
      <3>2. QED
        BY <2>1, <3>1, RequestsFetched DEF FetchCancel
    <2>2. CASE FetchExtendTrial(w)
      <3>1. [kind |-> "extend", sub |-> sub] \in Request
        BY DEF TypeOK, Request
      <3>2. QED
        BY <2>2, <3>1, RequestsFetched DEF FetchExtendTrial
    <2>3. CASE FetchCallback(w)
      <3>1. PICK c \in Charges : charge[c] # NoInvoice /\ Fetched(w, Payment(charge[c], Price, c))
        BY <2>3 DEF FetchCallback
      <3>2. charge[c] \in Invoices /\ Price \in Nat /\ Price > 0
        BY <3>1, BillingAssumption DEF TypeOK
      <3>3. Payment(charge[c], Price, c) \in Request
        BY <3>2, PaymentIsRequest
      <3>4. invoice[charge[c]].status # "none"
        BY <3>1 DEF CopiesGood, ChargesGood
      <3>5. /\ Payment(charge[c], Price, c).sub = sub
            /\ Payment(charge[c], Price, c).invoice = charge[c]
            /\ Payment(charge[c], Price, c).before = paid[charge[c]]
            /\ Payment(charge[c], Price, c).amount = Price
        BY DEF Payment
      <3>6. PICK q : q = Payment(charge[c], Price, c)
        OBVIOUS
      <3>7. QED
        BY <3>1, <3>2, <3>3, <3>4, <3>5, <3>6, RequestsFetched
    <2>4. CASE FetchMarkPaid(w)
      <3>1. PICK i \in Invoices, a \in Amounts :
              invoice[i].status # "none" /\ Fetched(w, Payment(i, a, NoCharge))
        BY <2>4 DEF FetchMarkPaid
      <3>2. a \in Nat /\ a > 0
        BY BillingAssumption
      <3>3. Payment(i, a, NoCharge) \in Request
        BY <3>2, PaymentIsRequest
      <3>4. /\ Payment(i, a, NoCharge).sub = sub
            /\ Payment(i, a, NoCharge).invoice = i
            /\ Payment(i, a, NoCharge).before = paid[i]
            /\ Payment(i, a, NoCharge).amount = a
        BY DEF Payment
      <3>5. PICK q : q = Payment(i, a, NoCharge)
        OBVIOUS
      <3>6. QED
        BY <3>1, <3>2, <3>3, <3>4, <3>5, RequestsFetched
    <2>5. CASE Cancel(w) \/ ExtendTrial(w) \/ RecordPayment(w) \/ ChangePlan(w)
      <3>1. \A v \in Web : request'[v] = request[v] \/ request'[v] = Idle
        BY <2>5 DEF Cancel, ExtendTrial, RecordPayment, ChangePlan, Answered, TypeOK
      <3>2. QED
        BY <3>1, RequestsOtherwise
    <2>6. QED
      BY <2>1, <2>2, <2>3, <2>4, <2>5 DEF WebRequest
  <1>2. CASE (\E c \in Charges : PayInvoice(c)) \/ UNCHANGED vars
    BY <1>2, RequestsOtherwise DEF PayInvoice, vars
  <1>3. CASE Beat
    <2>1. request' = request
      BY <1>3 DEF Beat, ScanTrials, ConvertTrial, IssueFirst, ScanRenewals, IssueRenewal,
                  MarkOverdue, FlipPastDue, ScanDelinquents, Suspend, TaskFails, NextDay, Scanned
    <2>2. QED
      BY <2>1, RequestsOtherwise
  <1>4. QED
    BY <1>1, <1>2, <1>3 DEF Next

(* Whatever is written back to the subscription ends where an invoice      *)
(* ends, and says suspended only if an invoice was late.                   *)
LEMMA SubscriptionNext ==
  ASSUME TypeOK, TypeOK', CopiesGood, RowsKept, [Next]_vars
  PROVE  SubscriptionGood'
  <1> SUFFICES GoodCopy(invoice', lapsed', sub')
    BY DEF SubscriptionGood
  <1>0. ASSUME NEW s, GoodCopy(invoice, lapsed, s),
               sub'.periodEnd = s.periodEnd, sub'.status = "SUSP" => s.status = "SUSP"
        PROVE  GoodCopy(invoice', lapsed', sub')
    BY <1>0, CopyStaysGood DEF GoodCopy
  <1>1. CASE sub' = sub
    <2>1. GoodCopy(invoice, lapsed, sub)
      BY DEF CopiesGood, SubscriptionGood
    <2>2. QED
      BY <1>1, <2>1, CopyStaysGood
  <1>2. CASE \E w \in Web : WebRequest(w)
    <2> PICK w \in Web : WebRequest(w)
      BY <1>2
    <2>1. CASE ChangePlan(w) \/ FetchCancel(w) \/ FetchExtendTrial(w) \/ FetchCallback(w)
               \/ FetchMarkPaid(w)
      BY <2>1, <1>1 DEF ChangePlan, FetchCancel, FetchExtendTrial, FetchCallback, FetchMarkPaid,
                        Fetched
    <2>2. CASE Cancel(w)
      <3>1. PICK s : s = request[w].sub
        OBVIOUS
      <3>2. GoodCopy(invoice, lapsed, s) /\ s \in Subscription
        BY <2>2, <3>1, RequestFields DEF CopiesGood, RequestsGood, Cancel, TypeOK
      <3>3. sub' = [s EXCEPT !.status = "CANC"]
        BY <2>2, <3>1 DEF Cancel
      <3>4. QED
        BY <1>0, <3>2, <3>3 DEF Subscription
    <2>3. CASE ExtendTrial(w)
      <3>1. PICK s : s = sub
        OBVIOUS
      <3>2. GoodCopy(invoice, lapsed, s) /\ s \in Subscription
        BY <3>1 DEF CopiesGood, SubscriptionGood, TypeOK
      <3>3. sub'.periodEnd = s.periodEnd /\ sub'.status = s.status
        BY <2>3, <3>1, <3>2 DEF ExtendTrial, Subscription
      <3>4. QED
        BY <1>0, <3>2, <3>3
    <2>4. CASE RecordPayment(w)
      <3>1. PICK q : q = request[w]
        OBVIOUS
      <3>2. /\ GoodCopy(invoice, lapsed, q.sub) /\ q.sub \in Subscription
            /\ q.invoice \in Invoices /\ invoice[q.invoice].status # "none"
        BY <2>4, <3>1, RequestFields DEF CopiesGood, RequestsGood, RecordPayment, TypeOK
      <3>3. sub' = PaidUp(q.sub, invoice[q.invoice].until)
        BY <2>4, <3>1 DEF RecordPayment
      <3>4. /\ sub'.periodEnd \in {q.sub.periodEnd, invoice[q.invoice].until}
            /\ sub'.status = "SUSP" => q.sub.status = "SUSP"
        BY <3>2, <3>3 DEF PaidUp, Subscription
      <3>5. GoodCopy(invoice', lapsed', q.sub)
        BY <3>2, CopyStaysGood
      <3>6. IsEnd(invoice', invoice[q.invoice].until)
        BY <3>2 DEF IsEnd, RowsKept
      <3>7. QED
        BY <3>4, <3>5, <3>6 DEF GoodCopy
    <2>5. QED
      BY <2>1, <2>2, <2>3, <2>4 DEF WebRequest
  <1>3. CASE (\E c \in Charges : PayInvoice(c)) \/ UNCHANGED vars
    BY <1>3, <1>1 DEF PayInvoice, vars
  <1>4. CASE Beat
    <2>1. CASE ConvertTrial \/ FlipPastDue
      <3>1. PICK s : s = sub
        OBVIOUS
      <3>2. GoodCopy(invoice, lapsed, s) /\ s \in Subscription
        BY <3>1 DEF CopiesGood, SubscriptionGood, TypeOK
      <3>3. sub' = s \/ sub' = [s EXCEPT !.status = "PAST_DUE"]
        BY <2>1, <3>1 DEF ConvertTrial, FlipPastDue
      <3>4. QED
        BY <1>0, <3>2, <3>3 DEF Subscription
    <2>2. CASE Suspend
      <3>1. CASE sub' = sub
        BY <1>1, <3>1
      <3>2. CASE sub' # sub
        <4>1. PICK s : s = job.sub
          OBVIOUS
        <4>2. GoodCopy(invoice, lapsed, s) /\ s \in Subscription
          BY <2>2, <4>1, JobFields DEF CopiesGood, JobGood, Suspend, TypeOK
        <4>3. sub' = [s EXCEPT !.status = "SUSP"] /\ \E i \in Invoices : Delinquent(i)
          BY <2>2, <3>2, <4>1 DEF Suspend
        <4>4. WasLate(invoice, lapsed)
          BY <4>3 DEF WasLate, Delinquent, CopiesGood, LapsedGood, Unpaid
        <4>5. GoodCopy(invoice, lapsed, sub')
          BY <4>2, <4>3, <4>4 DEF GoodCopy, Subscription
        <4>6. QED
          BY <2>2, <4>5 DEF Suspend, tally
      <3>3. QED
        BY <3>1, <3>2
    <2>3. CASE ~(ConvertTrial \/ FlipPastDue \/ Suspend)
      BY <1>4, <2>3, <1>1 DEF Beat, ScanTrials, IssueFirst, ScanRenewals, IssueRenewal,
                              MarkOverdue, ScanDelinquents, TaskFails, NextDay, Scanned
    <2>4. QED
      BY <2>1, <2>2, <2>3
  <1>5. QED
    BY <1>2, <1>3, <1>4 DEF Next

LEMMA CopiesNext ==
  ASSUME TypeOK, TypeOK', CopiesGood, [Next]_vars
  PROVE  CopiesGood'
  BY RowsKeptByNext, ChargesNext, JobNext, RequestsNext, SubscriptionNext, LapsedNext
     DEF CopiesGood

-----------------------------------------------------------------------------
(* What the invoices themselves keep.                                      *)

(* A step issues at most one invoice, from a copy of the subscription the  *)
(* task holds, and only if none is open for that start; otherwise an       *)
(* invoice that is open was open before.                                   *)
Issued(i) ==
  /\ job.kind \in {"first", "renew"}
  /\ \A j \in Invoices : ~(invoice[j].status = "ISSUED" /\ invoice[j].from = job.sub.periodEnd)
  /\ invoice'[i].status = "ISSUED"
  /\ invoice'[i].from = job.sub.periodEnd
  /\ \A j \in Invoices \ {i} : invoice'[j] = invoice[j]

OnlyClosed ==
  \A i \in Invoices :
    /\ invoice[i].status = "none" => invoice'[i].status = "none"
    /\ invoice'[i].status = "ISSUED" => invoice[i].status = "ISSUED"

LEMMA GenerateIssues ==
  ASSUME TypeOK, NEW until, NEW due, job.kind \in {"first", "renew"},
         GenerateInvoice(job.sub, until, due)
  PROVE  OnlyClosed \/ \E i \in Invoices : Issued(i)
  <1>1. CASE UNCHANGED invoice
    BY <1>1 DEF OnlyClosed
  <1>2. CASE ~UNCHANGED invoice
    <2>1. Existing(job.sub.periodEnd) = {}
      BY <1>2 DEF GenerateInvoice
    <2>2. PICK i \in Invoices :
            invoice' = [invoice EXCEPT ![i] =
              [status |-> "ISSUED", from |-> job.sub.periodEnd, until |-> until, due |-> due]]
      BY <1>2 DEF GenerateInvoice
    <2>3. \A j \in Invoices : ~(invoice[j].status = "ISSUED" /\ invoice[j].from = job.sub.periodEnd)
      BY <2>1 DEF Existing
    <2>4. invoice'[i].status = "ISSUED" /\ invoice'[i].from = job.sub.periodEnd
      BY <2>2 DEF TypeOK
    <2>5. \A j \in Invoices \ {i} : invoice'[j] = invoice[j]
      BY <2>2 DEF TypeOK
    <2>6. QED
      BY <2>3, <2>4, <2>5 DEF Issued
  <1>3. QED
    BY <1>1, <1>2

LEMMA InvoicesChange ==
  ASSUME TypeOK, CopiesGood, [Next]_vars
  PROVE  OnlyClosed \/ \E i \in Invoices : Issued(i)
  <1>1. CASE invoice' = invoice
    BY <1>1 DEF OnlyClosed
  <1>2. CASE \E w \in Web : WebRequest(w)
    <2> PICK w \in Web : WebRequest(w)
      BY <1>2
    <2>1. CASE ChangePlan(w)
      BY <2>1 DEF ChangePlan, OnlyClosed, TypeOK, Invoice
    <2>2. CASE RecordPayment(w)
      <3>1. request[w].invoice \in Invoices /\ invoice[request[w].invoice].status # "none"
        BY <2>2, RequestFields DEF RecordPayment, TypeOK, CopiesGood, RequestsGood
      <3>2. \A i \in Invoices : \/ invoice'[i] = invoice[i]
                                \/ /\ invoice'[i].status = "PAID"
                                   /\ invoice[i].status # "none"
        BY <2>2, <3>1 DEF RecordPayment, TypeOK, Invoice
      <3>3. QED
        BY <3>2 DEF OnlyClosed
    <2>3. QED
      BY <1>1, <2>1, <2>2 DEF WebRequest, FetchCancel, Cancel, FetchExtendTrial, ExtendTrial,
                              FetchCallback, FetchMarkPaid, Fetched
  <1>3. CASE (\E c \in Charges : PayInvoice(c)) \/ UNCHANGED vars
    BY <1>1, <1>3 DEF PayInvoice, vars
  <1>4. CASE Beat
    <2>1. CASE IssueFirst \/ IssueRenewal
      BY <2>1, GenerateIssues DEF IssueFirst, IssueRenewal
    <2>2. CASE MarkOverdue
      BY <2>2 DEF MarkOverdue, OnlyClosed, TypeOK, Invoice
    <2>3. QED
      BY <1>1, <1>4, <2>1, <2>2 DEF Beat, ScanTrials, ConvertTrial, ScanRenewals, FlipPastDue,
                                    ScanDelinquents, Suspend, TaskFails, NextDay, Scanned
  <1>5. QED
    BY <1>2, <1>3, <1>4 DEF Next

LEMMA ContiguousNext ==
  ASSUME TypeOK, CopiesGood, RowsKept, BillingIsContiguous, [Next]_vars
  PROVE  BillingIsContiguous'
  <1> SUFFICES ASSUME NEW i \in Invoices, invoice'[i].status # "none"
               PROVE  IsEnd(invoice', invoice'[i].from)
    BY DEF BillingIsContiguous, IsEnd
  <1>0. ASSUME NEW d, IsEnd(invoice, d)
        PROVE  IsEnd(invoice', d)
    BY <1>0 DEF IsEnd, RowsKept
  <1>1. CASE invoice[i].status # "none"
    <2>1. IsEnd(invoice, invoice[i].from)
      BY <1>1 DEF BillingIsContiguous, IsEnd
    <2>2. invoice'[i].from = invoice[i].from
      BY <1>1 DEF RowsKept
    <2>3. QED
      BY <1>0, <2>1, <2>2
  <1>2. CASE invoice[i].status = "none"
    <2>1. PICK j \in Invoices : Issued(j)
      BY <1>2, InvoicesChange DEF OnlyClosed
    <2>2. j = i
      BY <1>2, <2>1 DEF Issued
    <2>3. invoice'[i].from = job.sub.periodEnd /\ IsEnd(invoice, job.sub.periodEnd)
      BY <2>1, <2>2 DEF Issued, CopiesGood, JobGood, GoodCopy
    <2>4. QED
      BY <1>0, <2>3
  <1>3. QED
    BY <1>1, <1>2

LEMMA OneOpenNext ==
  ASSUME TypeOK, CopiesGood, RowsKept, OneOpenInvoice, [Next]_vars
  PROVE  OneOpenInvoice'
  <1>1. CASE OnlyClosed
    BY <1>1 DEF OnlyClosed, OneOpenInvoice, RowsKept
  <1>2. CASE \E i \in Invoices : Issued(i)
    BY <1>2 DEF Issued, OneOpenInvoice
  <1>3. QED
    BY <1>1, <1>2, InvoicesChange

(* A payment that marks its invoice paid adds to at least the sum it saw.  *)
LEMMA PaidInFullNext ==
  ASSUME TypeOK, TypeOK', CopiesGood, RowsKept, PaidInFull, [Next]_vars
  PROVE  PaidInFull'
  <1>1. CASE \E w \in Web : RecordPayment(w)
    <2> PICK w \in Web : RecordPayment(w)
      BY <1>1
    <2>1. PICK q : q = request[w]
      OBVIOUS
    <2>2. /\ q.invoice \in Invoices /\ q.amount \in Nat /\ q.before \in Nat
          /\ q.before <= paid[q.invoice]
      BY <2>1, RequestFields DEF RecordPayment, TypeOK, CopiesGood, RequestsGood
    <2>3. paid'[q.invoice] = paid[q.invoice] + q.amount
      BY <2>1, <2>2 DEF RecordPayment, TypeOK
    <2>4. \A i \in Invoices : invoice'[i].status = "PAID" =>
            \/ invoice[i].status = "PAID"
            \/ i = q.invoice /\ q.before + q.amount >= Price
      BY <2>1, <2>2 DEF RecordPayment, Covered, TypeOK
    <2>5. SUFFICES ASSUME NEW i \in Invoices, invoice'[i].status = "PAID"
                   PROVE  paid'[i] >= Price
      BY DEF PaidInFull
    <2>6. Price \in Nat /\ paid[i] \in Nat /\ paid'[i] \in Nat /\ paid[i] <= paid'[i]
      BY BillingAssumption DEF TypeOK, RowsKept
    <2>7. CASE invoice[i].status = "PAID"
      BY <2>6, <2>7 DEF PaidInFull
    <2>8. CASE i = q.invoice /\ q.before + q.amount >= Price
      BY <2>2, <2>3, <2>6, <2>8
    <2>9. QED
      BY <2>4, <2>5, <2>7, <2>8
  <1>2. CASE ~\E w \in Web : RecordPayment(w)
    <2>1. \A i \in Invoices : invoice'[i].status = "PAID" => invoice[i].status = "PAID"
      <3>1. CASE invoice' = invoice
        BY <3>1
      <3>2. CASE (\E w \in Web : ChangePlan(w)) \/ MarkOverdue
        BY <3>2 DEF ChangePlan, MarkOverdue, TypeOK, Invoice
      <3>3. CASE IssueFirst \/ IssueRenewal
        BY <3>3 DEF IssueFirst, IssueRenewal, GenerateInvoice, TypeOK
      <3>4. QED
        BY <1>2, <3>1, <3>2, <3>3
           DEF Next, WebRequest, Beat, FetchCancel, Cancel, FetchExtendTrial, ExtendTrial,
               FetchCallback, FetchMarkPaid, Fetched, PayInvoice, ScanTrials, ConvertTrial,
               ScanRenewals, FlipPastDue, ScanDelinquents, Suspend, TaskFails, NextDay, Scanned,
               vars
    <2>2. SUFFICES ASSUME NEW i \in Invoices, invoice'[i].status = "PAID"
                   PROVE  paid'[i] >= Price
      BY DEF PaidInFull
    <2>3. Price \in Nat /\ paid[i] \in Nat /\ paid'[i] \in Nat /\ paid[i] <= paid'[i]
      BY BillingAssumption DEF TypeOK, RowsKept
    <2>4. QED
      BY <2>1, <2>2, <2>3 DEF PaidInFull
  <1>3. QED
    BY <1>1, <1>2

LEMMA NoFreeActivationNext ==
  ASSUME TypeOK, TypeOK', CopiesGood, RowsKept, NoFreeActivation, [Next]_vars
  PROVE  NoFreeActivation'
  <1>1. CASE \E w \in Web : RecordPayment(w)
    <2> PICK w \in Web : RecordPayment(w)
      BY <1>1
    <2>1. PICK q : q = request[w]
      OBVIOUS
    <2>2. q.invoice \in Invoices /\ q.amount \in Nat /\ q.amount > 0
      BY <2>1, RequestFields DEF RecordPayment, TypeOK, CopiesGood, RequestsGood
    <2>3. paid'[q.invoice] = paid[q.invoice] + q.amount /\ paid[q.invoice] \in Nat
      BY <2>1, <2>2 DEF RecordPayment, TypeOK
    <2>4. paid'[q.invoice] > 0
      BY <2>2, <2>3
    <2>5. QED
      BY <2>2, <2>4 DEF NoFreeActivation
  <1>2. CASE ~\E w \in Web : RecordPayment(w)
    <2>1. sub'.status = "ACTIVE" => sub.status = "ACTIVE"
      <3>1. CASE sub' = sub
        BY <3>1
      <3>2. CASE \E w \in Web : Cancel(w)
        <4>1. PICK w \in Web : Cancel(w)
          BY <3>2
        <4>2. request[w].sub \in Subscription
          BY <4>1, RequestFields DEF Cancel, TypeOK
        <4>3. QED
          BY <4>1, <4>2 DEF Cancel, Subscription
      <3>3. CASE \E w \in Web : ExtendTrial(w)
        BY <3>3 DEF ExtendTrial, TypeOK, Subscription
      <3>4. CASE ConvertTrial \/ FlipPastDue
        BY <3>4 DEF ConvertTrial, FlipPastDue, TypeOK, Subscription
      <3>5. CASE Suspend
        <4>1. job.sub \in Subscription
          BY <3>5, JobFields DEF Suspend, TypeOK
        <4>2. QED
          BY <3>5, <4>1 DEF Suspend, Subscription
      <3>6. QED
        BY <1>2, <3>1, <3>2, <3>3, <3>4, <3>5
           DEF Next, WebRequest, Beat, ChangePlan, FetchCancel, FetchExtendTrial,
               FetchCallback, FetchMarkPaid, Fetched, PayInvoice, ScanTrials, IssueFirst,
               ScanRenewals, IssueRenewal, MarkOverdue, ScanDelinquents, TaskFails, NextDay,
               Scanned, vars
    <2>2. CASE sub'.status = "ACTIVE"
      <3>1. PICK i \in Invoices : paid[i] > 0
        BY <2>1, <2>2 DEF NoFreeActivation
      <3>2. paid[i] \in Nat /\ paid'[i] \in Nat /\ paid[i] <= paid'[i]
        BY DEF TypeOK, RowsKept
      <3>3. paid'[i] > 0
        BY <3>1, <3>2
      <3>4. QED
        BY <3>3 DEF NoFreeActivation
    <2>3. QED
      BY <2>2 DEF NoFreeActivation
  <1>3. QED
    BY <1>1, <1>2

-----------------------------------------------------------------------------
(* The theorems.                                                           *)

BillInv ==
  /\ TypeOK /\ JobInSlot /\ CopiesGood
  /\ BillingIsContiguous /\ OneOpenInvoice /\ PaidInFull /\ NoFreeActivation

LEMMA BillInit == Init => BillInv
  <1> SUFFICES ASSUME Init PROVE BillInv
    OBVIOUS
  <1>1. TypeOK /\ CopiesGood
    BY TypeInit, CopiesInit
  <1>2. JobInSlot
    BY DEF Init, JobInSlot, Idle
  <1>3. BillingIsContiguous /\ OneOpenInvoice /\ PaidInFull /\ NoFreeActivation
    BY DEF Init, Blank, StartTrial, BillingIsContiguous, OneOpenInvoice, PaidInFull,
           NoFreeActivation
  <1>4. QED
    BY <1>1, <1>2, <1>3 DEF BillInv

LEMMA BillNext == BillInv /\ [Next]_vars => BillInv'
  <1> SUFFICES ASSUME BillInv, [Next]_vars PROVE BillInv'
    OBVIOUS
  <1>1. TypeOK' /\ JobInSlot'
    BY TypeNext, SlotNext DEF BillInv
  <1>2. RowsKept
    BY RowsKeptByNext DEF BillInv
  <1>3. CopiesGood'
    BY <1>1, CopiesNext DEF BillInv
  <1>4. BillingIsContiguous' /\ OneOpenInvoice'
    BY <1>2, ContiguousNext, OneOpenNext DEF BillInv
  <1>5. PaidInFull' /\ NoFreeActivation'
    BY <1>1, <1>2, PaidInFullNext, NoFreeActivationNext DEF BillInv
  <1>6. QED
    BY <1>1, <1>3, <1>4, <1>5 DEF BillInv

LEMMA BillAlways == Spec => []BillInv
  BY BillInit, BillNext, PTL DEF Spec

(* A subscription is suspended only if one of its invoices was still       *)
(* unpaid on a day after its days of grace, although the suspension task   *)
(* saves a copy it scanned earlier and payments save copies that may be    *)
(* suspended.  Every invoice open that long is on record, because none is  *)
(* issued with a due date in the past.                                     *)
THEOREM SuspensionsAreLate == Spec => []SuspensionIsLate
  <1>1. BillInv => SuspensionIsLate
    BY DEF BillInv, CopiesGood, SubscriptionGood, GoodCopy, WasLate, SuspensionIsLate
  <1>2. QED
    BY <1>1, BillAlways, PTL

(* Every invoice starts where the trial was to end or another one ends,    *)
(* whatever stale period a payment, a cancellation or a suspension writes. *)
THEOREM BillingHasNoGaps == Spec => []BillingIsContiguous
  <1>1. BillInv => BillingIsContiguous
    BY DEF BillInv
  <1>2. QED
    BY <1>1, BillAlways, PTL

(* No two open invoices bill the same period.                              *)
THEOREM NoSecondOpenInvoice == Spec => []OneOpenInvoice
  <1>1. BillInv => OneOpenInvoice
    BY DEF BillInv
  <1>2. QED
    BY <1>1, BillAlways, PTL

(* An invoice marked paid is paid in full, and no subscription is active   *)
(* before something was paid, however many payments are recorded at once.  *)
THEOREM NothingIsFree == Spec => [](PaidInFull /\ NoFreeActivation)
  <1>1. BillInv => PaidInFull /\ NoFreeActivation
    BY DEF BillInv
  <1>2. QED
    BY <1>1, BillAlways, PTL

(* Debts are never forgiven: an overdue invoice only becomes paid, and a   *)
(* paid one stays paid.                                                    *)
THEOREM DebtsAreOnlyPaid == Spec => DebtIsOnlyPaid
  <1>1. BillInv /\ [Next]_vars =>
          [\A i \in Invoices :
             /\ invoice[i].status = "OVER" => invoice'[i].status \in {"OVER", "PAID"}
             /\ invoice[i].status = "PAID" => invoice'[i].status = "PAID"]_vars
    BY RowsKeptByNext DEF BillInv, RowsKept
  <1>2. QED
    BY <1>1, BillAlways, PTL DEF Spec, DebtIsOnlyPaid
-----------------------------------------------------------------------------
(* Debtors.                                                                *)

(* Only the task that converts a trial and the one that marks invoices     *)
(* overdue make a subscription past due: no request and no suspension puts *)
(* a stale copy back that is.                                              *)
LEMMA PastDueComes ==
  ASSUME TypeOK, [Next]_vars, sub'.status = "PAST_DUE"
  PROVE  \/ sub.status = "PAST_DUE"
         \/ ConvertTrial
         \/ FlipPastDue /\ \E i \in Invoices : invoice[i].status = "OVER"
  <1>1. CASE sub' = sub
    BY <1>1
  <1>2. ASSUME NEW w \in Web, WebRequest(w), sub' # sub
        PROVE  sub.status = "PAST_DUE"
    <2>1. Cancel(w) \/ ExtendTrial(w) \/ RecordPayment(w)
      BY <1>2 DEF WebRequest, ChangePlan, FetchCancel, FetchExtendTrial, FetchCallback,
                  FetchMarkPaid, Fetched
    <2>2. CASE Cancel(w)
      <3>1. request[w].sub \in Subscription
        BY <2>2, RequestFields DEF Cancel, TypeOK
      <3>2. QED
        BY <2>2, <3>1 DEF Cancel, Subscription
    <2>3. CASE ExtendTrial(w)
      BY <2>3 DEF ExtendTrial, TypeOK, Subscription
    <2>4. CASE RecordPayment(w)
      <3>1. PICK q : q = request[w]
        OBVIOUS
      <3>2. q.sub \in Subscription
        BY <2>4, <3>1, RequestFields DEF RecordPayment, TypeOK
      <3>3. sub' = PaidUp(q.sub, invoice[q.invoice].until)
        BY <2>4, <3>1 DEF RecordPayment
      <3>4. sub'.status # "PAST_DUE"
        BY <3>2, <3>3 DEF PaidUp, Subscription
      <3>5. QED
        BY <3>4
    <2>5. QED
      BY <2>1, <2>2, <2>3, <2>4
  <1>3. CASE Suspend /\ sub' # sub
    <2>1. job.sub \in Subscription
      BY <1>3, JobFields DEF Suspend, TypeOK
    <2>2. QED
      BY <1>3, <2>1 DEF Suspend, Subscription
  <1>4. CASE FlipPastDue /\ sub' # sub
    BY <1>4 DEF FlipPastDue
  <1>5. CASE sub' # sub /\ Beat /\ ~Suspend /\ ~FlipPastDue /\ ~ConvertTrial
    BY <1>5 DEF Beat, ScanTrials, IssueFirst, ScanRenewals, IssueRenewal, MarkOverdue,
                ScanDelinquents, TaskFails, NextDay, Scanned
  <1>6. QED
    BY <1>1, <1>2, <1>3, <1>4, <1>5 DEF Next, PayInvoice, vars

(* An invoice becomes overdue only in the third task of the day.           *)
LEMMA OverdueComes ==
  ASSUME TypeOK, JobInSlot, CopiesGood, [Next]_vars, NEW i \in Invoices,
         invoice'[i].status = "OVER", slot # 3
  PROVE  invoice[i].status = "OVER" /\ invoice'[i].due = invoice[i].due
  <1>1. RowsKept
    BY RowsKeptByNext
  <1>2. SUFFICES invoice[i].status = "OVER"
    BY <1>1 DEF RowsKept
  <1>3. CASE invoice' = invoice
    BY <1>3
  <1>4. ASSUME NEW w \in Web, WebRequest(w)
        PROVE  invoice[i].status = "OVER"
    <2>1. CASE ChangePlan(w)
      BY <2>1 DEF ChangePlan, TypeOK, Invoice
    <2>2. CASE RecordPayment(w)
      <3>1. request[w].invoice \in Invoices
        BY <2>2, RequestFields DEF RecordPayment, TypeOK
      <3>2. QED
        BY <2>2, <3>1 DEF RecordPayment, TypeOK, Invoice
    <2>3. QED
      BY <1>3, <1>4, <2>1, <2>2 DEF WebRequest, FetchCancel, Cancel, FetchExtendTrial,
         ExtendTrial, FetchCallback, FetchMarkPaid, Fetched
  <1>5. CASE IssueFirst \/ IssueRenewal
    BY <1>5 DEF IssueFirst, IssueRenewal, GenerateInvoice, TypeOK
  <1>6. CASE Beat /\ ~IssueFirst /\ ~IssueRenewal
    <2>1. ~MarkOverdue
      BY DEF MarkOverdue
    <2>2. QED
      BY <1>3, <1>6, <2>1 DEF Beat, ScanTrials, ConvertTrial, ScanRenewals, FlipPastDue,
         ScanDelinquents, Suspend, TaskFails, NextDay, Scanned
  <1>7. QED
    BY <1>3, <1>4, <1>5, <1>6 DEF Next, PayInvoice, vars

(* Requests leave the tasks alone.                                         *)
LEMMA OnlyBeatRuns ==
  ASSUME [Next]_vars, ~Beat
  PROVE  UNCHANGED <<job, slot, today, faults>>
  <1>1. ASSUME NEW w \in Web, WebRequest(w)
        PROVE  UNCHANGED <<job, slot, today, faults>>
    BY <1>1 DEF WebRequest, ChangePlan, FetchCancel, Cancel, FetchExtendTrial, ExtendTrial,
                FetchCallback, FetchMarkPaid, RecordPayment, Fetched, clock, tally
  <1>2. ASSUME NEW c \in Charges, PayInvoice(c)
        PROVE  UNCHANGED <<job, slot, today, faults>>
    BY <1>2 DEF PayInvoice, clock, tally
  <1>3. CASE UNCHANGED vars
    BY <1>3 DEF vars, clock, tally
  <1>4. QED
    BY <1>1, <1>2, <1>3 DEF Next

(* Issuing finds an open invoice or makes one.                             *)
LEMMA FirstInvoiceComes ==
  ASSUME TypeOK, IssueFirst
  PROVE  \E i \in Invoices : invoice'[i].status # "none"
  <1>1. CASE Existing(job.sub.periodEnd) # {} /\ UNCHANGED invoice
    <2>1. PICK i \in Existing(job.sub.periodEnd) : TRUE
      BY <1>1
    <2>2. i \in Invoices /\ invoice[i].status = "ISSUED"
      BY <2>1 DEF Existing
    <2>3. QED
      BY <1>1, <2>2
  <1>2. CASE Existing(job.sub.periodEnd) = {}
    <2>1. PICK i \in Invoices : invoice' = [invoice EXCEPT ![i] =
             [status |-> "ISSUED", from |-> job.sub.periodEnd,
              until |-> job.sub.periodEnd + Interval, due |-> today + Terms]]
      BY <1>2 DEF IssueFirst, GenerateInvoice
    <2>2. invoice'[i].status = "ISSUED"
      BY <2>1 DEF TypeOK
    <2>3. QED
      BY <2>2
  <1>3. QED
    BY <1>1, <1>2 DEF IssueFirst, GenerateInvoice

LEMMA InvoicedNext ==
  ASSUME TypeOK, DebtorsArePursued, [Next]_vars,
         faults' = 0, sub'.status = "PAST_DUE", job'.kind # "first"
  PROVE  \E i \in Invoices : invoice'[i].status # "none"
  <1>0. RowsKept
    BY RowsKeptByNext
  <1>1. ASSUME NEW i \in Invoices, invoice[i].status # "none"
        PROVE  \E j \in Invoices : invoice'[j].status # "none"
    BY <1>0, <1>1 DEF RowsKept
  <1>2. ~ConvertTrial
    BY DEF ConvertTrial
  <1>3. CASE FlipPastDue /\ \E i \in Invoices : invoice[i].status = "OVER"
    BY <1>1, <1>3
  <1>4. CASE sub.status = "PAST_DUE" /\ job.kind # "first"
    <2>1. faults = 0
      <3>1. faults' = faults \/ faults' = faults + 1
        BY DEF Next, WebRequest, Beat, ChangePlan, FetchCancel, Cancel, FetchExtendTrial, ExtendTrial,
               FetchCallback, FetchMarkPaid, RecordPayment, Fetched, PayInvoice, ScanTrials,
               ConvertTrial, IssueFirst, ScanRenewals, IssueRenewal, MarkOverdue, FlipPastDue,
               ScanDelinquents, Suspend, TaskFails, NextDay, Scanned, tally, vars
      <3>2. QED
        BY <3>1 DEF TypeOK
    <2>2. QED
      BY <1>1, <1>4, <2>1 DEF DebtorsArePursued
  <1>5. CASE job.kind = "first"
    <2>1. IssueFirst \/ TaskFails
      <3>1. Beat
        BY <1>5, OnlyBeatRuns
      <3>2. job # Idle
        BY <1>5 DEF Idle
      <3>3. QED
        BY <1>5, <3>1, <3>2
        DEF Beat, ScanTrials, ConvertTrial, ScanRenewals, IssueRenewal, MarkOverdue,
            FlipPastDue, ScanDelinquents, Suspend, NextDay, Scanned
    <2>2. ~TaskFails
      BY DEF TaskFails, TypeOK
    <2>3. QED
      BY <2>1, <2>2, FirstInvoiceComes
  <1>6. QED
    BY <1>2, <1>3, <1>4, <1>5, PastDueComes

LEMMA ChasedNext ==
  ASSUME TypeOK, JobInSlot, CopiesGood, DebtorsArePursued, [Next]_vars,
         faults' = 0, sub'.status = "PAST_DUE", slot' = Done,
         NEW i \in Invoices, invoice'[i].status = "OVER"
  PROVE  invoice'[i].due + Grace >= today'
  <1>1. CASE slot = Done
    <2>1. sub.status = "PAST_DUE"
      BY <1>1, PastDueComes DEF ConvertTrial, FlipPastDue, JobInSlot, Done
    <2>2. invoice[i].status = "OVER" /\ invoice'[i].due = invoice[i].due
      BY <1>1, OverdueComes DEF Done
    <2>3. today' = today /\ faults' = faults
      <3>1. CASE ~Beat
        BY <3>1, OnlyBeatRuns
      <3>2. CASE Beat
        <4>1. NextDay => slot' = 1
          BY DEF NextDay
        <4>2. ~NextDay
          BY <4>1 DEF Done
        <4>3. ~TaskFails
          BY DEF TaskFails, TypeOK
        <4>4. QED
          BY <3>2, <4>2, <4>3
          DEF Beat, ScanTrials, ConvertTrial, IssueFirst, ScanRenewals, IssueRenewal, MarkOverdue,
              FlipPastDue, ScanDelinquents, Suspend, Scanned, clock, tally
      <3>3. QED
        BY <3>1, <3>2
    <2>4. QED
      BY <1>1, <2>1, <2>2, <2>3 DEF DebtorsArePursued
  <1>2. CASE slot # Done
    <2>1. ScanDelinquents \/ Suspend \/ TaskFails
      <3>1. Beat
        BY <1>2, OnlyBeatRuns
      <3>2. slot \in 1 .. 5 /\ slot' = 5
        BY DEF TypeOK, Done
      <3>3. ~NextDay /\ ~ConvertTrial /\ ~MarkOverdue
        BY <1>2, <3>2 DEF NextDay, ConvertTrial, MarkOverdue, clock
      <3>4. ~ScanTrials /\ ~ScanRenewals
        BY <3>2 DEF ScanTrials, ScanRenewals, Scanned
      <3>5. ~IssueFirst /\ ~IssueRenewal /\ ~FlipPastDue
        BY <3>2 DEF IssueFirst, IssueRenewal, FlipPastDue, TaskEnds, JobInSlot
      <3>6. QED
        BY <3>1, <3>3, <3>4, <3>5 DEF Beat
    <2>2. CASE ScanDelinquents
      BY <1>2, <2>2 DEF ScanDelinquents, Scanned
    <2>3. CASE Suspend
      <3>1. job.sub \in Subscription
        BY <2>3, JobFields DEF Suspend, TypeOK
      <3>2. \A j \in Invoices : ~Delinquent(j)
        BY <2>3, <3>1 DEF Suspend, Subscription
      <3>3. invoice' = invoice /\ today' = today
        BY <2>3 DEF Suspend
      <3>4. invoice[i].due \in Nat /\ today \in Nat /\ Grace \in Nat
        BY BillingAssumption DEF TypeOK, Invoice
      <3>5. QED
        BY <3>2, <3>3, <3>4 DEF Delinquent
    <2>4. CASE TaskFails
      BY <2>4 DEF TaskFails, TypeOK
    <2>5. QED
      BY <2>1, <2>2, <2>3, <2>4
  <1>3. QED
    BY <1>1, <1>2

(* While no task has failed, a past-due subscription has been invoiced and *)
(* is suspended by the end of the day on which an invoice is beyond its    *)
(* days of grace, whatever stale copies are saved while the tasks run.     *)
THEOREM DebtorsDoNotEscape == Spec => []DebtorsArePursued
  <1>1. Init => DebtorsArePursued
    BY DEF Init, StartTrial, DebtorsArePursued
  <1>2. BillInv /\ DebtorsArePursued /\ [Next]_vars => DebtorsArePursued'
    BY InvoicedNext, ChasedNext DEF BillInv, DebtorsArePursued
  <1>3. QED
    BY <1>1, <1>2, BillAlways, PTL DEF Spec
=============================================================================
