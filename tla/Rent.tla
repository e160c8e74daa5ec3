---------------------------------- MODULE Rent ----------------------------------
(***************************************************************************)
(* The rent invoices of one lease, its lines and its payments.             *)
(*                                                                         *)
(* The ledger holds what was ever inserted: charge lines, late-fee lines   *)
(* and payments.  The invoice row repeats their sums, and                  *)
(* recalculate_totals brings it up to date: it is called on a row fetched  *)
(* earlier, reads the sums, and saves every column.  The views insert in   *)
(* one statement and recalculate in later ones, with no transaction, so a  *)
(* request goes through the stages Fetch, Post, Sum and Save.  A late fee  *)
(* is applied in a transaction, whose line is visible once it is saved.    *)
(***************************************************************************)
EXTENDS Naturals, FiniteSets

CONSTANTS Workers,      \* server processes: web requests and Celery tasks
          Invoices,     \* the rows that may exist (bound)
          Busy,         \* bound: the one invoice money moves on
          Amounts,      \* the amounts paid and charged
          RentAmount,   \* Lease.rent_amount
          Fee,          \* Lease.late_fee_fixed
          Due,          \* day each invoice is due
          Grace,        \* Lease.grace_period_days
          Scopes,       \* bound: what one behaviour is about, the most
                        \* invoices, and the most paid and charged by hand
          MaxCrashes,   \* bound: how often a server process dies
          LastDay       \* bound: today stays within 1 .. LastDay

ASSUME RentAssumption ==
  /\ Busy \subseteq Invoices /\ Cardinality(Busy) = 1
  /\ Amounts \subseteq Nat \ {0}
  /\ {RentAmount, Fee, LastDay} \subseteq Nat \ {0}
  /\ {Due, Grace, MaxCrashes} \subseteq Nat
  /\ Scopes \subseteq [invoices : Nat, received : Nat, charged : Nat]

VARIABLES request,      \* worker -> what it has fetched
          row,          \* invoice -> the columns of RentInvoice
          charged,      \* invoice -> sum of its lines, late fees left out
          late,         \* invoice -> number of lines of type LATE
          received,     \* invoice -> sum of its payments
          today,
          beat,         \* the daily tasks that are still to run
          crashes,
          scope,        \* the bound this behaviour keeps to
          disturbed,    \* history: invoices two requests, or a crash, met on
          voided        \* history: invoices that were ever void

bounds == <<crashes, scope>>
past == <<disturbed, voided>>
ledger == <<charged, late, received>>
clock == <<today, beat>>
vars == <<request, row, ledger, clock, bounds, past>>

Status == {"none", "ISSUED", "PART", "PAID", "OVER", "VOID"}
Row == [status : Status, subtotal : Nat, lateFee : {0, Fee}, total : Nat, paid : Nat]
NoRow == [status |-> "none", subtotal |-> 0, lateFee |-> 0, total |-> 0, paid |-> 0]

Idle == [kind |-> "idle"]

(* stage: what the request does next.                                      *)
Request ==
  {Idle}
  \cup [kind : {"generate"}]
  \cup [kind : {"pay", "line"}, inv : Invoices, stage : {"post", "fetch", "sum", "save"},
        row : Row, amount : Amounts, late : BOOLEAN]
  \cup [kind : {"fee"}, inv : Invoices, stage : {"sum", "save"}, row : Row]

Init ==
  /\ request = [w \in Workers |-> Idle]
  /\ row = [i \in Invoices |-> NoRow]
  /\ charged = [i \in Invoices |-> 0]
  /\ late = [i \in Invoices |-> 0]
  /\ received = [i \in Invoices |-> 0]
  /\ today = 1
  /\ beat = {}
  /\ crashes = 0
  /\ scope \in Scopes
  /\ disturbed = {}
  /\ voided = {}

Exists(i) == row[i].status # "none"
Lines(i) == charged[i] + Fee * late[i]

(* recalculate_totals on the row r, with the sums read now.                *)
Recalculated(r, subtotal, paid) ==
  LET total == subtotal + r.lateFee IN
  [r EXCEPT !.subtotal = subtotal, !.total = total, !.paid = paid,
            !.status = IF paid >= total THEN "PAID"
                       ELSE IF paid > 0 THEN "PART"
                       ELSE IF Due < today THEN "OVER"
                       ELSE r.status]

On(i) == {w \in Workers : request[w].kind \in {"pay", "line", "fee"} /\ request[w].inv = i}

(* History: a request that starts on an invoice another one is at work on. *)
Meets(i) ==
  /\ disturbed' = IF On(i) = {} THEN disturbed ELSE disturbed \cup {i}
  /\ UNCHANGED voided

Starts(w, i, q) ==
  /\ request[w] = Idle
  /\ request' = [request EXCEPT ![w] = q]
  /\ Meets(i)
  /\ UNCHANGED <<row, ledger, today, bounds>>

Continues(w, q) == request' = [request EXCEPT ![w] = q]

-----------------------------------------------------------------------------
(* Generating.                                                             *)

FetchGenerateAny(w) ==
  /\ request[w] = Idle
  /\ Continues(w, [kind |-> "generate"])
  /\ UNCHANGED <<row, ledger, clock, bounds, past>>

(* On the form, and for each active lease by the task of the first: refused*)
(* when the period has an invoice that is not void.                        *)
FetchGenerate(w) ==
  /\ request[w] = Idle
  /\ \A i \in Invoices : row[i].status \in {"none", "VOID"}
  /\ Continues(w, [kind |-> "generate"])
  /\ UNCHANGED <<row, ledger, clock, bounds, past>>

(* One transaction: the row, its rent line, the totals, then ISSUED. No    *)
(* constraint stops a second invoice of the same period.                   *)
Generate(w) ==
  /\ request[w].kind = "generate"
  /\ \E i \in Invoices :
       /\ ~Exists(i)
       /\ Cardinality({j \in Invoices : Exists(j)}) < scope.invoices
       /\ row' = [row EXCEPT ![i] =
            [Recalculated(NoRow, RentAmount, 0) EXCEPT !.status = "ISSUED"]]
       /\ charged' = [charged EXCEPT ![i] = RentAmount]
       /\ disturbed' = IF \E v \in Workers \ {w} : request[v].kind = "generate"
                         THEN disturbed \cup Invoices ELSE disturbed
  /\ Continues(w, Idle)
  /\ UNCHANGED <<late, received, clock, bounds, voided>>

-----------------------------------------------------------------------------
(* Payments and charges.                                                   *)

(* The payment form: the invoice is fetched first, in whatever status.     *)
FetchPayment(w) ==
  \E i \in Busy, a \in Amounts :
    /\ Exists(i)
    /\ received[i] + a <= scope.received
    /\ Starts(w, i, [kind |-> "pay", inv |-> i, stage |-> "post", row |-> row[i],
                     amount |-> a, late |-> FALSE])
    /\ UNCHANGED beat

(* The line form: the line is inserted first.  Its type may be a late fee. *)
FetchLine(w) ==
  \E i \in Busy, a \in Amounts, l \in BOOLEAN :
    /\ Exists(i)
    /\ charged[i] + late[i] < RentAmount + scope.charged
    /\ Starts(w, i, [kind |-> "line", inv |-> i, stage |-> "post", row |-> NoRow,
                     amount |-> a, late |-> l])
    /\ UNCHANGED beat

PostPayment(w) ==
  LET q == request[w] IN
  /\ q.kind = "pay" /\ q.stage = "post"
  /\ received' = [received EXCEPT ![q.inv] = @ + q.amount]
  /\ Continues(w, [q EXCEPT !.stage = "sum"])
  /\ UNCHANGED <<row, charged, late, clock, bounds, past>>

PostLine(w) ==
  LET q == request[w] IN
  /\ q.kind = "line" /\ q.stage = "post"
  /\ IF q.late THEN late' = [late EXCEPT ![q.inv] = @ + 1] /\ UNCHANGED charged
               ELSE charged' = [charged EXCEPT ![q.inv] = @ + q.amount] /\ UNCHANGED late
  /\ Continues(w, [q EXCEPT !.stage = "fetch"])
  /\ UNCHANGED <<row, received, clock, bounds, past>>

FetchAgain(w) ==
  LET q == request[w] IN
  /\ q.kind = "line" /\ q.stage = "fetch"
  /\ Continues(w, [q EXCEPT !.stage = "sum", !.row = row[q.inv]])
  /\ UNCHANGED <<row, ledger, clock, bounds, past>>

SumUp(w) ==
  LET q == request[w] IN
  /\ q.kind \in {"pay", "line"} /\ q.stage = "sum"
  /\ Continues(w, [q EXCEPT !.stage = "save",
                            !.row = Recalculated(q.row, Lines(q.inv), received[q.inv])])
  /\ UNCHANGED <<row, ledger, clock, bounds, past>>

SaveTotals(w) ==
  LET q == request[w] IN
  /\ q.kind \in {"pay", "line"} /\ q.stage = "save"
  /\ row' = [row EXCEPT ![q.inv] = [q.row EXCEPT !.status = row[q.inv].status]]
  /\ Continues(w, Idle)
  /\ UNCHANGED <<ledger, clock, bounds, past>>

Save(w) ==
  LET q == request[w] IN
  /\ q.kind \in {"pay", "line"} /\ q.stage = "save"
  /\ row' = [row EXCEPT ![q.inv] = q.row]
  /\ Continues(w, Idle)
  /\ UNCHANGED <<ledger, clock, bounds, past>>

(* The process dies: what was inserted stays, the row is not brought up to  *)
(* date, and a late fee is rolled back.                                     *)
Dies(w) ==
  LET q == request[w] IN
  /\ q # Idle
  /\ crashes < MaxCrashes
  /\ crashes' = crashes + 1
  /\ disturbed' = IF q.kind \in {"pay", "line"} THEN disturbed \cup {q.inv} ELSE disturbed
  /\ Continues(w, Idle)
  /\ UNCHANGED <<row, ledger, clock, scope, voided>>

(* An administrator's action on the list.                                  *)
Recalculate ==
  \E i \in Busy :
    /\ Exists(i)
    /\ row' = [row EXCEPT ![i] = Recalculated(@, Lines(i), received[i])]
    /\ Meets(i)
    /\ UNCHANGED <<request, ledger, clock, bounds>>

(* Voiding is an edit in the admin.                                        *)
Void ==
  \E i \in Invoices :
    /\ row[i].status \in {"ISSUED", "OVER"}
    /\ row' = [row EXCEPT ![i].status = "VOID"]
    /\ disturbed' = IF On(i) = {} THEN disturbed ELSE disturbed \cup {i}
    /\ voided' = voided \cup {i}
    /\ UNCHANGED <<request, ledger, clock, bounds>>

-----------------------------------------------------------------------------
(* Late fees.                                                              *)

(* The button takes an invoice in any status but these.                    *)
FetchFee(w) ==
  \E i \in Busy :
    /\ row[i].status \notin {"none", "PAID", "VOID"}
    /\ today > Due + Grace
    /\ Starts(w, i, [kind |-> "fee", inv |-> i, stage |-> "sum", row |-> row[i]])
    /\ UNCHANGED beat

(* The task takes the issued and partly paid ones that are past due.       *)
TaskFees(w) ==
  /\ "fees" \in beat
  /\ beat' = beat \ {"fees"}
  /\ LET picked == {i \in Busy : /\ row[i].status \in {"ISSUED", "PART"}
                                /\ today > Due /\ today > Due + Grace} IN
     \/ /\ picked = {}
        /\ UNCHANGED <<request, row, ledger, today, bounds, past>>
     \/ \E i \in picked :
          Starts(w, i, [kind |-> "fee", inv |-> i, stage |-> "sum", row |-> row[i]])

TaskFlagByName ==
  /\ "flag" \in beat /\ "fees" \notin beat
  /\ beat' = beat \ {"flag"}
  /\ row' = [i \in Invoices |->
               IF row[i].status \in {"ISSUED", "PART"} /\ Due < today
                 THEN [row[i] EXCEPT !.status = "OVERDUE"] ELSE row[i]]
  /\ UNCHANGED <<request, ledger, today, bounds, past>>

(* One UPDATE statement, half an hour later.                               *)
TaskFlag ==
  /\ "flag" \in beat /\ "fees" \notin beat
  /\ beat' = beat \ {"flag"}
  /\ row' = [i \in Invoices |->
               IF row[i].status \in {"ISSUED", "PART"} /\ Due < today
                 THEN [row[i] EXCEPT !.status = "OVER"] ELSE row[i]]
  /\ disturbed' = disturbed \cup {i \in Invoices : row'[i] # row[i] /\ On(i) # {}}
  /\ UNCHANGED <<request, ledger, today, bounds, voided>>

(* A day passes, whether or not its tasks were run; the last day repeats.   *)
NextDay ==
  /\ today' = IF today < LastDay THEN today + 1 ELSE today
  /\ beat' = {"fees", "flag"}
  /\ UNCHANGED <<request, row, ledger, bounds, past>>

SumFeeOnly(w) ==
  LET q == request[w] IN
  /\ q.kind = "fee" /\ q.stage = "sum"
  /\ Continues(w, IF late[q.inv] > 0 THEN Idle
                  ELSE [q EXCEPT !.stage = "save", !.row.lateFee = Fee,
                                 !.row.total = @ + Fee])
  /\ UNCHANGED <<row, ledger, clock, bounds, past>>

(* A late line that is already there, of whatever origin, stops it.  The   *)
(* fee becomes a line, so part of the subtotal, and late_fee besides.      *)
SumFee(w) ==
  LET q == request[w] IN
  /\ q.kind = "fee" /\ q.stage = "sum"
  /\ Continues(w, IF late[q.inv] > 0 THEN Idle
                  ELSE [q EXCEPT !.stage = "save",
                                 !.row = Recalculated([q.row EXCEPT !.lateFee = Fee],
                                                      Lines(q.inv) + Fee, received[q.inv])])
  /\ UNCHANGED <<row, ledger, clock, bounds, past>>

SaveFee(w) ==
  LET q == request[w] IN
  /\ q.kind = "fee" /\ q.stage = "save"
  /\ late' = [late EXCEPT ![q.inv] = @ + 1]
  /\ row' = [row EXCEPT ![q.inv] = q.row]
  /\ Continues(w, Idle)
  /\ UNCHANGED <<charged, received, clock, bounds, past>>

-----------------------------------------------------------------------------
Next ==
  \/ \E w \in Workers :
       \/ FetchGenerate(w) \/ Generate(w)
       \/ FetchPayment(w) \/ PostPayment(w)
       \/ FetchLine(w) \/ PostLine(w) \/ FetchAgain(w)
       \/ SumUp(w) \/ Save(w) \/ Dies(w)
       \/ FetchFee(w) \/ TaskFees(w) \/ SumFee(w) \/ SaveFee(w)
  \/ Recalculate \/ Void \/ TaskFlag \/ NextDay

Spec == Init /\ [][Next]_vars

(* Celery beat sends both tasks every day, in this order.                  *)
DailySpec ==
  /\ Spec
  /\ WF_vars(\E w \in Workers : TaskFees(w))
  /\ WF_vars(TaskFlag)
  /\ WF_vars(NextDay)
  /\ \A w \in Workers : WF_vars(SumFee(w) \/ SaveFee(w))

-----------------------------------------------------------------------------
TypeOK ==
  /\ request \in [Workers -> Request]
  /\ row \in [Invoices -> Row]
  /\ charged \in [Invoices -> Nat] /\ late \in [Invoices -> Nat]
  /\ received \in [Invoices -> Nat]
  /\ today \in 1 .. LastDay
  /\ beat \subseteq {"fees", "flag"}
  /\ crashes \in 0 .. MaxCrashes
  /\ scope \in Scopes
  /\ disturbed \subseteq Invoices /\ voided \subseteq Invoices

(* An invoice that nobody is working on, that no two requests ever worked  *)
(* on at once and whose requests were never cut short, repeats the ledger: *)
(* no payment and no line is missing from its totals, in whatever order    *)
(* payments, charges, late fees and daily tasks came.                      *)
RowFollowsLedger ==
  \A i \in Invoices : Exists(i) /\ i \notin disturbed /\ On(i) = {} =>
    /\ row[i].subtotal = Lines(i)
    /\ row[i].paid = received[i]

(* Under every interleaving and crash an invoice shown as paid is one whose *)
(* own totals are covered, although each save may write back an old copy.   *)
PaidIsCovered ==
  \A i \in Invoices : row[i].status = "PAID" => row[i].paid >= row[i].total

(* generate_invoice_for_lease: "Skip if a non-void invoice already exists  *)
(* for this period".  Two such invoices were generated at the same time, or *)
(* one of them was void once: a payment or a recalculation reopens it.      *)
OneInvoicePerPeriod ==
  \A i, j \in Invoices :
    /\ i # j /\ Exists(i) /\ Exists(j)
    /\ row[i].status # "VOID" /\ row[j].status # "VOID"
    => {i, j} \cap (disturbed \cup voided) # {}

(* apply_overdue_late_fees: "Runs daily. Applies late fees to overdue      *)
(* invoices past their grace period."  An invoice issued in time, and left *)
(* unpaid until its grace is over, gets its late fee.                      *)
LateFeeComes ==
  \A i \in Busy :
    (Exists(i) /\ today <= Due)
      ~> (late[i] > 0 \/ row[i].status \in {"PAID", "VOID"})
=============================================================================
