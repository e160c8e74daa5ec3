------------------------------ MODULE Billing ------------------------------
(***************************************************************************)
(* One tenant's platform subscription: its trial, the invoices the nightly *)
(* tasks issue and chase, the payments that arrive by web and by gateway   *)
(* callback, plan changes, cancellation and suspension.                    *)
(*                                                                         *)
(* Web requests and the celery tasks work on the same rows without locks.  *)
(* An operation that loads the subscription and later saves the whole row  *)
(* has two steps: Fetch<Op> keeps what it read in request[w] (or in job),  *)
(* and <Op> writes it back.  All reads of a payment are made in its fetch. *)
(*                                                                         *)
(* Time is in days.  The nightly tasks run in their crontab order, so slot *)
(* is the next of them; a trial ends during a working day, after them.     *)
(***************************************************************************)
EXTENDS Integers

CONSTANTS Web,           \* web workers, each with one request at a time
          Charges,       \* gateway charges (external), by charge id
          MaxInvoices,   \* bound: invoices of the subscription
          Price,         \* what an invoice amounts to
          Amounts,       \* what an administrator may record as paid at once
          MaxPaid,       \* bound: no payment is started beyond this total
          TrialDays,     \* length of the trial
          Interval,      \* a plan's interval: a month or a year
          Renewal,       \* the period of a renewal invoice: 30 days
          Notice,        \* how long before the period's end it is issued
          Terms,         \* days to pay a trial's first invoice
          Grace,         \* days an overdue invoice may stay unpaid
          LastDay,       \* bound: the date does not move beyond it
          MaxChanges,    \* bound: plan changes
          MaxExtensions, \* bound: a trial is extended (each time by a day)
          MaxFaults      \* bound: tasks that are missed or fail to issue

Invoices == 1 .. MaxInvoices
NoInvoice == 0
NoCharge == "no charge"

ASSUME BillingAssumption ==
  /\ Price \in Nat \ {0}
  /\ Amounts \subseteq Nat \ {0} /\ NoCharge \notin Charges
  /\ {MaxInvoices, MaxPaid, LastDay, MaxChanges, MaxExtensions, MaxFaults} \subseteq Nat
  /\ {TrialDays, Interval, Renewal, Notice, Terms, Grace} \subseteq Nat

VARIABLES sub,            \* the Subscription row
          tenantActive,   \* Tenant.is_active
          invoice,        \* SubscriptionInvoice rows
          paid,           \* invoice -> sum of its SubscriptionPayment rows
          charge,         \* gateway charge -> the invoice it was paid for
          recorded,       \* gateway charge -> SubscriptionPayment rows for it
          request,        \* worker -> the request it has fetched data for
          job,            \* the celery task in progress and what it fetched
          slot,           \* the next task of the day, 5 when all have run
          today,
          changes, extensions, faults,  \* counters for the bounds
          lapsed          \* history: invoices found unpaid when their grace was over

clock == <<today, slot>>
money == <<paid, charge, recorded>>
tally == <<changes, extensions, faults, lapsed>>
vars  == <<sub, tenantActive, invoice, money, request, job, clock, tally>>

SubStatus == {"TRIAL", "ACTIVE", "PAST_DUE", "SUSP", "CANC"}

Subscription == [status : SubStatus, trialEnd : Nat, periodEnd : Nat]

(* "none" marks a row that does not exist.  No code path leaves a DRAFT.   *)
InvoiceStatus == {"none", "ISSUED", "PAID", "OVER", "VOID"}

Invoice == [status : InvoiceStatus, from : Nat, until : Nat, due : Nat]

Blank == [status |-> "none", from |-> 0, until |-> 0, due |-> 0]

Idle == [kind |-> "idle"]

Request ==
  {Idle}
  \cup [kind : {"cancel", "extend"}, sub : Subscription]
  \cup [kind : {"pay"}, invoice : Invoices, amount : Nat, charge : Charges \cup {NoCharge},
        before : Nat, sub : Subscription, active : BOOLEAN]

Job == {Idle, [kind |-> "flip"]} \cup [kind : {"convert", "first", "renew", "suspend"}, sub : Subscription]

StartTrial ==
  [status |-> "TRIAL", trialEnd |-> TrialDays, periodEnd |-> TrialDays]

Init ==
  /\ sub = StartTrial
  /\ tenantActive = TRUE
  /\ invoice = [i \in Invoices |-> Blank]
  /\ paid = [i \in Invoices |-> 0]
  /\ charge = [c \in Charges |-> NoInvoice]
  /\ recorded = [c \in Charges |-> 0]
  /\ request = [w \in Web |-> Idle]
  /\ job = Idle
  /\ slot = 1 /\ today = 0
  /\ changes = 0 /\ extensions = 0 /\ faults = 0
  /\ lapsed = {}

-----------------------------------------------------------------------------
(* Web requests.                                                           *)

Fetched(w, q) ==
  /\ request[w] = Idle
  /\ request' = [request EXCEPT ![w] = q]
  /\ UNCHANGED <<sub, tenantActive, invoice, money, job, clock, tally>>

Answered(w) == request' = [request EXCEPT ![w] = Idle]

(* Mutant: overdue invoices are voided as well.                            *)
ChangePlanForgives(w) ==
  /\ request[w] = Idle /\ changes < MaxChanges
  /\ invoice' = [i \in Invoices |->
       IF invoice[i].status \in {"ISSUED", "OVER"} THEN [invoice[i] EXCEPT !.status = "VOID"]
                                                   ELSE invoice[i]]
  /\ changes' = changes + 1
  /\ UNCHANGED <<sub, tenantActive, money, request, job, clock, extensions, faults, lapsed>>

(* The plan itself is left out, as the price is the same for all of them;  *)
(* what matters here is that open invoices are voided.                     *)
ChangePlan(w) ==
  /\ request[w] = Idle
  /\ changes < MaxChanges
  /\ invoice' = [i \in Invoices |->
       IF invoice[i].status = "ISSUED" THEN [invoice[i] EXCEPT !.status = "VOID"]
                                       ELSE invoice[i]]
  /\ changes' = changes + 1
  /\ UNCHANGED <<sub, tenantActive, money, request, job, clock, extensions, faults, lapsed>>

FetchCancel(w) ==
  /\ sub.status # "CANC"
  /\ Fetched(w, [kind |-> "cancel", sub |-> sub])

Cancel(w) ==
  /\ request[w].kind = "cancel"
  /\ sub' = [request[w].sub EXCEPT !.status = "CANC"]
  /\ Answered(w)
  /\ UNCHANGED <<tenantActive, invoice, money, job, clock, tally>>

FetchExtendTrial(w) ==
  /\ extensions < MaxExtensions
  /\ sub.status = "TRIAL"
  /\ Fetched(w, [kind |-> "extend", sub |-> sub])

(* Saves trial_ends_at only: the first invoice still starts where the      *)
(* trial was to end.                                                       *)
ExtendTrial(w) ==
  /\ request[w].kind = "extend"
  /\ sub' = [sub EXCEPT !.trialEnd = request[w].sub.trialEnd + 1]
  /\ extensions' = extensions + 1
  /\ Answered(w)
  /\ UNCHANGED <<tenantActive, invoice, money, job, clock, changes, faults, lapsed>>

(* PayInvoiceView opens the gateway's checkout, where the tenant pays.  The *)
(* callback, which may come late or repeatedly, is a request of its own.    *)
PayInvoice(c) ==
  /\ charge[c] = NoInvoice
  /\ \E i \in Invoices :
       /\ invoice[i].status \in {"ISSUED", "OVER"}
       /\ charge' = [charge EXCEPT ![c] = i]
  /\ UNCHANGED <<sub, tenantActive, invoice, paid, recorded, request, job, clock, tally>>

Payment(i, amount, c) ==
  [kind |-> "pay", invoice |-> i, amount |-> amount, charge |-> c,
   before |-> paid[i], sub |-> sub, active |-> tenantActive]

(* A callback whose charge is already recorded changes nothing.            *)
FetchCallback(w) ==
  \E c \in Charges :
    /\ charge[c] # NoInvoice /\ recorded[c] = 0
    /\ Fetched(w, Payment(charge[c], Price, c))

(* The administrator's form takes any invoice and any amount.              *)
FetchMarkPaid(w) ==
  \E i \in Invoices, a \in Amounts :
    /\ invoice[i].status # "none" /\ paid[i] + a <= MaxPaid
    /\ Fetched(w, Payment(i, a, NoCharge))

(* Mutant: the period moves on from the day of payment.                    *)
PaidUpFromToday(s, until) ==
  [s EXCEPT !.status = IF @ \in {"TRIAL", "PAST_DUE"} THEN "ACTIVE" ELSE @,
            !.periodEnd = IF until >= today THEN today + Interval ELSE @]

(* What record_subscription_payment makes of the subscription it fetched.  *)
PaidUp(s, until) ==
  [s EXCEPT !.status = IF @ \in {"TRIAL", "PAST_DUE"} THEN "ACTIVE" ELSE @,
            !.periodEnd = IF until >= today THEN until ELSE @]

(* Mutant: any payment settles the invoice.                                *)
CoveredByAny(sum) == sum > 0

Covered(sum) == sum >= Price

RecordPayment(w) ==
  /\ request[w].kind = "pay"
  /\ \E q \in {request[w]} :
       /\ paid' = [paid EXCEPT ![q.invoice] = @ + q.amount]
       /\ recorded' = [c \in Charges |-> recorded[c] + (IF c = q.charge THEN 1 ELSE 0)]
       /\ invoice' = IF Covered(q.before + q.amount)
                     THEN [invoice EXCEPT ![q.invoice].status = "PAID"]
                     ELSE invoice
       /\ sub' = PaidUp(q.sub, invoice[q.invoice].until)
       /\ tenantActive' = (tenantActive \/ (q.sub.status = "PAST_DUE" /\ ~q.active))
  /\ Answered(w)
  /\ UNCHANGED <<charge, job, clock, tally>>

-----------------------------------------------------------------------------
(* Issuing an invoice: an open one for the same start is returned instead. *)

(* Mutant: only a draft would be returned.                                 *)
ExistingDraft(from) == {i \in Invoices : invoice[i].status = "DRAFT" /\ invoice[i].from = from}

Existing(from) == {i \in Invoices : invoice[i].status = "ISSUED" /\ invoice[i].from = from}

NextRow(i) ==
  /\ invoice[i].status = "none"
  /\ \A j \in 1 .. i - 1 : invoice[j].status # "none"

GenerateInvoice(s, until, due) ==
  \/ Existing(s.periodEnd) # {} /\ UNCHANGED invoice
  \/ /\ Existing(s.periodEnd) = {}
     /\ \E i \in Invoices :
          /\ NextRow(i)
          /\ invoice' = [invoice EXCEPT ![i] =
               [status |-> "ISSUED", from |-> s.periodEnd,
                until |-> until, due |-> due]]

-----------------------------------------------------------------------------
(* The nightly tasks, in their order.                                      *)

Done == 5

Scanned(n, found, j) ==
  /\ job = Idle /\ slot = n
  /\ IF found THEN job' = j /\ slot' = slot ELSE job' = Idle /\ slot' = slot + 1
  /\ UNCHANGED <<sub, tenantActive, invoice, money, request, today, tally>>

TaskEnds == job' = Idle /\ slot' = slot + 1

ScanTrials ==
  Scanned(1, sub.status = "TRIAL" /\ sub.trialEnd < today, [kind |-> "convert", sub |-> sub])

(* Mutant: the first invoice is left to the renewal task.                  *)
ConvertOnly ==
  /\ job.kind = "convert"
  /\ sub' = [sub EXCEPT !.status = "PAST_DUE"]
  /\ TaskEnds
  /\ UNCHANGED <<tenantActive, invoice, money, request, today, tally>>

(* The status is saved first, in a transaction of its own.                 *)
ConvertTrial ==
  /\ job.kind = "convert"
  /\ sub' = [sub EXCEPT !.status = "PAST_DUE"]
  /\ job' = [kind |-> "first", sub |-> job.sub]
  /\ UNCHANGED <<tenantActive, invoice, money, request, clock, tally>>

IssueFirst ==
  /\ job.kind = "first"
  /\ GenerateInvoice(job.sub, job.sub.periodEnd + Interval, today + Terms)
  /\ TaskEnds
  /\ UNCHANGED <<sub, tenantActive, money, request, today, tally>>

(* RowsLeft is the bound on invoices.                                      *)
RowsLeft == \E i \in Invoices : invoice[i].status = "none"

ScanRenewals ==
  Scanned(2, /\ sub.status = "ACTIVE" /\ RowsLeft
             /\ today < sub.periodEnd /\ sub.periodEnd <= today + Notice,
          [kind |-> "renew", sub |-> sub])

IssueRenewal ==
  /\ job.kind = "renew"
  /\ GenerateInvoice(job.sub, job.sub.periodEnd + Renewal, job.sub.periodEnd)
  /\ TaskEnds
  /\ UNCHANGED <<sub, tenantActive, money, request, today, tally>>

MarkOverdue ==
  /\ job = Idle /\ slot = 3
  /\ invoice' = [i \in Invoices |->
       IF invoice[i].status = "ISSUED" /\ invoice[i].due < today
       THEN [invoice[i] EXCEPT !.status = "OVER"] ELSE invoice[i]]
  /\ job' = [kind |-> "flip"]
  /\ UNCHANGED <<sub, tenantActive, money, request, clock, tally>>

(* The second UPDATE of mark_invoices_overdue.                             *)
FlipPastDue ==
  /\ job.kind = "flip"
  /\ sub' = IF sub.status = "ACTIVE" /\ \E i \in Invoices : invoice[i].status = "OVER"
            THEN [sub EXCEPT !.status = "PAST_DUE"] ELSE sub
  /\ TaskEnds
  /\ UNCHANGED <<tenantActive, invoice, money, request, today, tally>>

ScanDelinquents ==
  Scanned(4, sub.status = "PAST_DUE", [kind |-> "suspend", sub |-> sub])

(* Mutant: no days of grace.                                               *)
DelinquentAtOnce(i) == invoice[i].status = "OVER" /\ invoice[i].due < today

Delinquent(i) == invoice[i].status = "OVER" /\ invoice[i].due + Grace < today

(* The invoices are read again, the subscription is saved as it was        *)
(* scanned.                                                                *)
Suspend ==
  /\ job.kind = "suspend"
  /\ \/ /\ \E i \in Invoices : Delinquent(i)
        /\ sub' = [job.sub EXCEPT !.status = "SUSP"]
        /\ tenantActive' = FALSE
     \/ /\ \A i \in Invoices : ~Delinquent(i)
        /\ UNCHANGED <<sub, tenantActive>>
  /\ TaskEnds
  /\ UNCHANGED <<invoice, money, request, today, tally>>

(* A task that beat never sends, or whose invoice cannot be created: the   *)
(* exception is logged and nothing remembers it.                           *)
TaskFails ==
  /\ faults < MaxFaults
  /\ \/ job = Idle /\ slot < Done
     \/ job.kind \in {"first", "renew"}
  /\ faults' = faults + 1
  /\ TaskEnds
  /\ UNCHANGED <<sub, tenantActive, invoice, money, request, today, changes, extensions, lapsed>>

(* The invoices nobody has paid on a day after their days of grace.        *)
Unpaid(day) ==
  {i \in Invoices : invoice[i].status \in {"ISSUED", "OVER"} /\ invoice[i].due + Grace < day}

(* Mutant: the tasks are not planned anew.                                 *)
NextDayForgotten ==
  /\ job = Idle /\ slot = Done
  /\ slot' = slot + 1
  /\ today' = IF today < LastDay THEN today + 1 ELSE today
  /\ lapsed' = lapsed \cup Unpaid(today')
  /\ UNCHANGED <<sub, tenantActive, invoice, money, request, job, changes, extensions, faults>>

NextDay ==
  /\ job = Idle /\ slot = Done
  /\ slot' = 1
  /\ today' = IF today < LastDay THEN today + 1 ELSE today
  /\ lapsed' = lapsed \cup Unpaid(today')
  /\ UNCHANGED <<sub, tenantActive, invoice, money, request, job, changes, extensions, faults>>

-----------------------------------------------------------------------------
WebRequest(w) ==
  \/ ChangePlan(w)
  \/ FetchCancel(w) \/ Cancel(w)
  \/ FetchExtendTrial(w) \/ ExtendTrial(w)
  \/ FetchCallback(w) \/ FetchMarkPaid(w) \/ RecordPayment(w)

Beat ==
  \/ ScanTrials \/ ConvertTrial \/ IssueFirst
  \/ ScanRenewals \/ IssueRenewal
  \/ MarkOverdue \/ FlipPastDue
  \/ ScanDelinquents \/ Suspend
  \/ TaskFails \/ NextDay

Next ==
  \/ \E w \in Web : WebRequest(w)
  \/ \E c \in Charges : PayInvoice(c)
  \/ Beat

Spec == Init /\ [][Next]_vars

-----------------------------------------------------------------------------
TypeOK ==
  /\ sub \in Subscription /\ tenantActive \in BOOLEAN
  /\ invoice \in [Invoices -> Invoice]
  /\ paid \in [Invoices -> Nat]
  /\ charge \in [Charges -> Invoices \cup {NoInvoice}]
  /\ recorded \in [Charges -> Nat]
  /\ request \in [Web -> Request] /\ job \in Job
  /\ slot \in 1 .. Done /\ today \in Nat
  /\ changes \in Nat /\ extensions \in Nat /\ faults \in Nat
  /\ lapsed \subseteq Invoices

(* A subscription is suspended only if a day had begun on which one of its *)
(* invoices was still unpaid although its due date and days of grace were  *)
(* over, whatever is paid, cancelled or changed while the suspension task  *)
(* runs: invoices paid in time never count, however old they are.  That    *)
(* invoice may be paid since, but it was not voided.                       *)
SuspensionIsLate ==
  sub.status = "SUSP" => \E i \in lapsed : invoice[i].status \in {"OVER", "PAID"}

(* Every invoice starts where the trial was to end or where another        *)
(* invoice ends: no day is left unbilled between two invoices, although    *)
(* the period's end is copied around by saves of stale rows.               *)
BillingIsContiguous ==
  \A i \in Invoices : invoice[i].status # "none" =>
    \/ invoice[i].from = TrialDays
    \/ \E j \in Invoices : invoice[j].status # "none" /\ invoice[j].until = invoice[i].from

(* However often the tasks run, no two open invoices bill the same period. *)
OneOpenInvoice ==
  \A i, j \in Invoices :
    invoice[i].status = "ISSUED" /\ invoice[j].status = "ISSUED" /\ invoice[i].from = invoice[j].from
      => i = j

(* An invoice is only marked paid when its payments cover it, also when    *)
(* payments are recorded side by side.                                     *)
PaidInFull == \A i \in Invoices : invoice[i].status = "PAID" => paid[i] >= Price

(* Nobody leaves the trial for an active subscription without having paid  *)
(* something.                                                              *)
NoFreeActivation == sub.status = "ACTIVE" => \E i \in Invoices : paid[i] > 0

(* While no task has failed, a past-due subscription is pursued: it has    *)
(* been invoiced once its trial was converted, and it is suspended by the  *)
(* end of the day on which an invoice is beyond its days of grace.         *)
DebtorsArePursued ==
  faults = 0 /\ sub.status = "PAST_DUE" =>
    /\ job.kind # "first" => \E i \in Invoices : invoice[i].status # "none"
    /\ slot = Done =>
         \A i \in Invoices : invoice[i].status = "OVER" => invoice[i].due + Grace >= today

(* A debt goes away only by payment: an overdue invoice can only become    *)
(* paid, and a paid one stays paid, through plan changes and cancellation. *)
DebtIsOnlyPaid ==
  [][\A i \in Invoices :
       /\ invoice[i].status = "OVER" => invoice'[i].status \in {"OVER", "PAID"}
       /\ invoice[i].status = "PAID" => invoice'[i].status = "PAID"]_vars

(* An active subscription does not outlive its period without an invoice   *)
(* for the next one: what change_plan's caller promises ("Your next        *)
(* invoice will reflect the new pricing") and the renewal task is for.     *)
NextInvoiceComes ==
  sub.status = "ACTIVE" /\ sub.periodEnd < today =>
    \E i \in Invoices : invoice[i].status \in {"ISSUED", "OVER", "PAID"} /\ invoice[i].from = sub.periodEnd
=============================================================================
