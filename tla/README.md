# Pritech PMS: TLA+ models, model checking and proofs

Pritech PMS is a multi-tenant Django application for hotels, rentals and sales in Malawi.
This directory holds TLA+ modules translated from its source, TLC configurations that check
them on small instances, and TLAPS proofs of what matters most. Paths are relative to the
repository; every mapped definition names its lines in `PROJECT.json`.

## 1. The system

State lives in PostgreSQL, one schema per tenant (billing and tenants in the public one), at
READ COMMITTED and without `ATOMIC_REQUESTS`. Three kinds of process write it: web requests
(several gunicorn workers), Celery workers run by Celery beat and by views, and the webhooks
and sync posts of other machines. There is no optimistic version column anywhere: Django
views load an object, decide, and save it. Most of what can go wrong comes from that gap.

| component | state it keeps | operations | talks to |
|---|---|---|---|
| Inventory `core/properties` | `Unit.status` | admin edit; written by five other components | front desk, leases, sales |
| Reservations `hospitality/reservations` | reservation status and dates; `ReservationRoom` rows | book, edit, cancel, check in, check out; post_save signal | inventory, folios, housekeeping, guest portal |
| Night audit `reservations/tasks.py` | none of its own | charge in-house stays, mark no-shows | folios, reservations |
| Folios `hospitality/folios`, `compliance/tourism_levy` | folio status; charge and payment rows; the balance is never stored | charge, pay, settle (by check-out), levy (by the audit) | reservations, sync, PayChangu |
| Housekeeping `hospitality/housekeeping` | tasks and their status | transition; post_save frees the unit | inventory, sync |
| Guest portal `hospitality/guest_portal` | token and expiry on the reservation | send, resend, rotate | reservations (its save fires their signal), communications |
| Offline sync `core/sync`, `static/js/offline-*.js` | none on the server; a queue in the browser | batches of front-desk operations and EIS invoices; retries | all of the above |
| Billing `shared/billing` | subscription, invoices, payments | trial, renew, pay, change plan, cancel, suspend; six daily tasks | tenants, PayChangu |
| Rent invoicing `property/rent_invoicing` | invoices, lines, payments | generate, late fee, flag overdue, pay | leases |
| Leases `property/leases` | lease status | activate, terminate, renew | inventory |
| Sales `property/sales` | listing, offers, agreement | accept, agree, complete | inventory |
| Maintenance `property/maintenance` | request status | transitions, assign | inventory |
| PayChangu ledger `compliance/paychangu` | one row per charge | webhook | folios, rent |
| EIS `compliance/eis` | queued invoices, retry count | submit, sync | sync, the tax authority |
| Communications `communications` | notification log | send with retries, delivery receipts | everything that notifies |
| Forex `compliance/forex` | cached rates, one open row per currency | refresh in two statements | an outside rate service |
| Tenants and users `shared/tenants`, `shared/users` | tenants, users, memberships, sessions | two signups, platform edits, suspend, delete, login, redirects | billing |
| Realtime `realtime`, `static/js/realtime.js` | sockets, timers, groups | connect, reconnect, broadcast from a save | folios |
| Documents `core/documents` | none | render a folio; no address leads there | folios, EIS |
| Public pages `core/properties` | properties, units, photos | publish, list, home page | inventory |

What makes it hard, and what would be correct, per component:

* **Reservations.** Availability is derived from `ReservationRoom` rows and dates, not from
  `Unit.status`, and nothing in the database forbids overlapping rows. One query under the
  lock of the unit row is the whole protection. Correct: no two blocking reservations share a
  room and a night; a stay only moves forward; a room shown occupied has a guest.
* **Folios and the audit.** The audit is a plain loop, not a transaction. Correct: who is in
  house has a folio that can be charged; a departure settles it at a balance of zero.
* **Housekeeping.** Two signals and one service write the same unit. Correct: a dirty unit is
  on somebody's list.
* **Billing, rent, leases, sales.** Daily tasks and user actions rewrite the same rows.
  Correct: money owed is always collectable through some open invoice, no payment is lost, a
  suspension ends when the debt is paid, one active lease per unit, one accepted offer.
* **Webhooks, receipts, sync.** Delivered again, late or out of order. Correct: applied once,
  and success is final.
* **Everything sent or shown.** A token, a socket, a page or a redirect is made from state
  that others change meanwhile. Correct: the last link works, one live socket, pages that agree,
  redirects that end.

`PROJECT.json` lists every component with its status, and the hazards with their lines.

## 2. The modules

| module | what it is |
|---|---|
| `Inventory` | unit statuses |
| `Reservations` (extends Inventory) | the two tables, `Conflicting`, `AvailableUnits` |
| `Folios` (extends Reservations) | the folio and its balance |
| `Housekeeping` (extends Inventory) | tasks, their transitions, what saving one does to the unit |
| `FrontDesk` (extends Folios, Housekeeping) | the composition: web and sync requests by several workers, the night audit |
| `RoomCalendar` | the abstract promise: a calendar in which no two holders share a night |
| `Billing` | one subscription: its invoices, payments, web requests and nightly tasks |
| `Rent` | the rent invoices of a lease: lines, payments, late fees, two daily tasks |
| `Tenancy` | leases, the sale of a unit, maintenance, and the status of the units |
| `OfflineQueue`, `SyncBatch` | the browser's queue; the server's endpoint for batches |
| `PaymentLedger`, `EisQueue`, `ForexRates` | one payment reference; invoices for the revenue authority; one currency's rate |
| `Messages`, `PortalLink`, `Realtime` | WhatsApp messages; one guest's portal link; one page's socket |
| `Accounts`, `Pages` | workspaces and members; redirects |
| `Integrations` | the ten modules from `OfflineQueue` on, put side by side |
| `FolioDesk` | the money of one folio: rows posted by many, the payment form, check-out, audit and levy |
| `Catalogue` | the public pages of a tenant's site |
| `Shopfront` (extends FolioDesk, Catalogue) | the two side by side |
| `FrontDesk_proofs` | theorems of `FrontDesk` and of `RoomCalendar` |
| `Billing_proofs`, `Rent_proofs`, `Tenancy_proofs` | theorems of the module named |
| `FolioDesk_proofs`, `Catalogue_proofs` (extends FolioDesk_proofs) | theorems of `Shopfront`: the desk's and the site's |
| `Integrations_proofs` (extends Integrations) | types of the parts; theorems about books and workspaces |
| `Network_proofs` (extends Integrations_proofs) | theorems about messages and browsers |
| `MC_FrontDesk`, `MC_Billing`, `MC_Rent`, `MC_Tenancy`, `MC_Integrations`, `MC_Shopfront` | values of the constants for TLC |

Every behaviour of `Integrations`, and of `Shopfront`, is about one part: the parts share no
state, so their product would only multiply states. The assumptions of the parts of
`Integrations` on their constants are assumed there.

**How code becomes actions.** A request is two steps. `Fetch<Op>(w)` is what the view does
outside its transaction: `get_object_or_404`, the form's querysets and `clean_*` methods. What
it saw is stored in `request[w]`. `<Op>(w)` is the body of `@transaction.atomic`: it acts on
the object *as fetched* and rereads only what the code rereads (the conflict query under the
unit's lock, the folio's balance, the room rows). Between the two steps any other worker may
commit anything. This is how Django runs, and it is where the races below come from.

| code | model |
|---|---|
| `ReservationForm` and `ReservationCreateView.form_valid` | `FetchBook`, `Book` |
| `ReservationUpdateView` | `FetchEdit`, `Edit` (whole-row save, the skipped check, the refused move that commits) |
| `cancel_reservation` | `FetchCancel`, `Cancel` |
| `CheckInView`, `check_in_reservation`, the sync handler | `FetchCheckIn`, `CheckIn` |
| `CheckOutView`, `check_out_reservation`, the sync handler, the signal | `FetchCheckOut`, `CheckOut` |
| `TaskStatusUpdateView`, the sync handler, the housekeeping signal | `FetchTask`, `UpdateTask` |
| folio views and sync handlers | `PostCharge`, `TakePayment` |
| `ResendPortalLinkView`, for what its save does | `ResendLink` |
| `run_night_audit_for_property` | `AuditStart`, `AuditPost`, `AuditNoShow`, `AuditDies` |
| `Unit.status` in the admin | `SetService` |

The *channel* of a request decides two things the code decides by it: the web check-in form
offers only available units while a synced check-in names any; and the web check-out page
prefetches rooms and units, which is what the signal later iterates over.

**Abstractions.** A transaction body is one step: its finer READ COMMITTED interleavings are
not modelled (two bodies that lock the same unit are serialised by the lock; those that lock
nothing are single writes). A reservation's rows are a set of units; rates are reduced to
"changed or not"; guests, deposits and notifications are left out. `CheckInView` loads the
reservation twice, for the form and for the service; the model loads it once. PENDING
reservations and BLOCKED or SOLD units are left out because no front-desk code creates or
distinguishes them. Reservations are booked with one room, as the form does; a set can still
grow through a refused edit followed by a check-in.

### Billing

`sub` is the Subscription row, `invoice` and `paid` its invoices and the sums of their
payments, `charge` and `recorded` the gateway's charges and how often each was recorded,
`job` the Celery task in progress, `slot` the next one of the day. The tasks run in their
crontab order, one at a time; web requests interleave with them and with each other.

| code | model |
|---|---|
| `start_trial` | `Init` |
| `change_plan` | `ChangePlan` (only what it does to invoices) |
| `CancelSubscriptionView`, `AdminExtendTrialView` | `FetchCancel`, `Cancel`; `FetchExtendTrial`, `ExtendTrial` |
| `PayInvoiceView` and the hosted checkout | `PayInvoice` |
| `paychangu_callback`, `AdminMarkPaidView`, `record_subscription_payment` | `FetchCallback`, `FetchMarkPaid`, `RecordPayment` |
| `process_expired_trials` | `ScanTrials`, `ConvertTrial`, `IssueFirst` |
| `generate_period_invoices` | `ScanRenewals`, `IssueRenewal` |
| `mark_invoices_overdue` | `MarkOverdue`, `FlipPastDue` (two UPDATEs) |
| `suspend_delinquent_tenants` | `ScanDelinquents`, `Suspend` |
| `except Exception: logger.exception`, a task beat never sends | `TaskFails` |

What a view or task read is kept in `request[w].sub` or `job.sub`; `subscription.save()` puts
that whole copy back with its changes, `update_fields` writes the named columns only. All
reads of a payment (the charge lookup, the sum, the subscription) are taken at its fetch.
Dates are days: a trial ends during a working day, so the 02:00 task sees it the day after;
a paid period ends at midnight, so the 02:15 task no longer sees it on its last day. All
plans cost the same, so a plan change matters only for the invoices it voids. Left out:
currency, reminders (they change nothing), free edits in the Django admin. `Tenant.is_active`
has no reader but `record_subscription_payment`; it is modelled for that branch.

### Rent and tenancy

`Rent` keeps the *ledger* (what was ever inserted: charge lines, late-fee lines, payments) apart
from the invoice *row*, which repeats its sums. `recalculate_totals` is called on a row fetched
earlier, reads the sums and saves every column, and the views run without a transaction. So a
payment or a charge goes through the stages post, fetch, sum and save, each a step, and may die
between two (`Dies`).

| code | model |
|---|---|
| `generate_invoice_for_lease` | `FetchGenerate`, `Generate` |
| the payment and line views | `FetchPayment`, `PostPayment`; `FetchLine`, `PostLine`, `FetchAgain`; `SumUp`, `Save` |
| `recalculate_totals` | `Recalculated` |
| `apply_late_fee` and its daily task | `FetchFee`, `TaskFees`, `SumFee`, `SaveFee` |
| `flag_overdue_invoices` | `TaskFlag` |
| the void and recalculate buttons | `Void`, `Recalculate` |

`Tenancy` has the lease, the listing with its offers, one maintenance request and the units'
status. An activation is three steps: load the lease, look for another active lease of the unit,
write. The history variable `raced` marks the leases, units and offers that two requests worked
on at once; `revived` marks leases made by renewing an *expired* one, which looks at no other
lease of the unit, and those that continue them.

| code | model |
|---|---|
| the lease form, `LeaseUpdateView` | `CreateLease`; `FetchEditLease`, `EditLease` |
| `activate_lease`, `terminate_lease`, `renew_lease` | `FetchActivate`, `CheckActivate`, `Activate`; `FetchTerminate`, `Terminate`; `FetchRenew`, `Renew` |
| the status in the admin | `Expire`, `EnterAgreement` |
| `accept_offer`, `create_sale_agreement`, the completion view | `FetchAccept`, `Accept`; `FetchAgreement`, `CreateAgreement`; `CompleteSale` |
| the status, assignment and completion views, `MaintenanceRequest.save` | `FetchJob`, `SaveJob`, `Stamped` |

`CreateAgreement` changes nothing because the commission multiplies a Decimal by a float and
the exception rolls the whole transaction back; an agreement exists only if the admin enters it.

### The parts of `Integrations`

* `OfflineQueue`: `syncPendingOperations` as a sync that reads the queue once, then sends and
  records one operation after the other; two scripts of a page start one each. The server
  answers only the batch address (`Served`).
* `SyncBatch`: what the endpoint does with a batch posted any number of times. Each operation
  is read (`Read`) and written (`Apply`) in a transaction of its own.
* `PaymentLedger`: `paychangu_webhook` as verify, upsert, link and save, side by side with
  others, and the payments the sync endpoint or staff record under the same reference.
* `EisQueue`: overlapping runs of the submission task, each saving whole rows as it read them;
  answers are lost, runs die, the admin requeues.
* `ForexRates`: closing the old rate and creating the new one as two statements.
* `Messages`: from the saved reservation or payment over the commit hook and the send task with
  its retries to the delivery receipts, which come in any order, and inbound messages.
* `PortalLink`: the token and its expiry, written by the send task, a resend and the edit form,
  each from the row it read; at most one resend in two minutes.
* `Accounts`: e-mail signup, Google signup with its membership *after* the transaction, the
  platform's forms, logins and memberships.
* `Realtime`: `connect`, the delayed reconnect, the online event and `disconnect` of the page;
  the consumer; the broadcast at save time, before the transaction ends.
* `Pages`: every page of the two sites as an operator from the account to an answer. `Follow`
  goes where a redirect points, `Change` lets an administrator change the account on the way.

### The folio's money and the public pages

`FrontDesk` keeps only whether a folio has a balance. `FolioDesk` has the two sums, and makes a
step of every query: `Folio.balance` is one query for the charges and one for the payments. The
payment form asks for it twice (`OpenForm`, `Owes`: is something owed; `Again`, `Propose`: how
much) and is sent when the cashier likes (`Pay`); the check-out asks once (`CountCharges`,
`CountPayments`) and then settles (`Settle`). Meanwhile the charge form, synced payments and the
night audit post rows (`PostCharge`, `SyncPayment`, `AuditPost`), and only the audit, before it posts,
looks at the folio's status. No form, model or handler asks for an amount above zero and a DISCOUNT is a charge below
zero, so rows go either way and both sums may fall. Rows edited or deleted in the Django admin
are left out: to the sums they are rows of the opposite sign. `ApplyLevy` changes nothing, because
its charge type is none that `FolioCharge` has.

`Catalogue` has properties, units and photos, which staff, the front desk and leases change; the
pages are operators, one per query: the list, a property's page, the Rentals tab, and the home
page with queries of its own. The home page shows the first `Slots` of a section (`[:6]`). Its
count of free units joins units and photos, so `AvailableCount` multiplies them. Left out: the
search and the pages of twelve of the lists. Names and creation times are taken to be distinct.

Outside services (PayChangu, the authority, Meta, the rate service, browsers) are
nondeterministic: they answer anything the code distinguishes, or not at all. Celery tasks are
modelled as their bodies. Only the night audit and the monthly statements enter the tenants'
schemas themselves (`schema_context`); the others run where their tables are.

## 3. What is checked

| run | instance | shows |
|---|---|---|
| `booking` | 2 workers, 2 units, 2 reservations, two ranges that touch, web and sync | `DoubleBookingNeedsEdit`, `FolioFollowsStay`, and `ImplementsCalendar`: what was never edited refines `RoomCalendar` |
| `serial` | 1 worker, 2 units, two ranges, service, cleaning tasks, audit with a crash | `TypeOK`, `NoDoubleBooking`, `OccupiedRoomsHaveGuests`, `CleaningIsOnTheList` |
| `nightly` | 1 worker, 1 unit, audit with a crash, fairness | `OverdueIsResolved` |
| `edit_race` | 2 workers, violation | `NoDoubleBooking` |
| `billing` | 1 web worker and the tasks, 8 days, 3 invoices, full and half payments, one callback, plan change, extension and failing task | `TypeOK`, `SuspensionIsLate`, `BillingIsContiguous`, `OneOpenInvoice`, `PaidInFull`, `DebtorsArePursued`, `DebtIsOnlyPaid` |
| `billing_gap` | one plan change, no faults, violation | `NextInvoiceComes` |
| `tenancy` | 2 workers; three leases of a unit, or two of two units, or a lease of the unit for sale, or maintenance | `TypeOK`, `DoubleLettingNeedsRace`, `LetUnitsAreOccupied`, `OffersFitListing`, `StampsFollowStatus` |
| `rent` | 2 workers; one invoice with payments, charges and fees, or the two invoices of a period; one crash | `TypeOK`, `RowFollowsLedger`, `PaidIsCovered`, `OneInvoicePerPeriod` |
| `rent_late_fee` | one unpaid invoice, both tasks every day, fairness, violation | `LateFeeComes` |
| `integrations` | each part with two or three actors, retries and faults | one property per part, see below |
| `guests` | 2 cashiers, rows of +1 and -1, sums within -2 .. 2, audit; or 2 properties and 3 units in five layouts, 2 photos, sections of one row | `TypeOK`, `CreditIsExplained`, `DepartureIsPaid`, `PagesAgree` |
| `offline_reconnect` | one queued operation, a browser that stays online, fairness, violation | `SyncsWhenOnline` |

What `integrations` says of its parts: a successful transaction is lost only to an overlapping
delivery (`SuccessLostNeedsRace`), and is linked to a payment that was there first
(`PromptPaymentsAreLinked`); a reference is one payment (`OnePaymentPerReference`); an invoice
reaches the authority once and its row says so (`SubmittedOnce`); between refreshes one rate is
current (`OneCurrentRate`); the log tells how far a message came (`LogTellsDelivery`); the link
in the last message works (`LastLinkWorks`); a signup leaves one tenant with a member
(`SignupsMakeOneTenant`); a payment is announced once (`ToastedOnce`); what a device was told is
synced is (`SyncedIsDone`); redirects end (`RedirectsEnd`).

Many properties end in *unless two requests were at work at once*. The exception is a history
variable (`raced`, `disturbed`, `muddled`, `overlapped`, `overtaken`, `edited`) that is set at the one step
where the race is decided and, where it can, names the rows concerned, so everything else is still claimed: of
two racing activations only the two leases and their unit are excused.

**Front desk.** With one worker requests do not interleave with each other (the audit still
interleaves with them), and the front desk keeps all its promises: that is `serial`. With two
only part survives, which `booking` shows. Two reservations are enough for a
conflict, which is a relation between two. Two units let an edit or a check-in move. Ranges that
touch distinguish half-open from closed intervals, and either range conflicts with itself.
`LastDay` 2 lets a stay become overdue. `MaxTasks` 1 allows one check-out cleaning per
unit and one more from a resent link. `MaxBalance` 0 or 1 gives the refused check-out of an
unsettled folio where the run has money. No bound cuts a request short. Reservations, units and
workers are interchangeable (`Repairable` is all units or none), and symmetry is used only where
no property is temporal over fairness.

**Billing.** The calendar is short but in the program's order, which `MC_Billing` assumes
(`CalendarInOrder`): notice before the period's end, and terms plus grace shorter than a period.
Eight days hold a trial, its first invoice, the renewal, and the suspension for either. Three
invoices are the most a run issues before its calendar ends except when a late payment moves the
period back and it is billed again; `RowsLeft` stops renewals then. One web worker interleaves
with the tasks; the invariants that more workers could endanger are proved for any number.
`SuspensionIsLate` says that a suspended subscription has an invoice which a day once began on
unpaid, with its due date and days of grace over (`lapsed`); one that was paid in time never
counts, however long ago. `DebtorsArePursued` is about runs in which no task failed, because one failure breaks it.

**Rent.** One invoice with two units of payment and one of charges has every order of a
payment, a charge and a late fee; the second scope has the two invoices of a period. `Due` 1,
`Grace` 1 and three days make an invoice overdue, and late. One crash can fall between any two
saves.

**Tenancy.** Three leases of one unit are two that race and one that follows; two leases and two
units let an edit move a lease. What needs four leases (a chain of renewals beside two others) is
covered by the proof. The listed unit may be let at the same time, which is how leases and sales
meet.

**Integrations.** Each part has the two or three actors its hazard needs and retry limits of one
or two, below the number of tries, so that operations are given up at the limit.

**The folio.** Two cashiers are enough for two payments of one balance, or a payment during a
check-out. Sums from -2 to 2 let a folio pass from debt to credit and back. What the form proposes
never makes a credit by itself, unless a payment came since the balance was read or a discount
since the charges were (`CreditIsExplained`); and who leaves is even, unless a row came after the
query that would have seen it (`DepartureIsPaid`): a payment between the two queries is no harm.
Both hold whatever the sign of the rows.

**Public pages.** Sections of one row with two hotels and up to three rentals have full and
overfull sections; the five layouts mix hotels, houses, rooms and rentals. `PagesAgree` says which
rows the home page shows: the best of the bookable hotels on the list and the newest of the
vacant rentals, as many as fit. The ranking it compares with counts the free units once. The two
agree all the same, because hotels are ranked by photos first and the factor is the same among
those with equally many; a change to the order (the mutant) brings the wrong hotel forward. The
number shown beside a hotel is still too high.

**Fairness.** `nightly`: `AuditStart`, each `AuditPost` and `AuditNoShow` are weakly fair, because
Celery beat starts the audit every night and the worker does not stop by itself; requests and
`Midnight` are not fair; an audit may die `MaxCrashes` times. `rent_late_fee`: both tasks, the
steps of a late fee and the day are weakly fair, because beat sends both tasks daily.
`offline_reconnect`: the browser comes online, pages are loaded, and a sync that started goes on.

**Deadlock** is checked except in `tenancy`, `integrations`, `offline_reconnect` and `guests`.
Those systems really stop: a lease that ended, a message delivered, a queue worked off have no
further step, and what could start anew is bounded.

### What the violations say

1. `edit_race`. An edit which keeps the room skips the locked conflict check although the
   dates changed: two reservations, one room, the same nights.
2. `billing_gap`. A plan change voids the renewal invoice after the last task that could
   replace it: the subscription stays active past its period and is never invoiced again.
3. `rent_late_fee`. An invoice is flagged OVERDUE on the day after it is due, while its grace
   lasts; the late-fee task only looks at ISSUED and PARTIAL ones. No late fee ever comes.
4. `offline_reconnect`. The queue posts each operation to the address of the form it came
   from, and the server has only the batch address: every post is a 404.

### What the code does otherwise

Behaviour the models follow, which a reader of the code may not expect. No run claims the
opposite.

* An edit form fetched before a check-in and saved after it writes CONFIRMED back: the unit
  stays occupied with nobody in house (`Edit`).
* A check-out from an offline device leaves a dirty unit without a task, because the service
  releases the unit before the signal looks at it (`CheckOut` on channel `sync`).
* The reservation signal acts on every save. Resending the portal link of a guest who left
  releases the unit of the guest who is there now (`ResendLink`).
* Shutting a tenant off makes its subscription SUSPENDED, but a payment brings the tenant back
  only from PAST_DUE: who pays everything stays shut off (`PaidUp`).
* `check_in_reservation` accepts a unit in MAINTENANCE; a refused room change commits the new
  dates; the audit charges twice if run twice in a night.
* An older invoice paid late moves the subscription's period back and the time in between is
  billed again; extending a trial moves `trial_ends_at` but not `current_period_end`;
  cancelling ends the subscription at once although the view says access lasts.
* A late fee is a line and so part of the subtotal, and is added to the total once more.
* `create_sale_agreement` always fails (Decimal times float); `renew_lease` looks at no other
  lease of the unit; terminating a lease frees the unit it was fetched with.
* The membership of a Google signup is created after the transaction that makes the tenant:
  a request that dies in between leaves a workspace nobody can enter. The admin's update form
  saves the whole tenant and can undo a suspension made meanwhile.
* A member whose last membership is removed while signed in on a tenant's site is redirected in
  a circle (`Orphan`), and one who opens `/signup/complete/` on the public site gets an error,
  because the view redirects to a name that site does not have.
* The dashboard (`config/urls.py:34`) asks for no login; the unit's page shows units that are not public.
* The home page says of a hotel how many rooms are "left", but joins units and photos and counts
  each free unit once per photo: with one room and two photos it says two.
* The levy is a charge of type TOURISM_LEVY, which `FolioCharge.ChargeType` does not have: the
  lookup raises before anything is created, the audit logs it, and no levy is ever recorded,
  though a test expects one (`tests/test_compliance/test_tourism_levy.py`).
* The broadcast of a payment and the queued messages of a scan are sent before the transaction
  ends. After the browser was offline, the socket reconnects with an empty callback: payments
  are not announced until the page is loaded again. The front desk's board never refreshes.
* `realtime/signals.py` compares an invoice's status with 'OVERDUE' where the code is 'OVER'.
* The answer to a batch counts its rejected operations as synced (`sync/views.py`).
* Inspecting an old cleaning task makes a unit available that a later check-out left dirty
  (`UpdateTask`). `CleaningIsOnTheList` is about units that are shown as dirty, and holds.
* A charge sent again by a device that lost the answer is a second charge: it has no key.
* Two payments of a subscription invoice at once may each miss the other and leave it unpaid
  though covered. `PaidInFull` is the other direction.
* Charges and payments may be posted to a folio that is settled (`late` in `FolioDesk`).
* `change_plan`'s docstring says that any unpaid invoice is voided; its code and the comment
  there say draft and issued ones, so an overdue debt stays (`DebtIsOnlyPaid`).
* The views of `core/documents` are in no URLconf that is mounted (`config/urls.py:133-136`), and
  nothing calls `email_folio_invoice`; `reservation_detail.html` still links to their names.

Of these, the stale edit form, a stale cancellation (with two workers it takes the reservation of
a guest in house), the release of another guest's unit, the inspection, the second charge, the
missed payment, the tenant who stays shut off and the doubled fee are hazards in `PROJECT.json` that no
property covers: the code promises nothing there that could be checked.

## 4. What is proved

| module | theorems | for any number of |
|---|---|---|
| `FrontDesk_proofs` | `TypeCorrect`, `DoubleBookingsComeFromEdits`, `FoliosFollowStays`, `FrontDeskImplementsCalendar` | reservations, workers, dates, units (finite), any channels |
| | `SerialDeskNeverDoubleBooks`, `SerialRoomsHaveGuests`, `SerialStaysGoOneWay`; `SerialCleaningIsListed` without offline check-outs | the same, with one worker |
| | `NoNightIsShared` (room calendar) | rooms, holders, dates |
| `Billing_proofs` | `BillingTypes`, `SuspensionsAreLate`, `BillingHasNoGaps`, `NoSecondOpenInvoice`, `NothingIsFree`, `DebtsAreOnlyPaid`, `DebtorsDoNotEscape` | workers, charges, invoices; any calendar and price |
| `Rent_proofs` | `RentTypes`, `PaidInvoicesAreCovered`, `PeriodsHaveOneInvoice`, `RowsFollowTheLedger` | workers, invoices, crashes; any amounts and calendar |
| `Tenancy_proofs` | `OfficeTypes`, `DoubleLettingsComeFromRaces`, `LetUnitsShownOccupied`, `RenewalsAreContinued`, `OffersAndListingAgree`, `StampsAreKept` | workers, leases, units, offers |
| `FolioDesk_proofs` | `CreditHasReason`, `DeparturesArePaid` | cashiers; any amounts |
| `Catalogue_proofs` | `ShopfrontTypes`, `HomeAgrees` | properties, units (finite), photos, rows of a section |
| `Integrations_proofs` | `SuccessIsKept`, `ReferencesAreUnique`, `PromptPaymentsGetLinked` (payment ledger); `InvoicesGoOnce` (EIS); `OneRate` (forex); `SignupsAreWhole` (accounts) | deliveries, payments, runs, rows, refreshes, people, names |
| `Network_proofs` | `GuestsHoldTheLink` (portal); `LogsAreRight` (messages); `AnnouncedOnce` (realtime); `SyncsAreDone` (batches); `TrailsAreFinite` (redirects); `IntegrationTypes` (all parts) | clerks, hooks, messages, timers, deliveries; any batch |

With these, every invariant and every action property a passing run checks is also a theorem,
and so is the refinement. Only the one liveness property of a passing run is not. Two that no run
repeats are proved besides: `SerialStaysGoOneWay` and `RenewalsAreContinued`.

**Front desk.** None of the invariants is inductive alone. `DeskInv` adds what a request in
flight is still right about: the row it names exists (`RequestNamesRow`), a check-in fetched the
dates its reservation has unless that was edited since (`CheckInSawStay`), a check-out fetched a
reservation that has a folio (`CheckOutSawFolio`), and only existing reservations were edited
(`EditedExists`). The second is why a *stale* check-in cannot double-book: it checks conflicts
with the dates it fetched, and only an edit changes dates. One lemma per action shows that it
preserves `DeskInv`. The refinement needs `DeskInv` too: under it a booking or a check-in is a
`Hold`, an edit, cancellation, check-out and audit are a `Release`, everything else stutters.

With one worker (`OneWorker`) the three promises of `serial` hold and a stay goes one way
(`SerialStaysGoOneWay`), and `SerialInv` says why.
What happens between a fetch and its commit is then only the audit, the clock, resent links,
money and units taken out of service. These never move a guest: a confirmation may become a
no-show, a unit may be released, a task may be added. So a request is still right about its own
reservation (`RequestsAreCurrent`): an edit's unit is still free of conflicts, a check-in's
reservation is confirmed or a no-show and has the dates that were fetched, a cancellation's is
not in house, and a check-out in the browser has prefetched every occupied room of its
reservation. `OneRoomEach` is needed for the edit that keeps its room without the locked check:
the room it keeps is the one that was checked. The channel matters only for
`CleaningIsOnTheList`, since an offline check-out prefetches nothing.

**Billing.** `RowsKept` says what no step undoes (invoices keep their dates, debts are settled
only by payment, sums and dates only grow). So a *copy* of the subscription that was right when
it was fetched stays right (`CopyStaysGood`), and `CopiesGood` is inductive: the row, every copy
held by a request and the one held by a task end where some invoice ends, and say SUSPENDED only
if an invoice has lapsed, which is never taken back. `InvoicesChange` says that a step issues at most one invoice, from such a
copy, and only when none is open for its start. For `DebtorsArePursued`, `PastDueComes` shows
that no stale copy makes a subscription past due: only the task that converts a trial does, which
goes on to issue the first invoice, and the one that marks invoices overdue, which has found one.
`OverdueComes` shows that an invoice becomes overdue before the day's scan for delinquents, and
what that scan finds it suspends before the day is done.

**Rent.** That a paid invoice is covered needs the same about every copy a request holds
(`CopiesGood`). That an undisturbed row repeats the ledger needs more: while one request works on
an invoice alone, the row and its copy differ from the ledger by exactly what that request has
inserted and not yet added up, stage by stage (`LedgerInv`).

**Tenancy.** Four layers, each inductive given those below. `RowsGood`: only drafts have start 0,
so an edit never reaches a lease that a renewal made. `AllSeenGood`: what a request has read of
its lease is still so, or the lease and the units it concerns are in `raced`; the one fact behind
it is that whoever writes a lease marks the subjects of all others on it (`WritesRace`).
`UnitsApart` and `AllClearGood`: two active leases of a unit, or an activation past its check and
a lease that became active since, are *hit* by an unguarded renewal or a race; a renewal passes a
hit on to the lease that continues it. That case needs four leases; it showed that `revived` must
follow the chain, which three leases in TLC had not. On top of these the units' status and the
chain of renewals follow.

**Integrations.** A step of `Integrations` is a step of one part and leaves the variables of the
others alone (`PartsMove`), so each part has an invariant of its own, which assumes nothing of
the others; `PartsInv` puts their types together.

* *Payment ledger.* A success is lost only in a save whose request read the row before another's
  success, so both were at the row: that is `raced` (`SuccessInv`). The same with an insert that
  found no payment (`ReferenceInv`). A payment that is prompt is found by every delivery that
  reaches the link step (`LinkInv`).
* *EIS.* Of a row nothing went wrong with, `RowInv` says: one run at most holds it, on its list
  or in its hand; while held it is queued, and accepted exactly if that run was told so; accepted
  and not held, it is validated. `OneCopy` keeps a run from having a row twice.
* *Forex.* Between the two statements of an undisturbed refresh no row is open and no other
  refresh is there (`RatesInv`).
* *Accounts.* A tenant has a member or a process about to add one, unless that process died
  (`Manned`); a person who did not sign up twice at once is at most in one tenant and, while a
  signup is under way, in none (`OneHome`).
* *Portal.* `last` is the link in the guest's last message. Unless something went astray, a task
  about to send holds the row's link, which is fresh; one about to write finds no link; a queued
  one will find a fresh link or none; with no task on its way the row has `last` (`PortalInv`).
* *Messages.* `LogInv` follows a message through the send task: not sent, taken by the provider,
  over. After that the log is behind the receipts by at most the one being processed.
* *Realtime.* Sockets that are connecting or open are the one the page holds, and a message is
  counted by a row that was saved (`LiveInv`). That counts rows: it needs finite cardinalities.
* *Batches.* What a delivery has read is still so unless a write came in between, and who is in
  house has a folio, so that a check-out that was accepted has settled it (`BatchesInv`).
* *Redirects.* `Rank` counts how far a page is from an answer. Every redirect leads nearer, except
  for the `Orphan`, whom the property excludes; so along a trail no page comes again
  (`PagesInv`), and there are four redirects at most.

**The folio.** `Readings` says what a cashier's reading is worth unless it was overtaken: charges
read for a proposal are at most those of now, a proposal at most the balance of now, charges
counted at a check-out those of now, and a folio found square is square. Both properties follow
at the step that uses the reading. Sums may fall, so no reading bounds a later one by itself.

**Public pages.** That the home page has the right hotels needs one fact of arithmetic, that a
common factor does not change an order, and that a hotel's count is above zero exactly if it has
a free unit; the rest is set reasoning, with finite cardinalities.

Assumptions: each module's own `...Assumption` types its constants (`BillingAssumption` also
makes amounts positive, `SyncBatchAssumption` says that batches start from a stay the program can
be in); `StaysAssumption` is the database's check constraint; `OneWorker` where it is written.

Only model-checked, because it is out of the prover's reach: liveness (`OverdueIsResolved`, and
`LateFeeComes` and `SyncsWhenOnline`, which are refuted), ENABLED, and absence of deadlock. No
theorem is about a recursive definition, and none needs induction over data. What the four
violations show is a behaviour of one instance, and is TLC's alone. Also outside: the claim that
TLC's bounds reach every action, which the runs show.

## 5. Plan and what is not modelled

Done: front desk, billing, rent, leases, sales, maintenance, offline sync on both sides, the
payment ledger, EIS, messages, portal links, forex, accounts, redirects, realtime, the money of a
folio, public pages.

Every safety property of the passing runs is proved. Left: an abstract
specification for billing (a ledger of debts) and one for leases (a calendar of lets), each shown
to be implemented; a unit that is a hotel room and has a lease at once, which takes `FrontDesk`
and `Tenancy` over one `Inventory`.

Not modelled:

* Levels below a step: the READ COMMITTED interleavings inside one transaction body, PostgreSQL,
  Celery's broker, django-tenants' creation of schemas (one step that works or fails).
* FCY returns: sums over decimals. Documents: no address leads to them, and statements and
  several renderers are stubs.
* Passwords, tokens and object permissions (Django's and allauth's); layout of pages and PDFs;
  demo data, translations, settings; guests, rate plans and other plain create and update forms.
* Amounts in several currencies: the code adds them as they are.
