----------------------------- MODULE Integrations -----------------------------
(***************************************************************************)
(* The parts around the front desk, the rent office and billing: what the  *)
(* program exchanges with browsers, guests and outside services, and who   *)
(* may use it.  They share no state, so one behaviour is about one part.   *)
(***************************************************************************)
EXTENDS Integers, Sequences, FiniteSets

CONSTANTS MaxOps, Syncs, MaxTries, QueueRetries,
          Workers, MaxPayments,
          Logs, Runs, EisRetries, MaxFaults,
          Refreshes, MaxRows, MaxFailures,
          Subjects, Notes, Hooks, Inbound, SendRetries,
          Clerks, MaxTokens, MaxJobs,
          People, Names, Desks,
          MaxSockets, MaxTimers, MaxCasts,
          Deliveries, Cases, MaxRaised,
          MaxChanges

VARIABLES about,        \* the part this behaviour is about
          entry, sync, online, tries,
          request, payments, txn, succeeded, prompt, raced,
          log, run, faults, accepted, troubled,
          refresh, rows, open, failures, disturbed,
          subject, notify, note, sender, reached, hook, inbox, copies, seen,
          muddled,
          res, made, jobs, clerk, recent, last, astray,
          tenant, users, member, at, desk, unmanned, doubled,
          sock, current, timers, stopped, joined, payment, casts, toasts,
          batch, post, stay, folio, task, inserted, synced, raised, overlapped,
          account, signedIn, page, trail, answer, changes, changed

Queue == INSTANCE OfflineQueue WITH MaxRetries <- QueueRetries
Ledger == INSTANCE PaymentLedger
Eis == INSTANCE EisQueue WITH MaxRetries <- EisRetries
Rates == INSTANCE ForexRates
Whatsapp == INSTANCE Messages
Portal == INSTANCE PortalLink
Sites == INSTANCE Accounts
Live == INSTANCE Realtime WITH MaxPayments <- MaxCasts
Batches == INSTANCE SyncBatch
             WITH MaxFailures <- MaxRaised, rows <- inserted, failures <- raised
Browser == INSTANCE Pages WITH at <- page, muddled <- changed

queue == <<entry, sync, online, tries>>
ledger == <<request, payments, txn, succeeded, prompt, raced>>
eis == <<log, run, faults, accepted, troubled>>
rates == <<refresh, rows, open, failures, disturbed>>
whatsapp == <<subject, notify, note, sender, reached, hook, inbox, copies, seen, muddled>>
portal == <<res, made, jobs, clerk, recent, last, astray>>
sites == <<tenant, users, member, at, desk, unmanned, doubled>>
live == <<sock, current, timers, stopped, joined, payment, casts, toasts>>
batches == <<batch, post, stay, folio, task, inserted, synced, raised, overlapped>>
pages == <<account, signedIn, page, trail, answer, changes, changed>>

ASSUME IntegrationsAssumption ==
  /\ Queue!QueueAssumption /\ Ledger!LedgerAssumption /\ Eis!EisAssumption
  /\ Rates!RatesAssumption /\ Whatsapp!MessagesAssumption
  /\ Portal!PortalAssumption /\ Live!RealtimeAssumption
  /\ Batches!SyncBatchAssumption /\ Browser!PagesAssumption

vars == <<about, queue, ledger, eis, rates, whatsapp, portal, sites, live,
          batches, pages>>

(* A part the behaviour is not about starts in one of its initial states.  *)
AnyOf(S) == CHOOSE x \in S : TRUE

Init ==
  /\ about \in {"queue", "ledger", "eis", "rates", "whatsapp", "portal",
                "sites", "live", "batches", "pages"}
  /\ Queue!Init /\ Ledger!Init /\ Eis!Init /\ Rates!Init
  /\ Whatsapp!Init /\ Sites!Init /\ Live!Init
  /\ Portal!Init
  /\ about # "portal" => jobs = 0
  /\ Batches!Init
  /\ about # "batches" => batch = AnyOf(Cases).ops
  /\ Browser!Init
  /\ about # "pages" => account = AnyOf(Browser!Account) /\ page = AnyOf(Browser!Page)

Next ==
  \/ /\ about = "queue" /\ Queue!Next
     /\ UNCHANGED <<about, ledger, eis, rates, whatsapp, portal, sites, live,
                   batches, pages>>
  \/ /\ about = "ledger" /\ Ledger!Next
     /\ UNCHANGED <<about, queue, eis, rates, whatsapp, portal, sites, live,
                   batches, pages>>
  \/ /\ about = "eis" /\ Eis!Next
     /\ UNCHANGED <<about, queue, ledger, rates, whatsapp, portal, sites, live,
                   batches, pages>>
  \/ /\ about = "rates" /\ Rates!Next
     /\ UNCHANGED <<about, queue, ledger, eis, whatsapp, portal, sites, live,
                   batches, pages>>
  \/ /\ about = "whatsapp" /\ Whatsapp!Next
     /\ UNCHANGED <<about, queue, ledger, eis, rates, portal, sites, live,
                   batches, pages>>
  \/ /\ about = "portal" /\ Portal!Next
     /\ UNCHANGED <<about, queue, ledger, eis, rates, whatsapp, sites, live,
                   batches, pages>>
  \/ /\ about = "sites" /\ Sites!Next
     /\ UNCHANGED <<about, queue, ledger, eis, rates, whatsapp, portal, live,
                   batches, pages>>
  \/ /\ about = "live" /\ Live!Next
     /\ UNCHANGED <<about, queue, ledger, eis, rates, whatsapp, portal, sites,
                   batches, pages>>
  \/ /\ about = "batches" /\ Batches!Next
     /\ UNCHANGED <<about, queue, ledger, eis, rates, whatsapp, portal, sites,
                   live, pages>>
  \/ /\ about = "pages" /\ Browser!Next
     /\ UNCHANGED <<about, queue, ledger, eis, rates, whatsapp, portal, sites,
                   live, batches>>

Spec == Init /\ [][Next]_vars

(* Every part keeps its types.                                             *)
TypeOK ==
  /\ Queue!TypeOK /\ Ledger!TypeOK /\ Eis!TypeOK /\ Rates!TypeOK
  /\ Whatsapp!TypeOK /\ Portal!TypeOK /\ Sites!TypeOK /\ Live!TypeOK
  /\ Batches!TypeOK /\ Browser!TypeOK

(* Only overlapping deliveries lose a successful PayChangu transaction.    *)
SuccessLostNeedsRace == Ledger!SuccessLostNeedsRace

(* A successful transaction is linked to the payment that was there first. *)
PromptPaymentsAreLinked == Ledger!PromptPaymentsAreLinked

(* A payment synced again is not recorded again, unless at the same time.  *)
OnePaymentPerReference == Ledger!OnePaymentPerReference

(* An invoice is submitted to the authority once, and its row says so.     *)
SubmittedOnce == Eis!SubmittedOnce

(* Between refreshes there is one current exchange rate.                   *)
OneCurrentRate == Rates!OneCurrentRate

(* The notification log says how far a message came.                       *)
LogTellsDelivery == Whatsapp!LogTellsDelivery

(* The portal link in the guest's last message works.                      *)
LastLinkWorks == Portal!LastLinkWorks

(* A completed signup leaves one tenant, with its administrator.           *)
SignupsMakeOneTenant == Sites!SignupsMakeOneTenant

(* The page has one live socket and announces a payment once.              *)
ToastedOnce == Live!ToastedOnce

(* What a device was told is synced is so, however often it asks.          *)
SyncedIsDone == Batches!SyncedIsDone

(* Redirects come to an end.                                               *)
RedirectsEnd == Browser!RedirectsEnd
=============================================================================
