------------------------------ MODULE FolioDesk ------------------------------
(***************************************************************************)
(* The folio of one guest in house: charges and payments are posted at the *)
(* desk, from offline devices and by the night audit, without locks, while *)
(* cashiers take the payment a form proposes and check the guest out.  The *)
(* balance is never stored: every look at it is two queries, first for the *)
(* charges and then for the payments, with others' rows in between.        *)
(***************************************************************************)
EXTENDS Integers

CONSTANTS Cashiers,     \* server processes at work on payments and check-outs
          Entries,      \* amounts a row may have: nothing forces a sign
          MaxTotal      \* bound: sums stay within -MaxTotal .. MaxTotal

ASSUME FolioDeskAssumption ==
  MaxTotal \in Nat \ {0} /\ Entries \subseteq Int

VARIABLES charges,      \* sum of the folio's charges
          payments,     \* sum of its payments
          left,         \* the guest has checked out and the folio is settled
          till,         \* cashier -> what it is at, and what it has read
          audit,        \* where the night audit is with this folio
          overtaken,    \* history: cashiers whose reading was outdated since
          late,         \* history: something was posted behind the departure
          excused       \* history: what put the folio in credit was no proposal

folio == <<charges, payments, left, till, audit, overtaken, late, excused>>

Total == -MaxTotal .. MaxTotal

Row(step, read, amount) == [step |-> step, charges |-> read, amount |-> amount]

Idle == Row("idle", 0, 0)

Till ==
  [step : {"idle", "owes", "again", "sum", "form", "leaving", "counted", "square"},
   charges : Total, amount : -2 * MaxTotal .. 2 * MaxTotal]

FolioInit ==
  /\ charges = 0 /\ payments = 0
  /\ left = FALSE
  /\ till = [c \in Cashiers |-> Idle]
  /\ audit = "idle"
  /\ overtaken = {}
  /\ late = FALSE /\ excused = FALSE

-----------------------------------------------------------------------------
(* Rows.                                                                   *)

At(c, step) == till[c].step = step

Goes(c, row) == till' = [till EXCEPT ![c] = row]

(* A credit that was there before, or comes about for a reason, is excused.*)
Excuse(reason) == excused' = (payments' > charges' /\ (excused \/ reason))

(* A check-out counts on the charges it has read, a proposal only on their *)
(* not getting less.                                                       *)
Charge(a) ==
  /\ charges + a \in Total
  /\ charges' = charges + a
  /\ overtaken' = overtaken \cup
       {c \in Cashiers : \/ At(c, "counted") \/ At(c, "square")
                         \/ a < 0 /\ (At(c, "sum") \/ At(c, "form"))}
  /\ late' = left
  /\ UNCHANGED payments
  /\ Excuse(a < 0)

Credit(a, reason) ==
  /\ payments + a \in Total
  /\ payments' = payments + a
  /\ overtaken' = overtaken \cup {c \in Cashiers : At(c, "square") \/ At(c, "form")}
  /\ late' = left
  /\ UNCHANGED charges
  /\ Excuse(reason)

(* The charge form and its offline counterpart: neither asks for the       *)
(* folio's status.  A discount is a charge below zero.                     *)
PostCharge ==
  /\ \E a \in Entries : Charge(a)
  /\ UNCHANGED <<left, till, audit>>

(* A payment taken offline, synced for the first time or again.            *)
SyncPayment ==
  /\ \E a \in Entries : Credit(a, TRUE)
  /\ UNCHANGED <<left, till, audit>>

-----------------------------------------------------------------------------
(* The payment form.  It asks for the balance twice: whether something is  *)
(* owed, and then how much, to propose it.                                 *)

Unhurried == UNCHANGED <<charges, payments, left, audit, late, excused>>

(* A form may be left unsent.                                              *)
Free(c) == At(c, "idle") \/ At(c, "form")

OpenForm(c) ==
  /\ Free(c)
  /\ Goes(c, Row("owes", charges, 0))
  /\ Unhurried /\ UNCHANGED overtaken

Owes(c) ==
  /\ At(c, "owes")
  /\ Goes(c, Row(IF till[c].charges - payments > 0 THEN "again" ELSE "form", 0, 0))
  /\ Unhurried /\ UNCHANGED overtaken

Again(c) ==
  /\ At(c, "again")
  /\ Goes(c, Row("sum", charges, 0))
  /\ overtaken' = overtaken \ {c}
  /\ Unhurried

(* Mutant: all that was ever charged is proposed.                          *)
ProposeTotal(c) ==
  /\ At(c, "sum")
  /\ Goes(c, Row("form", 0, till[c].charges))
  /\ Unhurried /\ UNCHANGED overtaken

Propose(c) ==
  /\ At(c, "sum")
  /\ Goes(c, Row("form", 0, till[c].charges - payments))
  /\ Unhurried /\ UNCHANGED overtaken

(* The amount is taken as proposed or as typed; 0 stands for no proposal.  *)
Pay(c) ==
  /\ At(c, "form")
  /\ \E a \in Entries \cup {till[c].amount} :
       Credit(a, a # till[c].amount \/ c \in overtaken)
  /\ Goes(c, Idle)
  /\ UNCHANGED <<left, audit>>

-----------------------------------------------------------------------------
(* Check-out.                                                              *)

FetchCheckOut(c) ==
  /\ Free(c)
  /\ ~left
  /\ Goes(c, Row("leaving", 0, 0))
  /\ Unhurried /\ UNCHANGED overtaken

CountCharges(c) ==
  /\ At(c, "leaving")
  /\ Goes(c, Row("counted", charges, 0))
  /\ overtaken' = overtaken \ {c}
  /\ Unhurried

(* Mutant: only a debt keeps the guest.                                    *)
CountDebt(c) ==
  /\ At(c, "counted")
  /\ Goes(c, Row(IF till[c].charges - payments > 0 THEN "idle" ELSE "square", 0, 0))
  /\ Unhurried /\ UNCHANGED overtaken

CountPayments(c) ==
  /\ At(c, "counted")
  /\ Goes(c, Row(IF till[c].charges - payments # 0 THEN "idle" ELSE "square", 0, 0))
  /\ Unhurried /\ UNCHANGED overtaken

Settle(c) ==
  /\ At(c, "square")
  /\ left' = TRUE
  /\ late' = (c \in overtaken)
  /\ Goes(c, Idle)
  /\ UNCHANGED <<charges, payments, audit, overtaken, excused>>

-----------------------------------------------------------------------------
(* The night audit, with a guest who was in house as it began.  It posts a *)
(* charge for each of the guest's rooms, whose rates are no less than zero,*)
(* and then applies the levy.                                              *)

(* Mutant: a folio without rooms is put aside.                             *)
AuditFetchRooms ==
  /\ audit = "idle"
  /\ ~left
  /\ audit' \in {"rooms", "aside"}
  /\ UNCHANGED <<charges, payments, left, till, overtaken, late, excused>>

AuditFetch ==
  /\ audit = "idle"
  /\ ~left
  /\ audit' \in {"rooms", "levy"}
  /\ UNCHANGED <<charges, payments, left, till, overtaken, late, excused>>

AuditPost ==
  /\ audit = "rooms"
  /\ \E a \in {e \in Entries : e >= 0} : Charge(a)
  /\ audit' \in {"rooms", "levy"}
  /\ UNCHANGED <<left, till>>

(* The levy is to be a charge of type TOURISM_LEVY, which FolioCharge does *)
(* not have: the lookup raises before anything is created, and the audit   *)
(* logs it and goes on.                                                    *)
ApplyLevy ==
  /\ audit = "levy"
  /\ audit' = "idle"
  /\ UNCHANGED <<charges, payments, left, till, overtaken, late, excused>>

-----------------------------------------------------------------------------
FolioNext ==
  \/ PostCharge \/ SyncPayment
  \/ \E c \in Cashiers :
       \/ OpenForm(c) \/ Owes(c) \/ Again(c) \/ Propose(c) \/ Pay(c)
       \/ FetchCheckOut(c) \/ CountCharges(c) \/ CountPayments(c) \/ Settle(c)
  \/ AuditFetch \/ AuditPost \/ ApplyLevy

FolioSpec == FolioInit /\ [][FolioNext]_folio

-----------------------------------------------------------------------------
FolioTypeOK ==
  /\ charges \in Total /\ payments \in Total
  /\ till \in [Cashiers -> Till]
  /\ audit \in {"idle", "rooms", "levy"}
  /\ overtaken \subseteq Cashiers
  /\ {left, late, excused} \subseteq BOOLEAN

(* The desk does not take money nobody owes by itself: a payment taken as  *)
(* the form proposes it never puts the folio in credit, although the       *)
(* balance it comes from is two queries and old by the time it is sent.    *)
(* Credit needs a discount, an amount somebody typed or synced, or a form  *)
(* that was overtaken: a payment since its balance was read, or a discount *)
(* since its charges were.                                                 *)
CreditIsExplained == payments > charges => excused

(* A guest leaves with the folio at zero, in neither debt nor credit, if   *)
(* nothing was charged since the check-out counted the charges and nothing *)
(* paid since it counted the payments: a payment between the two counts.   *)
DepartureIsPaid == left /\ ~late => charges = payments
=============================================================================
