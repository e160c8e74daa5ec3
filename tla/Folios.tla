------------------------------- MODULE Folios -------------------------------
(***************************************************************************)
(* The folio of a reservation.  Its balance is what the code computes from *)
(* the charge and payment rows each time it asks: the sum of the charges   *)
(* less the sum of the payments, in units of one charge.                   *)
(***************************************************************************)
EXTENDS Integers, Reservations

CONSTANT MaxBalance       \* bound: balances stay within -MaxBalance .. MaxBalance

ASSUME MaxBalanceAssumption == MaxBalance \in Nat

VARIABLES folio,          \* reservation -> "none", "OPEN" or "SETL"
          balance         \* reservation -> charges less payments

FolioStatus == {"none", "OPEN", "SETL"}

Capped(n) == IF n > MaxBalance THEN MaxBalance ELSE n

(* get_or_create at check-in. *)
NoFolioOpened(r) == folio' = folio
OpenFolio(r) == folio' = [folio EXCEPT ![r] = IF @ = "none" THEN "OPEN" ELSE @]

SettleFolio(r) == folio' = [folio EXCEPT ![r] = IF @ = "none" THEN @ ELSE "SETL"]

(* A charge or a payment is a new row.  Neither the views nor the offline  *)
(* handlers look at the folio's status: a settled folio takes both.        *)
ChargeFolio(r) ==
  /\ folio[r] # "none"
  /\ balance[r] < MaxBalance
  /\ balance' = [balance EXCEPT ![r] = @ + 1]

PayFolio(r) ==
  /\ folio[r] # "none"
  /\ balance[r] > -MaxBalance
  /\ balance' = [balance EXCEPT ![r] = @ - 1]
=============================================================================
