----------------------------- MODULE MC_Billing -----------------------------
(* A subscription for TLC, on a short calendar that keeps the order of the  *)
(* program's lengths (7 days of terms, 14 of grace, 7 of notice, periods of *)
(* 30 days and more): whoever pays just in time not to be suspended does so *)
(* before the last task that could renew the period paid for.               *)
EXTENDS Billing

ASSUME CalendarInOrder ==
  /\ Notice > 0
  /\ Terms + Grace + 2 < Interval - 1
  /\ Grace + 1 < Renewal - 1
=============================================================================
