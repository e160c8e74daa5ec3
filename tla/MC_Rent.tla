------------------------------- MODULE MC_Rent -------------------------------
(* One lease: either one invoice with payments, charges and late fees, or   *)
(* the two invoices its period may get with a payment on one.               *)
EXTENDS Rent, TLC

Bounds == {[invoices |-> 1, received |-> 2, charged |-> 1],
           [invoices |-> 2, received |-> 1, charged |-> 0]}

NoMoney == {[invoices |-> 1, received |-> 0, charged |-> 0]}

Symmetry == Permutations(Workers)
=============================================================================
