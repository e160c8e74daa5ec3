------------------------------ MODULE MC_Tenancy ------------------------------
(* A small office: three leases of one unit, two leases of two units, a     *)
(* lease of the unit for sale, or maintenance, which shares nothing with    *)
(* them.                                                                    *)
EXTENDS Tenancy, TLC

Desks ==
  {[desks |-> {"lettings"}, leases |-> 3, units |-> {ForSale}],
   [desks |-> {"lettings"}, leases |-> 2, units |-> Units],
   [desks |-> {"lettings", "sales"}, leases |-> 1, units |-> {ForSale}],
   [desks |-> {"repairs"}, leases |-> 0, units |-> {}]}

Symmetry == Permutations(Leases) \cup Permutations(Offers) \cup Permutations(Workers)
=============================================================================
