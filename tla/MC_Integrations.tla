---------------------------- MODULE MC_Integrations ----------------------------
(* Two syncs of two operations, three server processes on one reference,   *)
(* two runs of two invoices, three refreshes, one message with its retries *)
(* and two webhooks, two clerks on one link, two people, two names and two *)
(* servers for signups, three sockets, three batches posted twice, and one *)
(* change to an account.                                                   *)
EXTENDS Integrations, TLC

Recorded ==
  {[stay |-> "CONF", ops |-> <<"in", "out", "begin", "finish">>],
   [stay |-> "CHIN", ops |-> <<"charge", "pay", "out">>],
   [stay |-> "CHIN", ops |-> <<"cash", "eis", "other">>]}

Symmetry == Permutations(People) \cup Permutations(Names) \cup Permutations(Desks)
=============================================================================
