------------------------------ MODULE Shopfront -------------------------------
(***************************************************************************)
(* What a customer of the house meets: the desk where the folio is paid,   *)
(* and the public site.  They share no state, so one behaviour is about    *)
(* one of the two.                                                         *)
(***************************************************************************)
EXTENDS FolioDesk, Catalogue

VARIABLE subject        \* the part this behaviour is about

vars == <<subject, folio, site>>

Init ==
  /\ subject \in {"folio", "site"}
  /\ FolioInit /\ SiteInit
  /\ subject = "folio" => Laid(CHOOSE l \in Layouts : TRUE)

Next ==
  \/ subject = "folio" /\ FolioNext /\ UNCHANGED <<subject, site>>
  \/ subject = "site" /\ SiteNext /\ UNCHANGED <<subject, folio>>

Spec == Init /\ [][Next]_vars

-----------------------------------------------------------------------------
(* Both parts keep their types.                                            *)
TypeOK == subject \in {"folio", "site"} /\ FolioTypeOK /\ SiteTypeOK
=============================================================================
