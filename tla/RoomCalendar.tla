---------------------------- MODULE RoomCalendar ----------------------------
(***************************************************************************)
(* What the reservation system promises of its rooms, whoever works on it  *)
(* and in whatever order: a calendar in which every entry holds a room for *)
(* a holder from one date up to, and not including, another, and in which  *)
(* no two holders ever have the same room for the same night.  FrontDesk   *)
(* is shown to implement it.                                               *)
(***************************************************************************)
EXTENDS Integers

CONSTANTS Rooms,    \* what can be held
          Holders,  \* who can hold it
          Stays     \* the date ranges asked for, records [in |-> _, out |-> _]

VARIABLE booked     \* room -> the entries [holder |-> _, stay |-> _] of its page

(* Two half-open ranges share a night. *)
Overlap(s, t) == s.in < t.out /\ t.in < s.out

Entries == [holder : Holders, stay : Stays]

Init == booked = [u \in Rooms |-> {}]

(* Room u has no entry of another holder in stay s. *)
Free(u, h, s) == \A e \in booked[u] : e.holder = h \/ ~Overlap(e.stay, s)

(* h gives up what it holds and takes the rooms us for stay s, all free. *)
Hold(h, s, us) ==
  /\ \A u \in us : Free(u, h, s)
  /\ booked' = [u \in Rooms |->
                  {e \in booked[u] : e.holder # h}
                    \cup {e \in Entries : u \in us /\ e.holder = h /\ e.stay = s}]

(* The holders in hs give up what they hold. *)
Release(hs) == booked' = [u \in Rooms |-> {e \in booked[u] : e.holder \notin hs}]

Next == \/ \E h \in Holders, s \in Stays, us \in SUBSET Rooms : Hold(h, s, us)
        \/ \E hs \in SUBSET Holders : Release(hs)

Spec == Init /\ [][Next]_booked

-----------------------------------------------------------------------------
TypeOK == booked \in [Rooms -> SUBSET Entries]

(* No two holders have the same room for the same night. *)
NoSharedNight ==
  \A u \in Rooms : \A e, f \in booked[u] :
    e.holder # f.holder => ~Overlap(e.stay, f.stay)
=============================================================================
