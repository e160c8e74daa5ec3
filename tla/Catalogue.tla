------------------------------- MODULE Catalogue -------------------------------
(***************************************************************************)
(* What a tenant's site shows to visitors: the list of properties, the page*)
(* of one property, the vacant rentals, and the home page with its own     *)
(* queries for all of them.  The pages are operators on the rows, which    *)
(* staff publish and hide while units are let, cleaned and sold.           *)
(***************************************************************************)
EXTENDS Naturals, FiniteSets

CONSTANTS Properties,   \* numbers, in the order of their names
          Units,        \* numbers, in the order they were created
          Layouts,      \* which properties are hotels, which units rentals, of which property
          Slots,        \* rows of a section of the home page: 6 in the code
          MaxPhotos     \* bound: photos of one property

ASSUME CatalogueAssumption ==
  /\ Properties \subseteq Nat /\ Units \subseteq Nat /\ IsFiniteSet(Units)
  /\ Layouts \subseteq [hotels : SUBSET Properties, rentals : SUBSET Units,
                       of : [Units -> Properties]]
  /\ Slots \in Nat \ {0} /\ MaxPhotos \in Nat

VARIABLES property,     \* property -> its row
          unit,         \* unit -> its row
          photos        \* property -> number of PropertyImage rows

site == <<property, unit, photos>>

Property == [hotel : BOOLEAN, active : BOOLEAN, public : BOOLEAN]
Unit == [of : Properties, rental : BOOLEAN, active : BOOLEAN, public : BOOLEAN,
         status : {"AVAIL", "other"}]

Laid(l) ==
  /\ property = [p \in Properties |->
                   [hotel |-> p \in l.hotels, active |-> TRUE, public |-> TRUE]]
  /\ unit = [u \in Units |->
               [of |-> l.of[u], rental |-> u \in l.rentals,
                active |-> TRUE, public |-> TRUE, status |-> "AVAIL"]]
  /\ photos = [p \in Properties |-> 0]

SiteInit == \E l \in Layouts : Laid(l)

-----------------------------------------------------------------------------
(* The list, before a search or its pages of twelve, and the page of one   *)
(* property.                                                               *)
Listed == {p \in Properties : property[p].active /\ property[p].public}

UnitCount(p) == Cardinality({u \in Units : unit[u].of = p /\ unit[u].active})

ListedFree(p) ==
  {u \in Units : /\ unit[u].of = p
                 /\ unit[u].active /\ unit[u].public /\ unit[u].status = "AVAIL"}

(* Units that are not public are on it all the same.                       *)
DetailFree(p) == {u \in Units : unit[u].of = p /\ unit[u].active /\ unit[u].status = "AVAIL"}
DetailTaken(p) == {u \in Units : unit[u].of = p /\ unit[u].active /\ unit[u].status # "AVAIL"}

(* The vacant rentals, likewise.                                           *)
Rentals ==
  {u \in Units : /\ unit[u].rental /\ unit[u].public /\ unit[u].active
                 /\ unit[u].status = "AVAIL"
                 /\ property[unit[u].of].active /\ property[unit[u].of].public}

-----------------------------------------------------------------------------
(* The home page, query by query.                                          *)

(* Units and photos are joined in one query: a free unit is counted once   *)
(* per photo, while the photos are counted as they are.                    *)
AvailableCount(p) ==
  Cardinality(ListedFree(p)) * (IF photos[p] = 0 THEN 1 ELSE photos[p])

Candidates ==
  {p \in Properties : /\ property[p].public /\ property[p].active /\ property[p].hotel
                      /\ AvailableCount(p) > 0}

(* Mutant: the count comes before the photos.                              *)
BeforeByCount(q, p) ==
  \/ AvailableCount(q) > AvailableCount(p)
  \/ /\ AvailableCount(q) = AvailableCount(p)
     /\ photos[q] > photos[p] \/ (photos[q] = photos[p] /\ q < p)

Before(q, p) ==
  \/ photos[q] > photos[p]
  \/ /\ photos[q] = photos[p]
     /\ \/ AvailableCount(q) > AvailableCount(p)
        \/ AvailableCount(q) = AvailableCount(p) /\ q < p

Featured ==
  {p \in Candidates : Cardinality({q \in Candidates : Before(q, p)}) < Slots}

(* The newest of what is the query of the rentals again.                   *)
HomeRentals ==
  {u \in Units : /\ unit[u].public /\ unit[u].active /\ unit[u].status = "AVAIL"
                 /\ unit[u].rental
                 /\ property[unit[u].of].active /\ property[unit[u].of].public}

RecentRentals ==
  {u \in HomeRentals : Cardinality({v \in HomeRentals : v > u}) < Slots}

RentCount ==
  Cardinality({u \in Units : /\ unit[u].public /\ unit[u].active
                             /\ unit[u].status = "AVAIL" /\ unit[u].rental
                             /\ property[unit[u].of].active /\ property[unit[u].of].public})

(* "Rooms available", whatever their status.                               *)
StayCount ==
  Cardinality({u \in Units : /\ unit[u].public /\ unit[u].active /\ ~unit[u].rental
                             /\ property[unit[u].of].active /\ property[unit[u].of].public})

-----------------------------------------------------------------------------
(* The admin pages of a property and of a unit.                            *)
EditProperty(p) ==
  /\ property' \in {[property EXCEPT ![p].active = ~@], [property EXCEPT ![p].public = ~@]}
  /\ UNCHANGED <<unit, photos>>

EditUnit(u) ==
  /\ unit' \in {[unit EXCEPT ![u].active = ~@], [unit EXCEPT ![u].public = ~@]}
  /\ UNCHANGED <<property, photos>>

(* The front desk, leases and sales.                                       *)
ChangeStatus(u) ==
  /\ unit' \in {[unit EXCEPT ![u].status = s] : s \in {"AVAIL", "other"} \ {unit[u].status}}
  /\ UNCHANGED <<property, photos>>

AddPhoto(p) ==
  /\ photos[p] < MaxPhotos
  /\ photos' = [photos EXCEPT ![p] = @ + 1]
  /\ UNCHANGED <<property, unit>>

RemovePhoto(p) ==
  /\ photos[p] > 0
  /\ photos' = [photos EXCEPT ![p] = @ - 1]
  /\ UNCHANGED <<property, unit>>

SiteNext ==
  \/ \E p \in Properties : EditProperty(p) \/ AddPhoto(p) \/ RemovePhoto(p)
  \/ \E u \in Units : EditUnit(u) \/ ChangeStatus(u)

SiteSpec == SiteInit /\ [][SiteNext]_site

-----------------------------------------------------------------------------
SiteTypeOK ==
  /\ property \in [Properties -> Property]
  /\ unit \in [Units -> Unit]
  /\ photos \in [Properties -> 0 .. MaxPhotos]

(* The hotels of the list that have free units, ranked by photos, then by  *)
(* how many units really are free, then by name.                           *)
Bookable == {p \in Listed : property[p].hotel /\ ListedFree(p) # {}}

Better(q, p) ==
  \/ photos[q] > photos[p]
  \/ /\ photos[q] = photos[p]
     /\ \/ Cardinality(ListedFree(q)) > Cardinality(ListedFree(p))
        \/ Cardinality(ListedFree(q)) = Cardinality(ListedFree(p)) /\ q < p

(* The home page agrees with the pages behind it, although it has queries  *)
(* of its own and its count of free units is too high: it features the     *)
(* best of the hotels that are listed and have free units, "photo count,   *)
(* then available rooms, then alphabetical"; the rentals on it are the     *)
(* newest of those on the Rentals tab, all of them if they fit, and their  *)
(* number is the tab's; a rental on the tab is one of the free units of a  *)
(* listed property; and a unit the list counts as free is free on the      *)
(* property's page, whose units are those the list counts.                 *)
PagesAgree ==
  /\ Featured = {p \in Bookable : Cardinality({q \in Bookable : Better(q, p)}) < Slots}
  /\ RecentRentals \subseteq Rentals /\ RentCount = Cardinality(Rentals)
  /\ \A u \in RecentRentals : \A v \in Rentals : v > u => v \in RecentRentals
  /\ RentCount <= Slots => RecentRentals = Rentals
  /\ \A u \in Rentals : unit[u].of \in Listed /\ u \in ListedFree(unit[u].of)
  /\ \A p \in Listed : /\ ListedFree(p) \subseteq DetailFree(p)
                       /\ UnitCount(p) = Cardinality(DetailFree(p) \cup DetailTaken(p))
=============================================================================
