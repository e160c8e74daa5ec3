--------------------------- MODULE Catalogue_proofs ---------------------------
(***************************************************************************)
(* The pages of a site agree for any number of properties, units, photos   *)
(* and rows of a section.                                                  *)
(***************************************************************************)
EXTENDS FolioDesk_proofs, FiniteSetTheorems

-----------------------------------------------------------------------------
(* Type correctness.                                                       *)

LEMMA CatalogueStart == SiteInit => SiteTypeOK
  <1> SUFFICES ASSUME SiteInit PROVE SiteTypeOK
    OBVIOUS
  <1>1. PICK l \in Layouts :
          /\ property = [p \in Properties |->
                           [hotel |-> p \in l.hotels, active |-> TRUE, public |-> TRUE]]
          /\ unit = [u \in Units |->
                       [of |-> l.of[u], rental |-> u \in l.rentals,
                        active |-> TRUE, public |-> TRUE, status |-> "AVAIL"]]
    BY DEF SiteInit, Laid
  <1>2. l.of \in [Units -> Properties]
    BY CatalogueAssumption
  <1>3. ASSUME NEW p \in Properties
        PROVE  [hotel |-> p \in l.hotels, active |-> TRUE, public |-> TRUE] \in Property
    <2>1. (p \in l.hotels) \in BOOLEAN
      OBVIOUS
    <2> DEFINE b == p \in l.hotels
    <2>2. b \in BOOLEAN
      BY <2>1
    <2> HIDE DEF b
    <2>3. [hotel |-> b, active |-> TRUE, public |-> TRUE] \in Property
      BY <2>2 DEF Property
    <2>4. QED
      BY <2>3 DEF b
  <1>4. ASSUME NEW u \in Units
        PROVE  [of |-> l.of[u], rental |-> u \in l.rentals,
                active |-> TRUE, public |-> TRUE, status |-> "AVAIL"] \in Unit
    <2> DEFINE b == u \in l.rentals
    <2>1. b \in BOOLEAN
      OBVIOUS
    <2>2. l.of[u] \in Properties
      BY <1>2
    <2> HIDE DEF b
    <2>3. [of |-> l.of[u], rental |-> b, active |-> TRUE, public |-> TRUE,
           status |-> "AVAIL"] \in Unit
      BY <2>1, <2>2 DEF Unit
    <2>4. QED
      BY <2>3 DEF b
  <1>5. property \in [Properties -> Property]
    BY <1>1, <1>3
  <1>6. unit \in [Units -> Unit]
    BY <1>1, <1>4
  <1>7. photos \in [Properties -> 0 .. MaxPhotos]
    BY CatalogueAssumption DEF SiteInit, Laid
  <1>8. QED
    BY <1>5, <1>6, <1>7 DEF SiteTypeOK

LEMMA CatalogueStep == SiteTypeOK /\ [SiteNext]_site => SiteTypeOK'
  <1> SUFFICES ASSUME SiteTypeOK, [SiteNext]_site PROVE SiteTypeOK'
    OBVIOUS
  <1>1. ASSUME NEW p \in Properties, EditProperty(p)
        PROVE  SiteTypeOK'
    BY <1>1 DEF SiteTypeOK, EditProperty, Property
  <1>2. ASSUME NEW p \in Properties, AddPhoto(p) \/ RemovePhoto(p)
        PROVE  SiteTypeOK'
    BY <1>2, CatalogueAssumption DEF SiteTypeOK, AddPhoto, RemovePhoto
  <1>3. ASSUME NEW u \in Units, EditUnit(u) \/ ChangeStatus(u)
        PROVE  SiteTypeOK'
    <2>1. UNCHANGED <<property, photos>>
      BY <1>3 DEF EditUnit, ChangeStatus
    <2>2. CASE unit' = [unit EXCEPT ![u].active = ~@]
      BY <2>1, <2>2 DEF SiteTypeOK, Unit
    <2>3. CASE unit' = [unit EXCEPT ![u].public = ~@]
      BY <2>1, <2>3 DEF SiteTypeOK, Unit
    <2>4. ASSUME NEW s \in {"AVAIL", "other"}, unit' = [unit EXCEPT ![u].status = s]
          PROVE  SiteTypeOK'
      BY <2>1, <2>4 DEF SiteTypeOK, Unit
    <2>5. QED
      BY <1>3, <2>2, <2>3, <2>4 DEF EditUnit, ChangeStatus
  <1>4. CASE UNCHANGED site
    BY <1>4 DEF SiteTypeOK, site
  <1>5. QED
    BY <1>1, <1>2, <1>3, <1>4 DEF SiteNext

(* A step of the whole is one of the site, or leaves it alone.             *)
LEMMA SiteMoves == [Next]_vars => [SiteNext]_site
  BY DEF Next, vars, site

LEMMA SiteTypes == Spec => []SiteTypeOK
  <1>1. Init => SiteTypeOK
    BY CatalogueStart DEF Init
  <1>2. SiteTypeOK /\ [Next]_vars => SiteTypeOK'
    BY SiteMoves, CatalogueStep
  <1>3. QED
    BY <1>1, <1>2, PTL DEF Spec

LEMMA SubjectStays == Spec => [](subject \in {"folio", "site"})
  <1>1. Init => subject \in {"folio", "site"}
    BY DEF Init
  <1>2. subject \in {"folio", "site"} /\ [Next]_vars => (subject \in {"folio", "site"})'
    BY DEF Next, vars
  <1>3. QED
    BY <1>1, <1>2, PTL DEF Spec

(* The folio, the till and the audit keep their types, and so do the rows  *)
(* that staff edit.                                                        *)
THEOREM ShopfrontTypes == Spec => []TypeOK
  <1>1. FolioInv /\ SiteTypeOK /\ subject \in {"folio", "site"} => TypeOK
    BY DEF FolioInv, TypeOK
  <1>2. QED
    BY <1>1, FolioAlways, SiteTypes, SubjectStays, PTL

-----------------------------------------------------------------------------
(* The count of the home page ranks as the true count does.                *)

(* Multiplying by the same number of copies keeps the order of counts.     *)
LEMMA SameOrder ==
  ASSUME NEW a \in Nat, NEW b \in Nat, NEW k \in Nat \ {0}
  PROVE  /\ a * k > b * k <=> a > b
         /\ a * k = b * k <=> a = b
         /\ a * k > 0 <=> a > 0
  <1>1. ASSUME NEW m \in Nat, NEW n \in Nat, m > n
        PROVE  m * k > n * k
    <2>1. PICK d \in Nat \ {0} : m = n + d
      <3>1. m - n \in Nat \ {0} /\ m = n + (m - n)
        BY <1>1
      <3>2. QED
        BY <3>1
    <2>2. m * k = n * k + d * k
      BY <2>1
    <2>3. d * k > 0
      BY <2>1
    <2>4. n * k \in Nat /\ d * k \in Nat
      BY <2>1
    <2>5. QED
      BY <2>2, <2>3, <2>4
  <1>2. a * k \in Nat /\ b * k \in Nat /\ 0 * k = 0
    OBVIOUS
  <1>3. a > b => a * k > b * k
    BY <1>1
  <1>4. b > a => b * k > a * k
    BY <1>1
  <1>5. a > 0 => a * k > 0
    BY <1>1, <1>2
  <1>6. QED
    BY <1>2, <1>3, <1>4, <1>5

LEMMA FreeIsFinite ==
  ASSUME NEW p
  PROVE  /\ IsFiniteSet(ListedFree(p)) /\ Cardinality(ListedFree(p)) \in Nat
         /\ Cardinality(ListedFree(p)) > 0 <=> ListedFree(p) # {}
  <1>1. ListedFree(p) \subseteq Units
    BY DEF ListedFree
  <1>2. IsFiniteSet(ListedFree(p))
    BY <1>1, CatalogueAssumption, FS_Subset
  <1>3. Cardinality(ListedFree(p)) \in Nat
    BY <1>2, FS_CardinalityType
  <1>4. Cardinality(ListedFree(p)) = 0 <=> ListedFree(p) = {}
    BY <1>2, FS_EmptySet
  <1>5. QED
    BY <1>2, <1>3, <1>4

LEMMA PhotosAreNat ==
  ASSUME SiteTypeOK, NEW p \in Properties
  PROVE  photos[p] \in Nat
  BY CatalogueAssumption DEF SiteTypeOK

LEMMA CandidatesAreBookable ==
  ASSUME SiteTypeOK
  PROVE  Candidates = Bookable
  <1>1. ASSUME NEW p \in Properties
        PROVE  AvailableCount(p) > 0 <=> ListedFree(p) # {}
    <2> DEFINE k == IF photos[p] = 0 THEN 1 ELSE photos[p]
    <2>1. k \in Nat \ {0}
      BY PhotosAreNat
    <2>2. AvailableCount(p) = Cardinality(ListedFree(p)) * k
      BY DEF AvailableCount
    <2>3. Cardinality(ListedFree(p)) \in Nat
      BY FreeIsFinite
    <2> HIDE DEF k
    <2>4. Cardinality(ListedFree(p)) * k > 0 <=> Cardinality(ListedFree(p)) > 0
      BY <2>1, <2>3, SameOrder
    <2>5. QED
      BY <2>2, <2>4, FreeIsFinite
  <1>2. QED
    BY <1>1 DEF Candidates, Bookable, Listed

LEMMA BeforeIsBetter ==
  ASSUME SiteTypeOK, NEW p \in Properties, NEW q \in Properties
  PROVE  Before(q, p) <=> Better(q, p)
  <1>1. CASE photos[q] # photos[p]
    BY <1>1 DEF Before, Better
  <1>2. CASE photos[q] = photos[p]
    <2> DEFINE k == IF photos[p] = 0 THEN 1 ELSE photos[p]
               n == Cardinality(ListedFree(p))
               m == Cardinality(ListedFree(q))
    <2>1. k \in Nat \ {0}
      BY PhotosAreNat
    <2>2. AvailableCount(p) = n * k /\ AvailableCount(q) = m * k
      BY <1>2 DEF AvailableCount
    <2>3. n \in Nat /\ m \in Nat
      BY FreeIsFinite
    <2>4. (m * k > n * k <=> m > n) /\ (m * k = n * k <=> m = n)
      <3> HIDE DEF k, m, n
      <3>1. QED
        BY <2>1, <2>3, SameOrder
    <2>5. (AvailableCount(q) > AvailableCount(p) <=> m > n)
          /\ (AvailableCount(q) = AvailableCount(p) <=> m = n)
      BY <2>2, <2>4
    <2>6. QED
      BY <2>5 DEF Before, Better
  <1>3. QED
    BY <1>1, <1>2

LEMMA FeaturedAreBest ==
  ASSUME SiteTypeOK
  PROVE  Featured = {p \in Bookable : Cardinality({q \in Bookable : Better(q, p)}) < Slots}
  <1>1. Candidates = Bookable /\ Bookable \subseteq Properties
    BY CandidatesAreBookable DEF Bookable, Listed
  <1>2. ASSUME NEW p \in Bookable
        PROVE  {q \in Candidates : Before(q, p)} = {q \in Bookable : Better(q, p)}
    BY <1>1, BeforeIsBetter
  <1>3. QED
    BY <1>1, <1>2 DEF Featured

-----------------------------------------------------------------------------
(* The rentals.                                                            *)

LEMMA RentalsAreFinite == IsFiniteSet(Rentals) /\ Rentals \subseteq Units
  BY CatalogueAssumption, FS_Subset DEF Rentals

LEMMA TabAndHome ==
  /\ HomeRentals = Rentals /\ RecentRentals \subseteq Rentals
  /\ RentCount = Cardinality(Rentals)
  <1>1. HomeRentals = Rentals
    BY DEF HomeRentals, Rentals
  <1>2. RecentRentals \subseteq Rentals
    BY <1>1 DEF RecentRentals
  <1>3. {u \in Units : /\ unit[u].public /\ unit[u].active
                       /\ unit[u].status = "AVAIL" /\ unit[u].rental
                       /\ property[unit[u].of].active /\ property[unit[u].of].public} = Rentals
    BY DEF Rentals
  <1>4. RentCount = Cardinality(Rentals)
    BY <1>3 DEF RentCount
  <1>5. QED
    BY <1>1, <1>2, <1>4

(* What is newer than the newer of two is newer than the other.            *)
LEMMA NewerAreShown ==
  ASSUME NEW u \in RecentRentals, NEW v \in Rentals, v > u
  PROVE  v \in RecentRentals
  <1> DEFINE newerU == {w \in Rentals : w > u}
             newerV == {w \in Rentals : w > v}
  <1>1. Rentals \subseteq Nat /\ u \in Rentals
    BY RentalsAreFinite, TabAndHome, CatalogueAssumption
  <1>2. newerV \subseteq newerU
    <2>1. ASSUME NEW w \in Rentals, w > v
          PROVE  w > u
      <3>1. w \in Nat /\ v \in Nat /\ u \in Nat
        BY <1>1
      <3>2. QED
        BY <2>1, <3>1
    <2>2. QED
      BY <2>1
  <1>3. IsFiniteSet(newerU)
    BY RentalsAreFinite, FS_Subset
  <1>4. Cardinality(newerV) <= Cardinality(newerU)
    BY <1>2, <1>3, FS_Subset
  <1>5. Cardinality(newerU) \in Nat /\ Cardinality(newerV) \in Nat
    BY <1>2, <1>3, FS_Subset, FS_CardinalityType
  <1>6. Cardinality(newerU) < Slots
    BY TabAndHome DEF RecentRentals
  <1> HIDE DEF newerU
  <1>7. Cardinality(newerV) < Slots
    BY <1>4, <1>5, <1>6, CatalogueAssumption
  <1>8. QED
    BY <1>7, TabAndHome DEF RecentRentals

LEMMA AllShownIfTheyFit ==
  ASSUME RentCount <= Slots
  PROVE  RecentRentals = Rentals
  <1>1. ASSUME NEW u \in Rentals
        PROVE  Cardinality({v \in Rentals : v > u}) < Slots
    <2> DEFINE newer == {v \in Rentals : v > u}
    <2>1. newer \subseteq Rentals /\ newer # Rentals
      <3>1. Rentals \subseteq Nat
        BY RentalsAreFinite, CatalogueAssumption
      <3>2. u \notin newer
        BY <3>1
      <3>3. QED
        BY <3>2
    <2>2. /\ IsFiniteSet(newer) /\ Cardinality(newer) <= Cardinality(Rentals)
          /\ Cardinality(newer) # Cardinality(Rentals)
      BY <2>1, RentalsAreFinite, FS_Subset
    <2>3. Cardinality(newer) \in Nat /\ Cardinality(Rentals) \in Nat
      BY <2>2, RentalsAreFinite, FS_CardinalityType
    <2>4. Cardinality(Rentals) <= Slots
      BY TabAndHome
    <2> HIDE DEF newer
    <2>5. Cardinality(newer) < Slots
      BY <2>2, <2>3, <2>4, CatalogueAssumption
    <2>6. QED
      BY <2>5 DEF newer
  <1>2. QED
    BY <1>1, TabAndHome DEF RecentRentals

LEMMA RentalsAreListed ==
  ASSUME SiteTypeOK, NEW u \in Rentals
  PROVE  unit[u].of \in Listed /\ u \in ListedFree(unit[u].of)
  <1>1. u \in Units /\ unit[u].of \in Properties
    BY DEF SiteTypeOK, Rentals, Unit
  <1>2. QED
    BY <1>1 DEF Rentals, Listed, ListedFree

-----------------------------------------------------------------------------
LEMMA AgreeNow == SiteTypeOK => PagesAgree
  <1> SUFFICES ASSUME SiteTypeOK PROVE PagesAgree
    OBVIOUS
  <1>1. Featured = {p \in Bookable : Cardinality({q \in Bookable : Better(q, p)}) < Slots}
    BY FeaturedAreBest
  <1>2. RecentRentals \subseteq Rentals /\ RentCount = Cardinality(Rentals)
    BY TabAndHome
  <1>3. \A u \in RecentRentals : \A v \in Rentals : v > u => v \in RecentRentals
    BY NewerAreShown
  <1>4. RentCount <= Slots => RecentRentals = Rentals
    BY AllShownIfTheyFit
  <1>5. \A u \in Rentals : unit[u].of \in Listed /\ u \in ListedFree(unit[u].of)
    BY RentalsAreListed
  <1>6. \A p \in Listed : ListedFree(p) \subseteq DetailFree(p)
    BY DEF ListedFree, DetailFree
  <1>7. ASSUME NEW p \in Listed
        PROVE  UnitCount(p) = Cardinality(DetailFree(p) \cup DetailTaken(p))
    <2>1. {u \in Units : unit[u].of = p /\ unit[u].active} = DetailFree(p) \cup DetailTaken(p)
      BY DEF DetailFree, DetailTaken
    <2>2. QED
      BY <2>1 DEF UnitCount
  <1>8. QED
    BY <1>1, <1>2, <1>3, <1>4, <1>5, <1>6, <1>7 DEF PagesAgree

(* The home page agrees with the pages behind it: although a free unit is  *)
(* counted once per photo, it features the hotels that rank first by what  *)
(* really is free, and its rentals are the newest of the Rentals tab.      *)
THEOREM HomeAgrees == Spec => []PagesAgree
  BY SiteTypes, AgreeNow, PTL
=============================================================================
