------------------------------- MODULE Accounts -------------------------------
(***************************************************************************)
(* Workspaces and who belongs to them.  A workspace is made by the e-mail  *)
(* signup (tenant, user and membership in one transaction), by somebody    *)
(* who came through Google (the tenant in one transaction, the membership  *)
(* after it) or by the platform (without members).  The platform edits,    *)
(* suspends and deletes it; members log in to it.  The forms check names   *)
(* before the transaction, which checks them again.                        *)
(***************************************************************************)
EXTENDS Naturals, FiniteSets

CONSTANTS People,       \* e-mail addresses
          Names,        \* subdomains, which are also the schema names
          Desks         \* server processes

VARIABLES tenant,       \* name -> the tenant's row
          users,        \* people with an account
          member,       \* <<person, name>> -> the membership's row
          at,           \* person -> where the session is
          desk,         \* process -> what it is doing
          unmanned,     \* history: tenants that nobody was meant to join, or
                        \* whose maker's request died
          doubled       \* history: people who completed two signups at once

vars == <<tenant, users, member, at, desk, unmanned, doubled>>

TenantState == {"none", "active", "inactive"}
MemberState == {"none", "active", "inactive"}
Idle == [kind |-> "idle"]
Desk ==
  {Idle} \cup [kind : {"signup", "complete", "join"}, who : People, name : Names]
         \cup [kind : {"create"}, name : Names]
         \cup [kind : {"edit"}, name : Names, is_active : {"active", "inactive"}]

Init ==
  /\ tenant = [n \in Names |-> "none"]
  /\ users = {}
  /\ member = [m \in People \X Names |-> "none"]
  /\ at = [p \in People |-> "out"]
  /\ desk = [d \in Desks |-> Idle]
  /\ unmanned = {}
  /\ doubled = {}

Starts(d, r) == desk' = [desk EXCEPT ![d] = r]
Ends(d) == desk' = [desk EXCEPT ![d] = Idle]

Memberships(p) == {n \in Names : member[p, n] # "none"}
Completing(d, p) ==
  \E e \in Desks \ {d} : desk[e].kind \in {"complete", "join"} /\ desk[e].who = p

-----------------------------------------------------------------------------
(* Signup with e-mail and password.                                        *)

FetchSignup(d, p, n) ==
  /\ desk[d] = Idle
  /\ tenant[n] = "none" /\ p \notin users
  /\ Starts(d, [kind |-> "signup", who |-> p, name |-> n])
  /\ UNCHANGED <<tenant, users, member, at, unmanned, doubled>>

(* The unique columns refuse a name or an address that was taken since;    *)
(* the whole transaction is rolled back and the form shows the error.      *)
Refused(d) ==
  /\ desk[d].kind \in {"signup", "complete", "create"}
  /\ \/ tenant[desk[d].name] # "none"
     \/ desk[d].kind = "signup" /\ desk[d].who \in users
  /\ Ends(d)
  /\ UNCHANGED <<tenant, users, member, at, unmanned, doubled>>

ProvisionWithoutMember(d) ==
  /\ desk[d].kind = "signup"
  /\ tenant[desk[d].name] = "none" /\ desk[d].who \notin users
  /\ tenant' = [tenant EXCEPT ![desk[d].name] = "active"]
  /\ users' = users \cup {desk[d].who}
  /\ Ends(d)
  /\ UNCHANGED <<member, at, unmanned, doubled>>

(* provision_tenant with an administrator: all of it or nothing.           *)
Provision(d) ==
  /\ desk[d].kind = "signup"
  /\ tenant[desk[d].name] = "none" /\ desk[d].who \notin users
  /\ tenant' = [tenant EXCEPT ![desk[d].name] = "active"]
  /\ users' = users \cup {desk[d].who}
  /\ member' = [member EXCEPT ![<<desk[d].who, desk[d].name>>] = "active"]
  /\ Ends(d)
  /\ UNCHANGED <<at, unmanned, doubled>>

-----------------------------------------------------------------------------
(* Signup through Google.                                                  *)

(* A first sign-in makes the user; the session stays on the public site.   *)
SignIn(p) ==
  /\ at[p] = "out"
  /\ users' = users \cup {p}
  /\ at' = [at EXCEPT ![p] = "public"]
  /\ UNCHANGED <<tenant, member, desk, unmanned, doubled>>

(* Who has any membership is sent home instead.                            *)
FetchComplete(d, p, n) ==
  /\ desk[d] = Idle
  /\ at[p] = "public" /\ Memberships(p) = {}
  /\ tenant[n] = "none"
  /\ Starts(d, [kind |-> "complete", who |-> p, name |-> n])
  /\ doubled' = IF Completing(d, p) THEN doubled \cup {p} ELSE doubled
  /\ UNCHANGED <<tenant, users, member, at, unmanned>>

(* provision_tenant without an administrator, for the completion and for   *)
(* the platform.                                                           *)
ProvisionBare(d) ==
  /\ desk[d].kind \in {"complete", "create"}
  /\ tenant[desk[d].name] = "none"
  /\ tenant' = [tenant EXCEPT ![desk[d].name] = "active"]
  /\ IF desk[d].kind = "complete"
       THEN Starts(d, [desk[d] EXCEPT !.kind = "join"]) /\ UNCHANGED unmanned
       ELSE Ends(d) /\ unmanned' = unmanned \cup {desk[d].name}
  /\ UNCHANGED <<users, member, at, doubled>>

(* A second statement, after that transaction.                             *)
Join(d) ==
  /\ desk[d].kind = "join"
  /\ member' = [member EXCEPT ![<<desk[d].who, desk[d].name>>] = "active"]
  /\ Ends(d)
  /\ UNCHANGED <<tenant, users, at, unmanned, doubled>>

Dies(d) ==
  /\ desk[d] # Idle
  /\ unmanned' = IF desk[d].kind = "join" THEN unmanned \cup {desk[d].name} ELSE unmanned
  /\ Ends(d)
  /\ UNCHANGED <<tenant, users, member, at, doubled>>

-----------------------------------------------------------------------------
(* The platform.                                                           *)

FetchCreate(d, n) ==
  /\ desk[d] = Idle
  /\ tenant[n] = "none"
  /\ Starts(d, [kind |-> "create", name |-> n])
  /\ UNCHANGED <<tenant, users, member, at, unmanned, doubled>>

FetchEdit(d, n) ==
  /\ desk[d] = Idle
  /\ tenant[n] # "none"
  /\ Starts(d, [kind |-> "edit", name |-> n, is_active |-> tenant[n]])
  /\ UNCHANGED <<tenant, users, member, at, unmanned, doubled>>

(* The form carries is_active as it was shown.                             *)
SaveEdit(d) ==
  /\ desk[d].kind = "edit"
  /\ tenant' = [tenant EXCEPT ![desk[d].name] = desk[d].is_active]
  /\ Ends(d)
  /\ UNCHANGED <<users, member, at, unmanned, doubled>>

(* Suspend and reactivate look at nothing but the row's existence.         *)
Deprovision(n) ==
  /\ tenant[n] # "none"
  /\ tenant' = [tenant EXCEPT ![n] = "inactive"]
  /\ UNCHANGED <<users, member, at, desk, unmanned, doubled>>

Reactivate(n) ==
  /\ tenant[n] # "none"
  /\ tenant' = [tenant EXCEPT ![n] = "active"]
  /\ UNCHANGED <<users, member, at, desk, unmanned, doubled>>

(* The schema is dropped and the memberships go with the row; the users    *)
(* stay, the site no longer answers.  A form that edits the tenant is a    *)
(* 404 and a membership that is about to be added refers to nothing.       *)
Delete(n) ==
  /\ tenant[n] # "none"
  /\ tenant' = [tenant EXCEPT ![n] = "none"]
  /\ member' = [m \in People \X Names |-> IF m[2] = n THEN "none" ELSE member[m]]
  /\ at' = [p \in People |-> IF at[p] = n THEN "out" ELSE at[p]]
  /\ desk' = [d \in Desks |->
                IF desk[d].kind \in {"join", "edit"} /\ desk[d].name = n THEN Idle ELSE desk[d]]
  /\ unmanned' = unmanned \ {n}
  /\ UNCHANGED <<users, doubled>>

-----------------------------------------------------------------------------
(* Members.                                                                *)

(* An active membership is asked for when the session starts; whether the  *)
(* tenant is active is not.                                                *)
Login(p, n) ==
  /\ at[p] = "out" /\ p \in users
  /\ tenant[n] # "none" /\ member[p, n] = "active"
  /\ at' = [at EXCEPT ![p] = n]
  /\ UNCHANGED <<tenant, users, member, desk, unmanned, doubled>>

Logout(p) ==
  /\ at[p] # "out"
  /\ at' = [at EXCEPT ![p] = "out"]
  /\ UNCHANGED <<tenant, users, member, desk, unmanned, doubled>>

(* The membership admin.  The row's unique key keeps one per pair.         *)
SetMembership(p, n) ==
  /\ p \in users /\ tenant[n] # "none"
  /\ member[p, n] # "none"
  /\ \E state \in {"active", "inactive"} : member' = [member EXCEPT ![<<p, n>>] = state]
  /\ UNCHANGED <<tenant, users, at, desk, unmanned, doubled>>

Next ==
  \/ \E d \in Desks :
       \/ Refused(d) \/ Provision(d) \/ ProvisionBare(d) \/ Join(d) \/ Dies(d) \/ SaveEdit(d)
       \/ \E n \in Names :
            \/ FetchCreate(d, n) \/ FetchEdit(d, n)
            \/ \E p \in People : FetchSignup(d, p, n) \/ FetchComplete(d, p, n)
  \/ \E n \in Names : Deprovision(n) \/ Reactivate(n) \/ Delete(n)
  \/ \E p \in People :
       \/ SignIn(p) \/ Logout(p)
       \/ \E n \in Names : Login(p, n) \/ SetMembership(p, n)

Spec == Init /\ [][Next]_vars

-----------------------------------------------------------------------------
TypeOK ==
  /\ tenant \in [Names -> TenantState]
  /\ users \subseteq People
  /\ member \in [People \X Names -> MemberState]
  /\ at \in [People -> {"out", "public"} \cup Names]
  /\ desk \in [Desks -> Desk]
  /\ unmanned \subseteq Names
  /\ doubled \subseteq People

(* "Signup flows MUST create a membership at the same time they create the *)
(* tenant" (adapters.py): a tenant that somebody signed up for has a       *)
(* member, nobody without an account is one, and a person has one tenant,  *)
(* unless the platform made it, a completion died half way or is still at  *)
(* it, or the person completed two at once.                                *)
SignupsMakeOneTenant ==
  /\ \A n \in Names :
       \/ tenant[n] = "none" \/ n \in unmanned
       \/ \E d \in Desks : desk[d].kind = "join" /\ desk[d].name = n
       \/ \E p \in users : member[p, n] # "none"
  /\ \A p \in People : Cardinality(Memberships(p)) > 1 => p \in doubled
=============================================================================
