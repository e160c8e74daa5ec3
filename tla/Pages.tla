--------------------------------- MODULE Pages ---------------------------------
(***************************************************************************)
(* The pages of the two sites, the public one and a tenant's, and what     *)
(* they answer: a page, a refusal, an error, or a redirect.  Every request *)
(* passes RequireTenantSetupMiddleware, ForceTwoFactorMiddleware and the   *)
(* mixins of the view, each of which may redirect on its own.  One person  *)
(* browses, with a session on each site, while an administrator may change *)
(* the account between any two requests.                                   *)
(***************************************************************************)
EXTENDS Naturals

CONSTANT MaxChanges     \* bound: changes to the account

PagesAssumption == MaxChanges \in Nat

VARIABLES account,      \* the rows of the person, and of the subscription
          signedIn,     \* the sites with a session
          at,           \* the page asked for
          trail,        \* the pages that led there by redirects
          answer,       \* what the last request was answered
          changes,
          muddled       \* history: the account changed along the trail

vars == <<account, signedIn, at, trail, answer, changes, muddled>>

Sites == {"public", "tenant"}

(* The pages, by kind, and where each is mounted.                          *)
Everywhere == {"login", "signup", "complete", "success", "mfa", "admin", "platform"}
TenantOnly == {"home", "dashboard", "staff", "billing"}
Page == ({"public"} \X (Everywhere \cup {"public_home"}))
          \cup ({"tenant"} \X (Everywhere \cup TenantOnly))

Account == [admin : BOOLEAN, staff : BOOLEAN, mfa : BOOLEAN,
            member : {"none", "active", "inactive"}, suspended : BOOLEAN]

Init ==
  /\ account \in Account
  /\ signedIn = {}
  /\ at \in Page
  /\ trail = {}
  /\ answer = "asked"
  /\ changes = 0
  /\ muddled = FALSE

SetupExemptButSignup == {"login", "mfa", "admin"}

(* By prefix: /signup/, /accounts/ and /admin/.                            *)
SetupExempt == {"signup", "complete", "success", "login", "mfa", "admin"}

(* RequireTenantSetupMiddleware; any membership will do.                   *)
NeedsSetup(site, page) ==
  /\ site \in signedIn /\ ~account.admin
  /\ page \notin SetupExempt
  /\ account.member = "none"

(* ForceTwoFactorMiddleware; of /accounts/ only /accounts/2fa/ is exempt.  *)
NeedsMfa(site, page) ==
  /\ site = "public" /\ site \in signedIn /\ account.admin
  /\ page # "mfa"
  /\ ~account.mfa

Home(site) == IF site = "public" THEN <<site, "public_home">> ELSE <<site, "home">>
Show == [kind |-> "shown"]
Refuse == [kind |-> "refused"]
Fail == [kind |-> "failed"]
Redirect(page) == [kind |-> "redirect", to |-> page]

(* PublicSchemaOnlyMixin on a tenant's site.                               *)
TurnedAway(site) ==
  IF site \in signedIn THEN Redirect(<<site, "home">>) ELSE Redirect(<<site, "login">>)

(* The views, after the middleware.  redirect('home') has no such name on  *)
(* the public site.                                                        *)
Login(site) == IF site \in signedIn THEN Redirect(Home(site)) ELSE Show

SecondFactor(site) == IF site \in signedIn THEN Show ELSE Redirect(<<site, "login">>)

Signup(site) == IF site = "public" THEN Show ELSE TurnedAway(site)

Complete(site) ==
  CASE site \in signedIn /\ account.member # "none" ->
         IF site = "public" THEN Fail ELSE Redirect(<<site, "home">>)
    [] OTHER ->
         IF site = "tenant" THEN TurnedAway(site)
         ELSE IF site \in signedIn THEN Show ELSE Redirect(<<site, "login">>)

Platform(site) ==
  CASE site = "tenant" -> TurnedAway(site)
    [] site = "public" /\ site \notin signedIn -> Redirect(<<site, "login">>)
    [] OTHER -> IF account.admin THEN Show ELSE Refuse

PublicHome ==
  CASE "public" \notin signedIn -> Show
    [] "public" \in signedIn /\ account.admin -> Redirect(<<"public", "admin">>)
    [] OTHER ->
         IF account.member = "active" THEN Redirect(<<"tenant", "home">>) ELSE Show

TenantHome ==
  IF "tenant" \in signedIn /\ account.staff THEN Redirect(<<"tenant", "dashboard">>) ELSE Show

BillingPage == IF "tenant" \in signedIn THEN Show ELSE Redirect(<<"tenant", "login">>)

(* TenantStaffRequiredMixin: the subscription is looked at first.          *)
StaffPage ==
  LET in == "tenant" \in signedIn IN
  CASE account.suspended /\ ~(in /\ account.admin) -> Redirect(<<"tenant", "billing">>)
    [] ~account.suspended /\ ~in -> Redirect(<<"tenant", "login">>)
    [] OTHER -> IF account.staff THEN Show ELSE Refuse

View(site, page) ==
  CASE page = "login" -> Login(site)
    [] page = "mfa" -> SecondFactor(site)
    [] page \in {"signup", "success"} -> Signup(site)
    [] page = "complete" -> Complete(site)
    [] page = "platform" -> Platform(site)
    [] page = "public_home" -> PublicHome
    [] page = "home" -> TenantHome
    [] page = "billing" -> BillingPage
    [] page = "staff" -> StaffPage
    [] OTHER -> Show       \* the admin, and the dashboard

Answer(site, page) ==
  CASE NeedsSetup(site, page) -> Redirect(<<site, "complete">>)
    [] ~NeedsSetup(site, page) /\ NeedsMfa(site, page) -> Redirect(<<site, "mfa">>)
    [] OTHER -> View(site, page)

-----------------------------------------------------------------------------
(* The person opens a page of their own accord.                            *)
Open(page) ==
  /\ answer # "asked"
  /\ at' = page
  /\ trail' = {}
  /\ answer' = "asked"
  /\ muddled' = FALSE
  /\ UNCHANGED <<account, signedIn, changes>>

(* One request; the browser follows a redirect at once.                    *)
Follow ==
  LET a == Answer(at[1], at[2]) IN
  /\ answer = "asked"
  /\ IF a.kind = "redirect"
       THEN at' = a.to /\ trail' = trail \cup {at} /\ UNCHANGED answer
       ELSE answer' = a.kind /\ UNCHANGED <<at, trail>>
  /\ UNCHANGED <<account, signedIn, changes, muddled>>

(* Signing in from the login form; a tenant's site takes members only.     *)
SignIn ==
  /\ answer = "shown" /\ at[2] = "login"
  /\ at[1] = "public" \/ account.admin \/ account.member = "active"
  /\ signedIn' = signedIn \cup {at[1]}
  /\ at' = Home(at[1])
  /\ trail' = {}
  /\ answer' = "asked"
  /\ muddled' = FALSE
  /\ UNCHANGED <<account, changes>>

SignOut ==
  /\ answer # "asked"
  /\ \E site \in signedIn : signedIn' = signedIn \ {site}
  /\ UNCHANGED <<account, at, trail, answer, changes, muddled>>

(* The forms at the end of the two ways: a workspace of one's own, and a   *)
(* second factor.                                                          *)
Finish ==
  /\ answer = "shown"
  /\ \/ /\ at = <<"public", "complete">> /\ account.member = "none"
        /\ account' = [account EXCEPT !.member = "active"]
        /\ at' = <<"public", "success">>
     \/ /\ at[2] = "mfa" /\ ~account.mfa
        /\ account' = [account EXCEPT !.mfa = TRUE]
        /\ UNCHANGED at
  /\ trail' = {}
  /\ answer' = "asked"
  /\ muddled' = FALSE
  /\ UNCHANGED <<signedIn, changes>>

(* The user and membership pages of the admin, and the billing tasks.      *)
Change ==
  /\ changes < MaxChanges
  /\ changes' = changes + 1
  /\ account' \in Account \ {account}
  /\ muddled' = (muddled \/ answer = "asked")
  /\ UNCHANGED <<signedIn, at, trail, answer>>

Next == (\E page \in Page : Open(page)) \/ Follow \/ SignIn \/ SignOut \/ Finish \/ Change

Spec == Init /\ [][Next]_vars

-----------------------------------------------------------------------------
TypeOK ==
  /\ account \in Account
  /\ signedIn \subseteq Sites
  /\ at \in Page
  /\ trail \subseteq Page
  /\ answer \in {"asked", "shown", "refused", "failed"}
  /\ changes \in 0 .. MaxChanges
  /\ muddled \in BOOLEAN

(* A session on a tenant's site whose owner has no membership at all.      *)
Orphan == "tenant" \in signedIn /\ ~account.admin /\ account.member = "none"

(* The middleware redirects "until they finish provisioning".  Whoever the *)
(* person is and wherever they start, redirects do not lead back to a page *)
(* they came from, unless the account changed on the way or its owner lost *)
(* the last membership while signed in on a tenant's site.                 *)
RedirectsEnd == at \notin trail \/ muddled \/ Orphan
=============================================================================
