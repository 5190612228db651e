------------------------ MODULE SubscriptionOwnership ------------------------
(***************************************************************************)
(* Who owns an Apple subscription: client verifications, claims, account   *)
(* deletions and App Store notifications running concurrently against the  *)
(* tables users, guest_identities, guest_sessions and apple_transactions.  *)
(*                                                                         *)
(* One action is one database transaction (OwnershipLocking justifies the  *)
(* atomicity with the locks the code takes).  What the code reads in an    *)
(* earlier transaction and uses in a later one is kept in the variable of  *)
(* the request, and may be stale by then: the authenticated caller of an   *)
(* endpoint, and the owner a notification was resolved to by up to three   *)
(* separate lookups.                                                       *)
(*                                                                         *)
(* From the row of a transaction this module keeps its owner and whether   *)
(* it is revoked (AppleLedger says how revocation evolves).                *)
(***************************************************************************)
EXTENDS FiniteSets

CONSTANTS Users, Guests, Tx, Original, Nobody,
          Undated,   \* transactions Apple sends without an expiration date
          Clients    \* concurrent client requests

ASSUME OwnershipAssumption ==
  /\ Users \cap Guests = {}
  /\ Nobody \notin Users \cup Guests
  /\ Undated \subseteq Tx

VARIABLES live, claimedBy, owner, \* as in OwnershipPromise
          session,  \* guests whose session is neither revoked nor expired
          revoked,  \* transactions whose row has a revocation date
          bought,   \* bought[t]: whose app account token t carries
          request,  \* request[c]: what the handler of client c works on
          delivery  \* delivery[t]: the handler of t's notification

vars == <<live, claimedBy, owner, session, revoked, bought, request, delivery>>
tables == <<live, claimedBy, owner, session, revoked>>

Owners == Users \cup Guests
Idle   == [kind |-> "idle"]

Request ==
  [kind: {"verify"}, owner: Owners, tx: Tx]
    \cup [kind: {"claim"}, owner: Users, guest: Guests]
    \cup [kind: {"delete"}, owner: Users]
    \cup {Idle}

Delivery ==
  [step: {"waiting", "transaction", "original", "token", "resolved"},
   found: SUBSET Owners]

Waiting == [step |-> "waiting", found |-> {}]

TypeOK ==
  /\ live \subseteq Users
  /\ claimedBy \in [Guests -> Users \cup {Nobody}]
  /\ owner \in [Tx -> Owners \cup {Nobody}]
  /\ session \subseteq Guests
  /\ revoked \subseteq Tx
  /\ bought \in [Tx -> Owners \cup {Nobody}]
  /\ request \in [Clients -> Request]
  /\ delivery \in [Tx -> Delivery]

Init ==
  /\ live = Users
  /\ claimedBy = [g \in Guests |-> Nobody]
  /\ owner = [t \in Tx |-> Nobody]
  /\ session = Guests
  /\ revoked = {}
  /\ bought \in [Tx -> Owners \cup {Nobody}]
  /\ request = [c \in Clients |-> Idle]
  /\ delivery = [t \in Tx |-> Waiting]

Siblings(t) == {s \in Tx : Original[s] = Original[t]}
OwnedBy(o)  == {t \in Tx : owner[t] = o}

-----------------------------------------------------------------------------
(***************************************************************************)
(* Authentication: the first transaction of an endpoint.                   *)
(***************************************************************************)
Start(c, r) ==
  /\ request[c] = Idle
  /\ request' = [request EXCEPT ![c] = r]
  /\ UNCHANGED <<tables, bought, delivery>>

\* Mutated: an account may use the token of any guest.
AllowedAnyGuest(u) == {u} \cup Guests

\* get_allowed_app_account_tokens_for_user
AllowedTokens(u) == {u} \cup {g \in Guests : claimedBy[g] = u}

\* The signed transaction must carry one of the caller's tokens.
StartUserVerify(c, u, t) ==
  /\ u \in live
  /\ bought[t] \in AllowedTokens(u)
  /\ Start(c, [kind |-> "verify", owner |-> u, tx |-> t])

StartGuestVerify(c, g, t) ==
  /\ g \in session /\ claimedBy[g] = Nobody
  /\ bought[t] = g
  /\ Start(c, [kind |-> "verify", owner |-> g, tx |-> t])

StartClaim(c, u, g) ==
  /\ u \in live
  /\ Start(c, [kind |-> "claim", owner |-> u, guest |-> g])

StartDelete(c, u) ==
  /\ u \in live
  /\ Start(c, [kind |-> "delete", owner |-> u])

-----------------------------------------------------------------------------
(***************************************************************************)
(* process_apple_transaction: one transaction.                             *)
(***************************************************************************)

\* Mutated: the entitlement is not reconciled in the same transaction.
ReconcilesLater(u, owns, revokedAfter) == TRUE

\* reconcile_apple_entitlement refuses an account whose active subscription
\* has no expiration date, and the whole transaction is rolled back.
Reconciles(u, owns, revokedAfter) ==
  \A s \in Tx : owns[s] = u => s \notin Undated \/ s \in revokedAfter

\* Mutated: the guest is not looked up again when the row is saved.
ExistingAccount(o) == o \in Users => o \in live

\* A guest row must be unclaimed, an account must exist.
OwnerActive(o) ==
  /\ o \in Users  => o \in live
  /\ o \in Guests => claimedBy[o] = Nobody

\* Mutated: the rows of the same original transaction are not compared.
RowAgrees(t, o) == owner[t] \in {o, Nobody}

\* _save_apple_transaction: the row of t is o's, or t is new and no row of
\* the same original transaction has another owner.
OwnershipAgrees(t, o) ==
  \/ owner[t] = o
  \/ owner[t] = Nobody /\ \A s \in Siblings(t) : owner[s] \in {o, Nobody}

Saves(t, o, revokedAfter) ==
  /\ OwnerActive(o)
  /\ OwnershipAgrees(t, o)
  /\ o \in Users => Reconciles(o, [owner EXCEPT ![t] = o], revokedAfter)

\* The payload may set, clear or keep the revocation of the row.
Process(t, o) ==
  \E revokedAfter \in {revoked \cup {t}, revoked \ {t}} :
    IF Saves(t, o, revokedAfter)
      THEN /\ owner' = [owner EXCEPT ![t] = o]
           /\ revoked' = revokedAfter
           /\ UNCHANGED <<live, claimedBy, session>>
      ELSE UNCHANGED tables

Verify(c) ==
  /\ request[c].kind = "verify"
  /\ Process(request[c].tx, request[c].owner)
  /\ request' = [request EXCEPT ![c] = Idle]
  /\ UNCHANGED <<bought, delivery>>

-----------------------------------------------------------------------------
(***************************************************************************)
(* claim_guest_subscription: one transaction.                              *)
(***************************************************************************)
MayClaim(u, g) ==
  /\ u \in live
  /\ claimedBy[g] = Nobody
  /\ g \in session
  /\ OwnedBy(g) # {}
  /\ \A t \in OwnedBy(g), s \in Tx :
       Original[s] = Original[t] => owner[s] \in {g, u, Nobody}

\* Mutated: a claim leaves revoked transactions behind.
AfterPartialClaim(u, g) ==
  [t \in Tx |-> IF owner[t] = g /\ t \notin revoked THEN u ELSE owner[t]]

AfterClaim(u, g) == [t \in Tx |-> IF owner[t] = g THEN u ELSE owner[t]]

\* A refused or repeated claim changes nothing.
Claim(c) ==
  LET u == request[c].owner
      g == request[c].guest
  IN /\ request[c].kind = "claim"
     /\ IF MayClaim(u, g) /\ Reconciles(u, AfterClaim(u, g), revoked)
          THEN /\ owner' = AfterClaim(u, g)
               /\ claimedBy' = [claimedBy EXCEPT ![g] = u]
               /\ session' = session \ {g}
               /\ UNCHANGED <<live, revoked>>
          ELSE UNCHANGED tables
     /\ request' = [request EXCEPT ![c] = Idle]
     /\ UNCHANGED <<bought, delivery>>

\* delete_current_account with its cascades: the rows of apple_transactions
\* go (ON DELETE CASCADE), claimed guests become unclaimed (SET NULL).
DeleteAccount(c) ==
  LET u == request[c].owner
  IN /\ request[c].kind = "delete"
     /\ live' = live \ {u}
     /\ owner' = [t \in Tx |-> IF owner[t] = u THEN Nobody ELSE owner[t]]
     /\ revoked' = revoked \ OwnedBy(u)
     /\ claimedBy' = [g \in Guests |-> IF claimedBy[g] = u
                                         THEN Nobody ELSE claimedBy[g]]
     /\ request' = [request EXCEPT ![c] = Idle]
     /\ UNCHANGED <<session, bought, delivery>>

\* The time to live of a guest session runs out.
SessionExpires(g) ==
  /\ g \in session
  /\ session' = session \ {g}
  /\ UNCHANGED <<live, claimedBy, owner, revoked, bought, request, delivery>>

-----------------------------------------------------------------------------
(***************************************************************************)
(* App Store notifications.  Apple repeats a notification until it is      *)
(* accepted, and may repeat an accepted one.                               *)
(***************************************************************************)
Advance(t, step, found) ==
  /\ delivery' = [delivery EXCEPT ![t] = [step |-> step, found |-> found]]
  /\ UNCHANGED <<tables, bought, request>>

Notify(t) ==
  /\ delivery[t].step = "waiting"
  /\ Advance(t, "transaction", {})

OwnerOf(t) == {owner[t]} \ {Nobody}

\* get_transaction
LookUpTransaction(t) ==
  /\ delivery[t].step = "transaction"
  /\ Advance(t, "original", OwnerOf(t))

\* get_latest_transaction: some row of the original transaction.
LookUpOriginal(t) ==
  /\ delivery[t].step = "original"
  /\ LET rows == {s \in Siblings(t) : owner[s] # Nobody}
     IN IF rows = {}
          THEN Advance(t, "token", delivery[t].found)
          ELSE \E s \in rows :
                 Advance(t, "token", delivery[t].found \cup OwnerOf(s))

\* resolve_owner_by_app_account_token
TokenOwner(t) ==
  LET a == bought[t]
  IN IF a \in Guests
       THEN IF claimedBy[a] = Nobody THEN {a} ELSE {claimedBy[a]}
       ELSE {a} \cap live

\* Mutated: the token is not consulted when rows name an owner.
LookUpTokenIfUnknown(t) ==
  /\ delivery[t].step = "token"
  /\ LET found == IF delivery[t].found = {} THEN TokenOwner(t)
                  ELSE delivery[t].found
     IN IF \E o \in Owners : found = {o}
          THEN Advance(t, "resolved", found)
          ELSE Advance(t, "waiting", {})

\* Mutated: an owner found by the token alone is not trusted.
LookUpTokenOfKnownRow(t) ==
  /\ delivery[t].step = "token"
  /\ IF \E o \in Owners : delivery[t].found = {o} /\ TokenOwner(t) \subseteq {o}
       THEN Advance(t, "resolved", delivery[t].found)
       ELSE Advance(t, "waiting", {})

\* The third lookup; no owner or several owners end the attempt with an
\* error status, and Apple will repeat the notification.
LookUpToken(t) ==
  /\ delivery[t].step = "token"
  /\ LET found == delivery[t].found \cup TokenOwner(t)
     IN IF \E o \in Owners : found = {o}
          THEN Advance(t, "resolved", found)
          ELSE Advance(t, "waiting", {})

\* The notification is processed for the owner found before.
ProcessNotification(t) ==
  /\ delivery[t].step = "resolved"
  /\ \E o \in delivery[t].found : Process(t, o)
  /\ delivery' = [delivery EXCEPT ![t] = Waiting]
  /\ UNCHANGED <<bought, request>>

-----------------------------------------------------------------------------
ClientStep(c) ==
  \/ \E u \in Users, t \in Tx : StartUserVerify(c, u, t)
  \/ \E g \in Guests, t \in Tx : StartGuestVerify(c, g, t)
  \/ \E u \in Users, g \in Guests : StartClaim(c, u, g)
  \/ \E u \in Users : StartDelete(c, u)
  \/ Verify(c) \/ Claim(c) \/ DeleteAccount(c)

DeliveryStep(t) ==
  \/ Notify(t) \/ LookUpTransaction(t) \/ LookUpOriginal(t)
  \/ LookUpToken(t) \/ ProcessNotification(t)

Next ==
  \/ \E c \in Clients : ClientStep(c)
  \/ \E g \in Guests : SessionExpires(g)
  \/ \E t \in Tx : DeliveryStep(t)

Spec == Init /\ [][Next]_vars

\* Apple repeats notifications and the server answers each of them.
FairSpec == Spec /\ \A t \in Tx : WF_vars(DeliveryStep(t))

-----------------------------------------------------------------------------
(***************************************************************************)
(* Properties.                                                             *)
(***************************************************************************)

\* All the recorded transactions of one subscription have one owner: never
\* two accounts, never an account and a guest.
SingleOwner ==
  \A s, t \in Tx :
    Original[s] = Original[t] /\ owner[s] # Nobody /\ owner[t] # Nobody
      => owner[s] = owner[t]

\* A claimed guest owns nothing, and its session is dead: a verification or
\* notification resolved to the guest before the claim records nothing for
\* the guest after it.
ClaimedGuestIsEmpty ==
  \A g \in Guests :
    claimedBy[g] # Nobody => OwnedBy(g) = {} /\ g \notin session

\* Rows belong to accounts that exist.
OwnersExist ==
  /\ \A t \in Tx : owner[t] \in Users => owner[t] \in live
  /\ \A g \in Guests : claimedBy[g] # Nobody => claimedBy[g] \in live

\* A transaction bought with the app account token of somebody who still
\* exists belongs to that holder, or to the account that claimed the guest
\* who held it: never to another customer, however the lookups interleave.
OwnerHoldsToken ==
  \A t \in Tx :
    owner[t] # Nobody /\ bought[t] \in live \cup Guests =>
      \/ owner[t] = bought[t]
      \/ bought[t] \in Guests /\ claimedBy[bought[t]] = owner[t]

\* What a request or a notification in flight was authorised for stays
\* right until it is used, or its owner is an account deleted meanwhile: the
\* owner holds the token of the transaction or claimed the guest who does.
HoldsToken(o, a) ==
  \/ o = a
  \/ a \in Guests /\ claimedBy[a] = o
  \/ o \in Users \ live

AuthorisationsHold ==
  /\ \A c \in Clients :
       request[c].kind = "verify" =>
         HoldsToken(request[c].owner, bought[request[c].tx])
  /\ \A t \in Tx :
       delivery[t].step = "resolved" /\ bought[t] \in live \cup Guests =>
         \A o \in delivery[t].found : HoldsToken(o, bought[t])

\* No account owns an active transaction without expiration date: the
\* entitlement of such an account could not be computed any more.
AccountsReconcile ==
  \A t \in Tx : owner[t] \in Users => t \notin Undated \/ t \in revoked

\* Transactions move only from a guest to the account that claims the guest
\* in the same step; an account loses them only by being deleted.
MovesOnlyByClaim ==
  [][\A t \in Tx :
       owner[t] # Nobody /\ owner'[t] # owner[t] =>
         \/ /\ owner[t] \in Guests
            /\ claimedBy[owner[t]] = Nobody
            /\ claimedBy'[owner[t]] = owner'[t]
         \/ owner[t] \in Users /\ owner'[t] = Nobody
                               /\ owner[t] \notin live']_vars

Promise == INSTANCE OwnershipPromise
  WITH live <- live, claimedBy <- claimedBy, owner <- owner
Implements == Promise!Spec

\* A notification whose owner is unambiguous is recorded in the end, if
\* Apple keeps repeating it: no interleaving of claims and deletions makes
\* it fail for ever.
Resolvable(t) ==
  /\ Cardinality(UNION {OwnerOf(s) : s \in Siblings(t)} \cup TokenOwner(t)) = 1
  /\ t \notin Undated

NotificationsSettle ==
  \A t \in Tx : []<>(owner[t] # Nobody \/ ~Resolvable(t))
=============================================================================
