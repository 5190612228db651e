--------------------- MODULE SubscriptionOwnershipProofs ---------------------
(***************************************************************************)
(* Proofs about SubscriptionOwnership, for any accounts, guests,           *)
(* transactions and clients: the type invariant, the ownership invariants  *)
(* with the authorisations in flight that make them inductive, the action  *)
(* property that transactions move only by a claim, and that the           *)
(* specification implements OwnershipPromise.                              *)
(***************************************************************************)
EXTENDS SubscriptionOwnership, TLAPS

(***************************************************************************)
(* Shapes of the requests.                                                 *)
(***************************************************************************)

\* A request in flight has the fields its handler reads.
LEMMA RequestFields ==
  ASSUME TypeOK, NEW c \in Clients
  PROVE  /\ request[c].kind = "verify" =>
              request[c].owner \in Owners /\ request[c].tx \in Tx
         /\ request[c].kind = "claim" =>
              request[c].owner \in Users /\ request[c].guest \in Guests
         /\ request[c].kind = "delete" => request[c].owner \in Users
  <1>1. request[c] \in Request
    BY DEF TypeOK
  <1>2. QED
    BY <1>1 DEF Request, Idle

\* The records for an idle client and a waiting notification are typed.
LEMMA IdleIsARequest == Idle \in Request /\ Waiting \in Delivery
  BY DEF Request, Idle, Delivery, Waiting

-----------------------------------------------------------------------------
(***************************************************************************)
(* Type correctness.                                                       *)
(***************************************************************************)

\* Saving a verified transaction keeps the tables well typed.
LEMMA ProcessType ==
  ASSUME TypeOK, NEW t \in Tx, NEW o \in Owners, Process(t, o)
  PROVE  /\ live' \subseteq Users
         /\ claimedBy' \in [Guests -> Users \cup {Nobody}]
         /\ owner' \in [Tx -> Owners \cup {Nobody}]
         /\ session' \subseteq Guests
         /\ revoked' \subseteq Tx
  BY DEF TypeOK, Process, tables

\* Every step of the protocol keeps the variables well typed.
LEMMA TypeStep == TypeOK /\ [Next]_vars => TypeOK'
  <1> SUFFICES ASSUME TypeOK, [Next]_vars PROVE TypeOK'
    OBVIOUS
  <1> USE IdleIsARequest
  <1>1. ASSUME NEW c \in Clients, NEW u \in Users, NEW t \in Tx,
               StartUserVerify(c, u, t)
        PROVE  TypeOK'
    <2>1. [kind |-> "verify", owner |-> u, tx |-> t] \in Request
      BY DEF Request, Owners
    <2>2. QED
      BY <1>1, <2>1 DEF StartUserVerify, Start, tables, TypeOK
  <1>2. ASSUME NEW c \in Clients, NEW g \in Guests, NEW t \in Tx,
               StartGuestVerify(c, g, t)
        PROVE  TypeOK'
    <2>1. [kind |-> "verify", owner |-> g, tx |-> t] \in Request
      BY DEF Request, Owners
    <2>2. QED
      BY <1>2, <2>1 DEF StartGuestVerify, Start, tables, TypeOK
  <1>3. ASSUME NEW c \in Clients, NEW u \in Users, NEW g \in Guests,
               StartClaim(c, u, g)
        PROVE  TypeOK'
    <2>1. [kind |-> "claim", owner |-> u, guest |-> g] \in Request
      BY DEF Request
    <2>2. QED
      BY <1>3, <2>1 DEF StartClaim, Start, tables, TypeOK
  <1>4. ASSUME NEW c \in Clients, NEW u \in Users, StartDelete(c, u)
        PROVE  TypeOK'
    <2>1. [kind |-> "delete", owner |-> u] \in Request
      BY DEF Request
    <2>2. QED
      BY <1>4, <2>1 DEF StartDelete, Start, tables, TypeOK
  <1>5. ASSUME NEW c \in Clients, Verify(c)
        PROVE  TypeOK'
    <2>1. request[c].owner \in Owners /\ request[c].tx \in Tx
      BY <1>5, RequestFields DEF Verify
    <2>2. request' = [request EXCEPT ![c] = Idle]
          /\ UNCHANGED <<bought, delivery>>
      BY <1>5 DEF Verify
    <2>3. QED
      BY <1>5, <2>1, <2>2, ProcessType DEF Verify, TypeOK
  <1>6. ASSUME NEW c \in Clients, Claim(c)
        PROVE  TypeOK'
    <2>1. request[c].owner \in Users /\ request[c].guest \in Guests
      BY <1>6, RequestFields DEF Claim
    <2>2. AfterClaim(request[c].owner, request[c].guest)
            \in [Tx -> Owners \cup {Nobody}]
      BY <2>1 DEF AfterClaim, TypeOK, Owners
    <2>3. QED
      BY <1>6, <2>1, <2>2 DEF Claim, tables, TypeOK
  <1>7. ASSUME NEW c \in Clients, DeleteAccount(c)
        PROVE  TypeOK'
    BY <1>7 DEF DeleteAccount, TypeOK
  <1>8. ASSUME NEW g \in Guests, SessionExpires(g)
        PROVE  TypeOK'
    BY <1>8 DEF SessionExpires, TypeOK
  <1>9. ASSUME NEW t \in Tx, DeliveryStep(t)
        PROVE  TypeOK'
    <2>1. ASSUME NEW step \in {"transaction", "original", "token",
                               "resolved", "waiting"},
                 NEW found \in SUBSET Owners, Advance(t, step, found)
          PROVE  TypeOK'
      <3>1. [step |-> step, found |-> found] \in Delivery
        BY DEF Delivery
      <3>2. QED
        BY <2>1, <3>1 DEF Advance, tables, TypeOK
    <2>2. delivery[t].found \subseteq Owners
      BY DEF TypeOK, Delivery
    <2>3. \A s \in Tx : OwnerOf(s) \subseteq Owners
      BY DEF OwnerOf, TypeOK
    <2>4. TokenOwner(t) \subseteq Owners
      BY DEF TokenOwner, TypeOK, Owners
    <2>5. CASE Notify(t)
      BY <2>5, <2>1 DEF Notify
    <2>6. CASE LookUpTransaction(t)
      BY <2>6, <2>1, <2>3 DEF LookUpTransaction
    <2>7. CASE LookUpOriginal(t)
      <3>1. \E found \in SUBSET Owners : Advance(t, "token", found)
        BY <2>7, <2>2, <2>3 DEF LookUpOriginal, Siblings
      <3>2. QED
        BY <3>1, <2>1
    <2>8. CASE LookUpToken(t)
      <3>1. \/ Advance(t, "waiting", {})
            \/ \E found \in SUBSET Owners : Advance(t, "resolved", found)
        BY <2>8, <2>2, <2>4 DEF LookUpToken
      <3>2. QED
        BY <3>1, <2>1
    <2>9. CASE ProcessNotification(t)
      <3>1. PICK o \in Owners : Process(t, o)
        BY <2>9, <2>2 DEF ProcessNotification
      <3>2. QED
        BY <2>9, <3>1, ProcessType DEF ProcessNotification, TypeOK
    <2>10. QED
      BY <1>9, <2>5, <2>6, <2>7, <2>8, <2>9 DEF DeliveryStep
  <1>10. CASE UNCHANGED vars
    BY <1>10 DEF vars, TypeOK
  <1>11. QED
    BY <1>1, <1>2, <1>3, <1>4, <1>5, <1>6, <1>7, <1>8, <1>9, <1>10
       DEF Next, ClientStep

\* The variables always have their types, whatever the instance.
THEOREM TypeCorrect == Spec => []TypeOK
  <1>1. Init => TypeOK
    BY IdleIsARequest DEF Init, TypeOK
  <1>2. QED
    BY <1>1, TypeStep, PTL DEF Spec
-----------------------------------------------------------------------------
(***************************************************************************)
(* What a step does to the tables.                                         *)
(***************************************************************************)

\* Some request or notification in flight may save t for o.
Authorised(t, o) ==
  \/ \E c \in Clients : /\ request[c].kind = "verify"
                        /\ request[c].owner = o
                        /\ request[c].tx = t
  \/ delivery[t].step = "resolved" /\ o \in delivery[t].found

Quiet == UNCHANGED <<live, claimedBy, owner, revoked>> /\ session' \subseteq session

\* What Claim does to the tables when it is not refused.
Claims(u, g) ==
  /\ MayClaim(u, g) /\ Reconciles(u, AfterClaim(u, g), revoked)
  /\ owner' = AfterClaim(u, g)
  /\ claimedBy' = [claimedBy EXCEPT ![g] = u]
  /\ session' = session \ {g}
  /\ UNCHANGED <<live, revoked>>

\* What DeleteAccount does to the tables.
Deletes(u) ==
  /\ live' = live \ {u}
  /\ owner' = [t \in Tx |-> IF owner[t] = u THEN Nobody ELSE owner[t]]
  /\ revoked' = revoked \ OwnedBy(u)
  /\ claimedBy' = [g \in Guests |-> IF claimedBy[g] = u
                                      THEN Nobody ELSE claimedBy[g]]
  /\ UNCHANGED session

\* What Process does to the tables when the save is not refused.
SavesRow(t, o) ==
  \E revokedAfter \in {revoked \cup {t}, revoked \ {t}} :
    /\ Saves(t, o, revokedAfter)
    /\ owner' = [owner EXCEPT ![t] = o]
    /\ revoked' = revokedAfter
    /\ UNCHANGED <<live, claimedBy, session>>

\* A step leaves the tables alone, or is one of the three transactions that
\* write them, with the authority of a request or notification in flight.
LEMMA TableStep ==
  ASSUME TypeOK, [Next]_vars
  PROVE  /\ bought' = bought
         /\ \/ Quiet
            \/ \E t \in Tx, o \in Owners : Authorised(t, o) /\ SavesRow(t, o)
            \/ \E u \in Users, g \in Guests : Claims(u, g)
            \/ \E u \in Users : Deletes(u)
  <1> USE DEF Quiet, tables
  <1>1. ASSUME NEW c \in Clients, NEW r, Start(c, r)
        PROVE  bought' = bought /\ Quiet
    BY <1>1 DEF Start
  <1>2. ASSUME NEW t \in Tx, NEW o \in Owners, Process(t, o)
        PROVE  Quiet \/ SavesRow(t, o)
    BY <1>2 DEF Process, SavesRow
  <1>3. ASSUME NEW c \in Clients, Verify(c)
        PROVE  /\ bought' = bought
               /\ \/ Quiet
                  \/ \E t \in Tx, o \in Owners :
                       Authorised(t, o) /\ SavesRow(t, o)
    <2>1. request[c].owner \in Owners /\ request[c].tx \in Tx
      BY <1>3, RequestFields DEF Verify
    <2>2. Authorised(request[c].tx, request[c].owner)
      BY <1>3 DEF Verify, Authorised
    <2>3. QED
      BY <1>3, <1>2, <2>1, <2>2 DEF Verify
  <1>4. ASSUME NEW c \in Clients, Claim(c)
        PROVE  /\ bought' = bought
               /\ Quiet \/ \E u \in Users, g \in Guests : Claims(u, g)
    <2>1. request[c].owner \in Users /\ request[c].guest \in Guests
      BY <1>4, RequestFields DEF Claim
    <2>2. QED
      BY <1>4, <2>1 DEF Claim, Claims
  <1>5. ASSUME NEW c \in Clients, DeleteAccount(c)
        PROVE  bought' = bought /\ \E u \in Users : Deletes(u)
    <2>1. request[c].owner \in Users
      BY <1>5, RequestFields DEF DeleteAccount
    <2>2. QED
      BY <1>5, <2>1 DEF DeleteAccount, Deletes
  <1>6. ASSUME NEW g \in Guests, SessionExpires(g)
        PROVE  bought' = bought /\ Quiet
    BY <1>6 DEF SessionExpires
  <1>7. ASSUME NEW t \in Tx, ProcessNotification(t)
        PROVE  /\ bought' = bought
               /\ \/ Quiet
                  \/ \E o \in Owners : Authorised(t, o) /\ SavesRow(t, o)
    <2>1. PICK o \in delivery[t].found : Process(t, o)
      BY <1>7 DEF ProcessNotification
    <2>2. o \in Owners
      BY DEF TypeOK, Delivery
    <2>3. Authorised(t, o)
      BY <1>7 DEF ProcessNotification, Authorised
    <2>4. QED
      BY <1>7, <1>2, <2>1, <2>2, <2>3 DEF ProcessNotification
  <1>8. ASSUME NEW t \in Tx, Notify(t) \/ LookUpTransaction(t)
                               \/ LookUpOriginal(t) \/ LookUpToken(t)
        PROVE  bought' = bought /\ Quiet
    BY <1>8 DEF Notify, LookUpTransaction, LookUpOriginal, LookUpToken, Advance
  <1>9. CASE UNCHANGED vars
    BY <1>9 DEF vars
  <1>10. QED
    BY <1>1, <1>3, <1>4, <1>5, <1>6, <1>7, <1>8, <1>9
       DEF Next, ClientStep, DeliveryStep,
           StartUserVerify, StartGuestVerify, StartClaim, StartDelete

-----------------------------------------------------------------------------
(***************************************************************************)
(* The ownership invariants that hold whatever is authorised.              *)
(***************************************************************************)

\* The rows of a subscription have one owner, claimed guests own nothing,
\* owners exist and accounts reconcile: together an inductive invariant.
TablesInv ==
  TypeOK /\ SingleOwner /\ ClaimedGuestIsEmpty /\ OwnersExist
         /\ AccountsReconcile

\* Recording or updating a row keeps the tables consistent.
LEMMA SaveKeepsTables ==
  ASSUME TablesInv, NEW t \in Tx, NEW o \in Owners, SavesRow(t, o)
  PROVE  SingleOwner' /\ ClaimedGuestIsEmpty' /\ OwnersExist'
         /\ AccountsReconcile'
  <1> USE DEF TablesInv
  <1>1. PICK revokedAfter \in {revoked \cup {t}, revoked \ {t}} :
          /\ Saves(t, o, revokedAfter)
          /\ owner' = [owner EXCEPT ![t] = o]
          /\ revoked' = revokedAfter
          /\ UNCHANGED <<live, claimedBy, session>>
    BY DEF SavesRow
  <1>2. \A s \in Tx : owner'[s] = IF s = t THEN o ELSE owner[s]
    BY <1>1 DEF TypeOK
  <1>3. SingleOwner'
    BY <1>1, <1>2 DEF SingleOwner, Saves, OwnershipAgrees, Siblings
  <1>4. ClaimedGuestIsEmpty'
    BY <1>1, <1>2, OwnershipAssumption
       DEF ClaimedGuestIsEmpty, Saves, OwnerActive, OwnedBy, Owners
  <1>5. OwnersExist'
    BY <1>1, <1>2 DEF OwnersExist, Saves, OwnerActive
  <1>6. AccountsReconcile'
    <2>1. ASSUME NEW s \in Tx, owner'[s] \in Users
          PROVE  s \notin Undated \/ s \in revoked'
      <3>1. CASE owner'[s] = o
        BY <3>1, <2>1, <1>1 DEF Saves, Reconciles
      <3>2. CASE owner'[s] # o
        BY <3>2, <2>1, <1>1, <1>2 DEF AccountsReconcile
      <3>3. QED
        BY <3>1, <3>2
    <2>2. QED
      BY <2>1 DEF AccountsReconcile
  <1>7. QED
    BY <1>3, <1>4, <1>5, <1>6

\* Handing a guest's rows to the account that claims it does too.
LEMMA ClaimKeepsTables ==
  ASSUME TablesInv, NEW u \in Users, NEW g \in Guests, Claims(u, g)
  PROVE  SingleOwner' /\ ClaimedGuestIsEmpty' /\ OwnersExist'
         /\ AccountsReconcile'
  <1> USE DEF TablesInv
  <1>1. \A s \in Tx : owner'[s] = IF owner[s] = g THEN u ELSE owner[s]
    BY DEF Claims, AfterClaim
  <1>2. \A h \in Guests : claimedBy'[h] = IF h = g THEN u ELSE claimedBy[h]
    BY DEF Claims, TypeOK
  <1>3. u # g /\ u # Nobody /\ g # Nobody /\ u \notin Guests
    BY OwnershipAssumption
  <1>4. SingleOwner'
    <2>1. ASSUME NEW s \in Tx, NEW t \in Tx, Original[s] = Original[t],
                 owner'[s] # Nobody, owner'[t] # Nobody
          PROVE  owner'[s] = owner'[t]
      <3>1. CASE owner[s] # g /\ owner[t] # g
        BY <3>1, <2>1, <1>1 DEF SingleOwner
      <3>2. CASE owner[s] = g
        <4>1. owner[t] \in {g, u, Nobody}
          BY <3>2, <2>1 DEF Claims, MayClaim, OwnedBy
        <4>2. QED
          BY <4>1, <3>2, <2>1, <1>1
      <3>3. CASE owner[t] = g
        <4>1. owner[s] \in {g, u, Nobody}
          BY <3>3, <2>1 DEF Claims, MayClaim, OwnedBy
        <4>2. QED
          BY <4>1, <3>3, <2>1, <1>1
      <3>4. QED
        BY <3>1, <3>2, <3>3
    <2>2. QED
      BY <2>1 DEF SingleOwner
  <1>5. ClaimedGuestIsEmpty'
    BY <1>1, <1>2, <1>3 DEF ClaimedGuestIsEmpty, OwnedBy, Claims
  <1>6. OwnersExist'
    BY <1>1, <1>2 DEF OwnersExist, Claims, MayClaim
  <1>7. AccountsReconcile'
    <2>1. ASSUME NEW s \in Tx, owner'[s] \in Users
          PROVE  s \notin Undated \/ s \in revoked'
      <3>1. CASE owner'[s] = u
        BY <3>1 DEF Claims, Reconciles
      <3>2. CASE owner'[s] # u
        BY <3>2, <2>1, <1>1 DEF AccountsReconcile, Claims
      <3>3. QED
        BY <3>1, <3>2
    <2>2. QED
      BY <2>1 DEF AccountsReconcile
  <1>8. QED
    BY <1>4, <1>5, <1>6, <1>7

\* Deleting an account removes what would refer to it.
LEMMA DeleteKeepsTables ==
  ASSUME TablesInv, NEW u \in Users, Deletes(u)
  PROVE  SingleOwner' /\ ClaimedGuestIsEmpty' /\ OwnersExist'
         /\ AccountsReconcile'
  <1> USE DEF TablesInv
  <1>1. \A s \in Tx : owner'[s] = IF owner[s] = u THEN Nobody ELSE owner[s]
    BY DEF Deletes
  <1>2. \A h \in Guests :
          claimedBy'[h] = IF claimedBy[h] = u THEN Nobody ELSE claimedBy[h]
    BY DEF Deletes
  <1>3. Nobody \notin Users /\ Nobody \notin Guests
    BY OwnershipAssumption
  <1>4. SingleOwner'
    BY <1>1 DEF SingleOwner
  <1>5. ClaimedGuestIsEmpty'
    BY <1>1, <1>2, <1>3 DEF ClaimedGuestIsEmpty, OwnedBy, Deletes
  <1>6. OwnersExist'
    BY <1>1, <1>2, <1>3 DEF OwnersExist, Deletes
  <1>7. AccountsReconcile'
    BY <1>1, <1>3 DEF AccountsReconcile, Deletes, OwnedBy
  <1>8. QED
    BY <1>4, <1>5, <1>6, <1>7

\* Every step keeps the tables consistent.
LEMMA TablesStep == TablesInv /\ [Next]_vars => TablesInv'
  <1> SUFFICES ASSUME TablesInv, [Next]_vars PROVE TablesInv'
    OBVIOUS
  <1>1. TypeOK /\ TypeOK'
    BY TypeStep DEF TablesInv
  <1>2. CASE Quiet
    BY <1>1, <1>2 DEF Quiet, TablesInv, SingleOwner, ClaimedGuestIsEmpty,
                      OwnersExist, AccountsReconcile, OwnedBy
  <1>3. QED
    BY <1>1, <1>2, TableStep, SaveKeepsTables, ClaimKeepsTables,
       DeleteKeepsTables DEF TablesInv

\* Nothing is recorded at the start.
LEMMA TablesInit == Init => TablesInv
  BY IdleIsARequest, OwnershipAssumption
     DEF Init, TablesInv, TypeOK, SingleOwner, ClaimedGuestIsEmpty,
         OwnersExist, AccountsReconcile

\* The tables are consistent in every reachable state.
THEOREM TablesConsistent == Spec => []TablesInv
  BY TablesInit, TablesStep, PTL DEF Spec

\* No subscription is ever recorded for two owners.
THEOREM OneOwnerPerSubscription == Spec => []SingleOwner
  <1>1. TablesInv => SingleOwner
    BY DEF TablesInv
  <1>2. QED
    BY <1>1, TablesConsistent, PTL
\* A claimed guest is never given another row.
THEOREM NothingForClaimedGuests == Spec => []ClaimedGuestIsEmpty
  <1>1. TablesInv => ClaimedGuestIsEmpty
    BY DEF TablesInv
  <1>2. QED
    BY <1>1, TablesConsistent, PTL

\* An account that owns rows can always have its entitlement computed.
THEOREM EveryAccountReconciles == Spec => []AccountsReconcile
  <1>1. TablesInv => AccountsReconcile
    BY DEF TablesInv
  <1>2. QED
    BY <1>1, TablesConsistent, PTL

-----------------------------------------------------------------------------
(***************************************************************************)
(* Who may own a transaction: what is authorised in flight stays right     *)
(* until it is used.                                                       *)
(***************************************************************************)

\* The inductive invariant: consistent tables, authorisations that hold, and
\* rows owned by the holder of their token.
IInv == TablesInv /\ AuthorisationsHold /\ OwnerHoldsToken

\* Whoever holds a token keeps it, or is an account that was deleted.
LEMMA HoldingIsStable ==
  ASSUME TablesInv, [Next]_vars, NEW o \in Owners, NEW a, HoldsToken(o, a)
  PROVE  HoldsToken(o, a)'
  <1> USE DEF TablesInv
  <1>1. live' \subseteq live
    BY TableStep DEF Quiet, SavesRow, Claims, Deletes
  <1>2. CASE o = a \/ o \in Users \ live
    BY <1>1, <1>2 DEF HoldsToken
  <1>3. CASE a \in Guests /\ claimedBy[a] = o
    <2>1. o \in Users
      BY <1>3, OwnershipAssumption DEF TypeOK, Owners
    <2>2. CASE Quiet \/ \E t \in Tx, p \in Owners : SavesRow(t, p)
      BY <1>3, <2>2 DEF Quiet, SavesRow, HoldsToken
    <2>3. ASSUME NEW u \in Users, NEW g \in Guests, Claims(u, g)
          PROVE  HoldsToken(o, a)'
      <3>1. g # a
        BY <1>3, <2>1, <2>3, OwnershipAssumption DEF Claims, MayClaim
      <3>2. claimedBy'[a] = claimedBy[a]
        BY <1>3, <2>3, <3>1 DEF Claims, TypeOK
      <3>3. QED
        BY <1>3, <3>2 DEF HoldsToken
    <2>4. ASSUME NEW u \in Users, Deletes(u)
          PROVE  HoldsToken(o, a)'
      <3>1. CASE u = o
        BY <2>1, <2>4, <3>1 DEF Deletes, HoldsToken
      <3>2. CASE u # o
        BY <1>3, <2>4, <3>2 DEF Deletes, HoldsToken
      <3>3. QED
        BY <3>1, <3>2
    <2>5. QED
      BY <2>2, <2>3, <2>4, TableStep
  <1>4. QED
    BY <1>2, <1>3 DEF HoldsToken

\* The token of a transaction resolves to whoever holds it.
LEMMA TokenOwnerHolds ==
  ASSUME TypeOK, NEW t \in Tx, bought[t] \in live \cup Guests
  PROVE  /\ TokenOwner(t) # {}
         /\ \A o \in TokenOwner(t) : HoldsToken(o, bought[t])
  BY OwnershipAssumption DEF TokenOwner, HoldsToken, TypeOK

\* A verification in flight after a step was in flight before it, or was
\* just authorised for a holder of the token.
LEMMA RequestOrigin ==
  ASSUME TypeOK, [Next]_vars, NEW c \in Clients, request'[c].kind = "verify"
  PROVE  \/ request'[c] = request[c]
         \/ /\ request'[c].owner \in Owners
            /\ HoldsToken(request'[c].owner, bought[request'[c].tx])
  <1> USE DEF TypeOK
  <1>1. ASSUME NEW d \in Clients, NEW u \in Users, NEW t \in Tx,
               StartUserVerify(d, u, t)
        PROVE  \/ request'[c] = request[c]
               \/ /\ request'[c].owner \in Owners
                  /\ HoldsToken(request'[c].owner, bought[request'[c].tx])
    BY <1>1 DEF StartUserVerify, Start, AllowedTokens, HoldsToken, Owners
  <1>2. ASSUME NEW d \in Clients, NEW g \in Guests, NEW t \in Tx,
               StartGuestVerify(d, g, t)
        PROVE  \/ request'[c] = request[c]
               \/ /\ request'[c].owner \in Owners
                  /\ HoldsToken(request'[c].owner, bought[request'[c].tx])
    BY <1>2 DEF StartGuestVerify, Start, HoldsToken, Owners
  <1>3. ASSUME NEW d \in Clients, NEW r, r.kind # "verify",
               request' = [request EXCEPT ![d] = r]
        PROVE  request'[c] = request[c]
    BY <1>3
  <1>4. Idle.kind # "verify"
    BY DEF Idle
  <1>5. ASSUME NEW d \in Clients, NEW u \in Users, NEW g \in Guests,
               StartClaim(d, u, g)
        PROVE  request'[c] = request[c]
    BY <1>5 DEF StartClaim, Start
  <1>6. ASSUME NEW d \in Clients, Verify(d) \/ Claim(d) \/ DeleteAccount(d)
        PROVE  request'[c] = request[c]
    <2>1. request' = [request EXCEPT ![d] = Idle]
      BY <1>6 DEF Verify, Claim, DeleteAccount
    <2>2. QED
      BY <2>1, <1>3, <1>4
  <1>7. ASSUME \/ UNCHANGED vars
               \/ \E g \in Guests : SessionExpires(g)
               \/ \E t \in Tx : DeliveryStep(t)
        PROVE  request'[c] = request[c]
    BY <1>7 DEF vars, SessionExpires, DeliveryStep, Notify, LookUpTransaction,
                LookUpOriginal, LookUpToken, ProcessNotification, Advance
  <1>8. ASSUME NEW d \in Clients, ClientStep(d)
        PROVE  \/ request'[c] = request[c]
               \/ /\ request'[c].owner \in Owners
                  /\ HoldsToken(request'[c].owner, bought[request'[c].tx])
    <2>1. CASE \E u \in Users, t \in Tx : StartUserVerify(d, u, t)
      BY <2>1, <1>1
    <2>2. CASE \E g \in Guests, t \in Tx : StartGuestVerify(d, g, t)
      BY <2>2, <1>2
    <2>3. CASE \E u \in Users, g \in Guests : StartClaim(d, u, g)
      BY <2>3, <1>5
    <2>4. CASE \E u \in Users : StartDelete(d, u)
      BY <2>4 DEF StartDelete, Start
    <2>5. CASE Verify(d) \/ Claim(d) \/ DeleteAccount(d)
      BY <2>5, <1>6
    <2>6. QED
      BY <1>8, <2>1, <2>2, <2>3, <2>4, <2>5 DEF ClientStep
  <1>9. QED
    BY <1>7, <1>8 DEF Next

\* A resolved notification was resolved before the step, or in it, to one
\* owner the token of the transaction agreed with.
LEMMA ResolutionOrigin ==
  ASSUME TypeOK, [Next]_vars, NEW t \in Tx, delivery'[t].step = "resolved"
  PROVE  \/ delivery'[t] = delivery[t]
         \/ \E o \in Owners :
              delivery'[t].found = {o} /\ TokenOwner(t) \subseteq {o}
  <1> USE DEF TypeOK
  <1>1. ASSUME NEW s \in Tx, DeliveryStep(s)
        PROVE  \/ delivery'[t] = delivery[t]
               \/ \E o \in Owners :
                    delivery'[t].found = {o} /\ TokenOwner(t) \subseteq {o}
    <2>1. CASE LookUpToken(s)
      <3>1. PICK found :
              \/ /\ Advance(s, "resolved", found)
                 /\ \E o \in Owners : found = {o} /\ TokenOwner(s) \subseteq {o}
              \/ Advance(s, "waiting", {})
        BY <2>1 DEF LookUpToken
      <3>2. QED
        BY <3>1 DEF Advance
    <2>2. CASE Notify(s) \/ LookUpTransaction(s)
      BY <2>2 DEF Notify, LookUpTransaction, Advance
    <2>3. CASE LookUpOriginal(s)
      <3>1. PICK found : Advance(s, "token", found)
        BY <2>3 DEF LookUpOriginal
      <3>2. QED
        BY <3>1 DEF Advance
    <2>4. CASE ProcessNotification(s)
      BY <2>4 DEF ProcessNotification, Waiting
    <2>5. QED
      BY <1>1, <2>1, <2>2, <2>3, <2>4 DEF DeliveryStep
  <1>2. CASE UNCHANGED delivery
    BY <1>2
  <1>3. ASSUME NEW c \in Clients, ClientStep(c)
        PROVE  UNCHANGED delivery
    BY <1>3 DEF ClientStep, StartUserVerify, StartGuestVerify, StartClaim,
                StartDelete, Start, Verify, Claim, DeleteAccount
  <1>4. QED
    BY <1>1, <1>2, <1>3 DEF Next, SessionExpires, vars

\* Authorisations in flight hold after every step.
LEMMA AuthorisationsStep ==
  ASSUME TablesInv, AuthorisationsHold, [Next]_vars
  PROVE  AuthorisationsHold'
  <1> USE DEF TablesInv
  <1>1. bought' = bought /\ live' \subseteq live
    BY TableStep DEF Quiet, SavesRow, Claims, Deletes
  <1>2. ASSUME NEW c \in Clients, request'[c].kind = "verify"
        PROVE  HoldsToken(request[c].owner, bought[request[c].tx])'
    <2>1. /\ request'[c].owner \in Owners
          /\ HoldsToken(request'[c].owner, bought[request'[c].tx])
      BY <1>2, RequestOrigin, RequestFields DEF AuthorisationsHold
    <2>2. QED
      BY <2>1, <1>1, HoldingIsStable
  <1>3. ASSUME NEW t \in Tx, delivery'[t].step = "resolved",
               bought'[t] \in live' \cup Guests, NEW o \in delivery'[t].found
        PROVE  HoldsToken(o, bought[t])'
    <2>1. bought[t] \in live \cup Guests
      BY <1>1, <1>3
    <2>2. o \in Owners /\ HoldsToken(o, bought[t])
      <3>1. CASE delivery'[t] = delivery[t]
        BY <3>1, <1>3, <2>1 DEF AuthorisationsHold, TypeOK, Delivery
      <3>2. CASE \E p \in Owners :
                   delivery'[t].found = {p} /\ TokenOwner(t) \subseteq {p}
        BY <3>2, <1>3, <2>1, TokenOwnerHolds
      <3>3. QED
        BY <3>1, <3>2, <1>3, ResolutionOrigin
    <2>3. QED
      BY <2>2, <1>1, HoldingIsStable
  <1>4. QED
    BY <1>2, <1>3 DEF AuthorisationsHold

\* Rows stay with the holder of their token.
LEMMA OwnerStep ==
  ASSUME IInv, [Next]_vars
  PROVE  OwnerHoldsToken'
  <1> USE DEF IInv, TablesInv
  <1>1. bought' = bought /\ live' \subseteq live
    BY TableStep DEF Quiet, SavesRow, Claims, Deletes
  <1>2. SUFFICES ASSUME NEW s \in Tx, owner'[s] # Nobody,
                        bought[s] \in live \cup Guests
                 PROVE  \/ owner'[s] = bought[s]
                        \/ /\ bought[s] \in Guests
                           /\ claimedBy'[bought[s]] = owner'[s]
    BY <1>1 DEF OwnerHoldsToken
  <1>3. CASE Quiet
    BY <1>2, <1>3 DEF Quiet, OwnerHoldsToken
  <1>4. ASSUME NEW t \in Tx, NEW o \in Owners, Authorised(t, o), SavesRow(t, o)
        PROVE  \/ owner'[s] = bought[s]
               \/ bought[s] \in Guests /\ claimedBy'[bought[s]] = owner'[s]
    <2>1. /\ owner' = [owner EXCEPT ![t] = o]
          /\ claimedBy' = claimedBy
          /\ OwnerActive(o)
      BY <1>4 DEF SavesRow, Saves
    <2>2. CASE s = t
      <3>1. HoldsToken(o, bought[t])
        BY <1>2, <1>4, <2>2 DEF Authorised, AuthorisationsHold
      <3>2. QED
        BY <2>1, <2>2, <3>1 DEF HoldsToken, OwnerActive, TypeOK
    <2>3. CASE s # t
      BY <1>2, <2>1, <2>3 DEF OwnerHoldsToken, TypeOK
    <2>4. QED
      BY <2>2, <2>3
  <1>5. ASSUME NEW u \in Users, NEW g \in Guests, Claims(u, g)
        PROVE  \/ owner'[s] = bought[s]
               \/ bought[s] \in Guests /\ claimedBy'[bought[s]] = owner'[s]
    <2>1. /\ owner'[s] = IF owner[s] = g THEN u ELSE owner[s]
          /\ claimedBy[g] = Nobody
          /\ \A h \in Guests :
               claimedBy'[h] = IF h = g THEN u ELSE claimedBy[h]
      BY <1>5 DEF Claims, AfterClaim, MayClaim, TypeOK
    <2>2. owner[s] # Nobody
      BY <1>2, <2>1, OwnershipAssumption
    <2>3. CASE owner[s] = bought[s]
      BY <2>1, <2>3
    <2>4. CASE bought[s] \in Guests /\ claimedBy[bought[s]] = owner[s]
      <3>1. bought[s] # g /\ owner[s] # g
        BY <2>1, <2>2, <2>4, OwnershipAssumption DEF TypeOK
      <3>2. QED
        BY <2>1, <2>4, <3>1
    <2>5. QED
      BY <1>2, <2>2, <2>3, <2>4 DEF OwnerHoldsToken
  <1>6. ASSUME NEW u \in Users, Deletes(u)
        PROVE  \/ owner'[s] = bought[s]
               \/ bought[s] \in Guests /\ claimedBy'[bought[s]] = owner'[s]
    <2>1. /\ owner'[s] = IF owner[s] = u THEN Nobody ELSE owner[s]
          /\ \A h \in Guests :
               claimedBy'[h] = IF claimedBy[h] = u THEN Nobody ELSE claimedBy[h]
      BY <1>6 DEF Deletes
    <2>2. QED
      BY <1>2, <2>1 DEF OwnerHoldsToken
  <1>7. QED
    BY <1>3, <1>4, <1>5, <1>6, TableStep

\* Every step keeps the inductive invariant.
LEMMA InvariantStep == IInv /\ [Next]_vars => IInv'
  BY TablesStep, AuthorisationsStep, OwnerStep DEF IInv

\* The inductive invariant holds initially.
LEMMA InvariantInit == Init => IInv
  BY TablesInit
     DEF Init, IInv, AuthorisationsHold, OwnerHoldsToken, Idle, Waiting

\* The inductive invariant holds in every reachable state.
THEOREM Invariant == Spec => []IInv
  BY InvariantInit, InvariantStep, PTL DEF Spec

\* A transaction is only ever recorded for the customer whose token it
\* carries, whatever claims and deletions happen between the lookups of a
\* notification and its processing.
THEOREM RecordedForTheHolder == Spec => []OwnerHoldsToken
  <1>1. IInv => OwnerHoldsToken
    BY DEF IInv
  <1>2. QED
    BY <1>1, Invariant, PTL

\* What a request or notification was authorised for is still right when
\* it is used.
THEOREM AuthorisationsStayValid == Spec => []AuthorisationsHold
  <1>1. IInv => AuthorisationsHold
    BY DEF IInv
  <1>2. QED
    BY <1>1, Invariant, PTL
-----------------------------------------------------------------------------
(***************************************************************************)
(* What a step may never do, and the promise kept.                         *)
(***************************************************************************)

\* A row that has an owner is only moved by the claim of that guest, or
\* deleted with its account.
LEMMA MoveStep ==
  ASSUME TablesInv, [Next]_vars, NEW t \in Tx,
         owner[t] # Nobody, owner'[t] # owner[t]
  PROVE  \/ /\ owner[t] \in Guests
            /\ claimedBy[owner[t]] = Nobody
            /\ claimedBy'[owner[t]] = owner'[t]
         \/ owner[t] \in Users /\ owner'[t] = Nobody /\ owner[t] \notin live'
  <1> USE DEF TablesInv
  <1>1. ~Quiet
    BY DEF Quiet
  <1>2. ASSUME NEW s \in Tx, NEW o \in Owners, SavesRow(s, o)
        PROVE  FALSE
    BY <1>2 DEF SavesRow, Saves, OwnershipAgrees, TypeOK
  <1>3. ASSUME NEW u \in Users, NEW g \in Guests, Claims(u, g)
        PROVE  /\ owner[t] \in Guests
               /\ claimedBy[owner[t]] = Nobody
               /\ claimedBy'[owner[t]] = owner'[t]
    BY <1>3 DEF Claims, AfterClaim, MayClaim, TypeOK
  <1>4. ASSUME NEW u \in Users, Deletes(u)
        PROVE  owner[t] \in Users /\ owner'[t] = Nobody /\ owner[t] \notin live'
    BY <1>4 DEF Deletes
  <1>5. QED
    BY <1>1, <1>2, <1>3, <1>4, TableStep

\* Transactions move only by claims.
THEOREM OnlyClaimsMove == Spec => MovesOnlyByClaim
  <1>1. TablesInv /\ [Next]_vars =>
          [\A t \in Tx :
             owner[t] # Nobody /\ owner'[t] # owner[t] =>
               \/ /\ owner[t] \in Guests
                  /\ claimedBy[owner[t]] = Nobody
                  /\ claimedBy'[owner[t]] = owner'[t]
               \/ owner[t] \in Users /\ owner'[t] = Nobody
                                     /\ owner[t] \notin live']_vars
    BY MoveStep
  <1>2. QED
    BY <1>1, TablesConsistent, PTL DEF Spec, MovesOnlyByClaim

\* A save of an unrecorded transaction is the abstract Record; any other
\* save leaves the abstract state alone.
LEMMA SaveRefines ==
  ASSUME TablesInv, NEW t \in Tx, NEW o \in Owners, SavesRow(t, o)
  PROVE  Promise!Record(t, o) \/ UNCHANGED <<live, claimedBy, owner>>
  <1> USE DEF TablesInv
  <1>1. /\ owner' = [owner EXCEPT ![t] = o]
        /\ UNCHANGED <<live, claimedBy>>
        /\ OwnerActive(o) /\ OwnershipAgrees(t, o)
    BY DEF SavesRow, Saves
  <1>2. CASE owner[t] = o
    BY <1>1, <1>2 DEF TypeOK
  <1>3. CASE owner[t] # o
    <2>1. owner[t] = Nobody /\ \A s \in Siblings(t) : owner[s] \in {o, Nobody}
      BY <1>1, <1>3 DEF OwnershipAgrees
    <2>2. o \in live \/ (o \in Guests /\ claimedBy[o] = Nobody)
      BY <1>1 DEF OwnerActive, Owners
    <2>3. Promise!Record(t, o)
      BY <1>1, <2>1, <2>2
         DEF Siblings, Promise!Record, Promise!MayOwn, Promise!Siblings
    <2>4. QED
      BY <2>3
  <1>4. QED
    BY <1>2, <1>3

\* A claim that is not refused is the abstract Claim.
LEMMA ClaimRefines ==
  ASSUME NEW u \in Users, NEW g \in Guests, Claims(u, g)
  PROVE  Promise!Claim(g, u)
  BY DEF Claims, MayClaim, AfterClaim, OwnedBy, Promise!Claim, Promise!OwnedBy

\* A deletion is the abstract Delete, or finds the account gone already.
LEMMA DeleteRefines ==
  ASSUME TablesInv, NEW u \in Users, Deletes(u)
  PROVE  Promise!Delete(u) \/ UNCHANGED <<live, claimedBy, owner>>
  <1> USE DEF TablesInv
  <1>1. CASE u \in live
    BY <1>1 DEF Deletes, Promise!Delete
  <1>2. CASE u \notin live
    <2>1. live' = live
      BY <1>2 DEF Deletes
    <2>2. \A t \in Tx : owner[t] # u
      BY <1>2 DEF OwnersExist
    <2>3. \A g \in Guests : claimedBy[g] # u
      BY <1>2, OwnershipAssumption DEF OwnersExist
    <2>4. owner' = owner
      BY <2>2 DEF Deletes, TypeOK
    <2>5. claimedBy' = claimedBy
      BY <2>3 DEF Deletes, TypeOK
    <2>6. QED
      BY <2>1, <2>4, <2>5
  <1>3. QED
    BY <1>1, <1>2

\* The protocol of transactions, stale authorisations and notifications
\* implements the ownership promise.
THEOREM PromiseKept == Spec => Implements
  <1>1. Init => Promise!Init
    BY DEF Init, Promise!Init
  <1>2. TablesInv /\ [Next]_vars => [Promise!Next]_(Promise!vars)
    <2> SUFFICES ASSUME TablesInv, [Next]_vars
                 PROVE  Promise!Next \/ UNCHANGED <<live, claimedBy, owner>>
      BY DEF Promise!vars
    <2>1. CASE Quiet
      BY <2>1 DEF Quiet
    <2>2. ASSUME NEW t \in Tx, NEW o \in Owners, SavesRow(t, o)
          PROVE  Promise!Next \/ UNCHANGED <<live, claimedBy, owner>>
      BY <2>2, SaveRefines DEF Promise!Next, Promise!Owners, Owners
    <2>3. ASSUME NEW u \in Users, NEW g \in Guests, Claims(u, g)
          PROVE  Promise!Next
      BY <2>3, ClaimRefines DEF Promise!Next
    <2>4. ASSUME NEW u \in Users, Deletes(u)
          PROVE  Promise!Next \/ UNCHANGED <<live, claimedBy, owner>>
      BY <2>4, DeleteRefines DEF Promise!Next
    <2>5. QED
      BY <2>1, <2>2, <2>3, <2>4, TableStep DEF TablesInv
  <1>3. QED
    BY <1>1, <1>2, TablesConsistent, PTL DEF Spec, Implements, Promise!Spec
=============================================================================
