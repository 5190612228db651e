--------------------------- MODULE RewardsProofs ---------------------------
(***************************************************************************)
(* Proofs about Referrals, for every set of users, invitations and workers *)
(* and every monthly limit: valid referrals are the rewarded ones, rewards *)
(* are kept, no referrer exceeds the limit, and batches never deadlock.    *)
(* The second part is about RewardedAccount, for every set of transactions *)
(* and rewards, every period and every horizon: what counts for a creator  *)
(* follows the attribution, and the paid milestone is the earliest.        *)
(* The third part is about PlusEntitlement: from the merge of Apple's      *)
(* periods to the expiry of the rewards, every loop is shown to compute    *)
(* what a count of days gives; so the expiry is that of a day-by-day       *)
(* account, and a stored entitlement stays right while time passes.        *)
(***************************************************************************)
EXTENDS Referrals, RewardedAccount, FiniteSetTheorems, WellFoundedInduction,
        TLAPS

Batch ==
  [kind: {"batch"}, month: {0, 1}, rows: SUBSET Users, todo: SUBSET Users,
   granted: SUBSET Users, accounts: SUBSET Users]
Deletion == [kind: {"delete"}, accounts: SUBSET Users]

Open(w) == job[w] # Idle

\* The rows of a batch are pending, and of no other batch; the referrers of
\* what it has granted are locked, and those to come are not before them.
BatchInv(w) ==
  /\ job[w].todo \subseteq job[w].rows /\ job[w].granted \subseteq job[w].rows
  /\ \A u \in job[w].rows : referral[u].status = "pending" /\ referral[u].old
  /\ \A v \in Batches \ {w} : job[v].rows \cap job[w].rows = {}
  /\ \A u \in job[w].granted : referral[u].referrer \in job[w].accounts
  /\ \A r \in job[w].accounts, u \in job[w].todo : r <= referral[u].referrer

LocksExclusive ==
  \A v, w \in Workers :
    v # w /\ Open(v) /\ Open(w) => job[v].accounts \cap job[w].accounts = {}

NewcomersUnreferred == \A u \in Users : user[u] = "absent" => referral[u] = NoReferral

TablesInv ==
  /\ TypeOK /\ LocksExclusive /\ NewcomersUnreferred /\ ValidIsRewarded
  /\ \A w \in Batches : BatchInv(w)

\* What a batch has granted counts already for the referrers it has locked.
LimitInv ==
  \A w \in Batches : \A r \in job[w].accounts :
    Cardinality(RewardsIn(r, job[w].month)) + Cardinality(GrantedTo(w, r)) <= Limit

-----------------------------------------------------------------------------
(***************************************************************************)
(* Kinds of jobs and states of referrals.                                  *)
(***************************************************************************)
LEMMA Jobs ==
  /\ Job = Batch \cup Deletion \cup {Idle}
  /\ Idle.kind = "idle"
  /\ \A j \in Batch : j.kind = "batch" /\ j # Idle
  /\ \A j \in Deletion : j.kind = "delete" /\ j # Idle
<1>1. Job = Batch \cup Deletion \cup {Idle}
  BY DEF Job, Batch, Deletion
<1>2. Idle.kind = "idle"
  BY DEF Idle
<1>3. /\ \A j \in Batch : j.kind = "batch"
      /\ \A j \in Deletion : j.kind = "delete"
  BY DEF Batch, Deletion
<1> QED
  BY <1>1, <1>2, <1>3

LEMMA JobFacts ==
  ASSUME TypeOK
  PROVE  /\ Batches = {w \in Workers : job[w] \in Batch}
         /\ Deletions = {w \in Workers : job[w] \in Deletion}
         /\ \A w \in Batches \cup Deletions : Open(w)
  BY Jobs DEF TypeOK, Batches, Deletions, Open

\* A row is told from its status; a referral that is none has no reward.
LEMMA ReferralFacts ==
  ASSUME TypeOK
  PROVE  /\ NoReferral.status = "none"
         /\ \A u \in Users :
              referral[u] # NoReferral => referral[u].referrer \in Users
<1>1. NoReferral.status = "none"
  BY DEF NoReferral
<1>2. \A r \in Referral : r # NoReferral => r.referrer \in Users
  BY <1>1 DEF Referral
<1> QED
  BY <1>1, <1>2 DEF TypeOK

LEMMA PendingFacts ==
  ASSUME NEW r \in Users
  PROVE  /\ Pending(r) \in Referral
         /\ Pending(r).status = "pending" /\ ~Pending(r).old
         /\ Pending(r) # NoReferral
<1>1. Pending(r).status = "pending" /\ ~Pending(r).old
  BY DEF Pending
<1>2. Pending(r) \in Referral
  BY DEF Pending, Referral
<1>3. NoReferral.status = "none"
  BY DEF NoReferral
<1> QED
  BY <1>1, <1>2, <1>3

-----------------------------------------------------------------------------
(***************************************************************************)
(* Steps of users: one referral that no batch holds is made or ripens.     *)
(***************************************************************************)
UsersStep ==
  /\ UNCHANGED <<reward, job>>
  /\ \A u \in Users : \/ referral'[u] = referral[u]
                      \/ /\ referral[u].status # "valid" /\ referral'[u].status = "pending"
                         /\ referral[u].status = "pending" => ~referral[u].old

LEMMA RegisterStep ==
  ASSUME TablesInv, NEW u \in Users, Register(u)
  PROVE  UsersStep /\ TypeOK' /\ NewcomersUnreferred'
<1>1. /\ user[u] = "absent" /\ user' = [user EXCEPT ![u] = "new"]
      /\ UNCHANGED <<reward, job>>
      /\ \/ UNCHANGED referral
         \/ \E r \in Users : referral' = [referral EXCEPT ![u] = Pending(r)]
  BY DEF Register
<1>2. referral[u] = NoReferral
  BY <1>1 DEF TablesInv, NewcomersUnreferred
<1>3. user' \in [Users -> {"absent", "new", "verified", "inactive", "deleted"}]
  BY <1>1 DEF TablesInv, TypeOK
<1>4. CASE UNCHANGED referral
  BY <1>1, <1>3, <1>4 DEF TablesInv, TypeOK, NewcomersUnreferred, UsersStep
<1>5. ASSUME NEW r \in Users, referral' = [referral EXCEPT ![u] = Pending(r)]
      PROVE  UsersStep /\ TypeOK' /\ NewcomersUnreferred'
  <2>1. \A v \in Users : referral'[v] = IF v = u THEN Pending(r) ELSE referral[v]
    BY <1>5 DEF TablesInv, TypeOK
  <2>2. referral' \in [Users -> Referral]
    BY <1>5, PendingFacts DEF TablesInv, TypeOK
  <2>3. UsersStep
    BY <1>1, <1>2, <2>1, PendingFacts, ReferralFacts DEF UsersStep, TablesInv
  <2>4. NewcomersUnreferred'
    BY <1>1, <2>1 DEF TablesInv, TypeOK, NewcomersUnreferred
  <2> QED
    BY <1>1, <1>3, <2>2, <2>3, <2>4 DEF TablesInv, TypeOK
<1> QED
  BY <1>1, <1>4, <1>5

LEMMA ApplyStep ==
  ASSUME TablesInv, NEW u \in Users, Apply(u)
  PROVE  UsersStep /\ TypeOK' /\ NewcomersUnreferred'
<1>1. PICK r \in Users : referral' = [referral EXCEPT ![u] = Pending(r)]
  BY DEF Apply
<1>2. /\ referral[u] = NoReferral /\ user[u] # "absent"
      /\ UNCHANGED <<user, reward, job>>
  BY DEF Apply, Exists
<1>3. \A v \in Users : referral'[v] = IF v = u THEN Pending(r) ELSE referral[v]
  BY <1>1 DEF TablesInv, TypeOK
<1>4. referral' \in [Users -> Referral]
  BY <1>1, PendingFacts DEF TablesInv, TypeOK
<1>5. UsersStep
  BY <1>2, <1>3, PendingFacts, ReferralFacts DEF UsersStep, TablesInv
<1> QED
  BY <1>2, <1>3, <1>4, <1>5 DEF TablesInv, TypeOK, NewcomersUnreferred

LEMMA RipenStep ==
  ASSUME TablesInv, NEW u \in Users, Ripen(u)
  PROVE  UsersStep /\ TypeOK' /\ NewcomersUnreferred'
<1> DEFINE row == [referral[u] EXCEPT !.old = TRUE]
<1>1. /\ referral[u].status = "pending" /\ ~referral[u].old
      /\ referral' = [referral EXCEPT ![u] = row]
      /\ UNCHANGED <<user, reward, job>>
  BY DEF Ripen, TablesInv, TypeOK
<1>2. referral[u] \in [status: {"pending"}, referrer: Users, old: BOOLEAN]
  BY <1>1, ReferralFacts DEF TablesInv, TypeOK, Referral
<1>3. row \in Referral /\ row.status = "pending"
  BY <1>2 DEF Referral
<1> HIDE DEF row
<1>4. /\ referral' \in [Users -> Referral]
      /\ \A v \in Users : referral'[v] = IF v = u THEN row ELSE referral[v]
  BY <1>1, <1>3 DEF TablesInv, TypeOK
<1>5. referral[u] # NoReferral
  BY <1>1, ReferralFacts DEF TablesInv
<1> QED
  BY <1>1, <1>3, <1>4, <1>5 DEF TablesInv, TypeOK, NewcomersUnreferred, UsersStep

LEMMA AccountStep ==
  ASSUME TablesInv, NEW u \in Users, Verify(u) \/ Deactivate(u)
  PROVE  UsersStep /\ TypeOK' /\ NewcomersUnreferred'
<1>1. UNCHANGED <<referral, reward, job>>
  BY DEF Verify, Deactivate
<1>2. \E s \in {"verified", "inactive"} : user' = [user EXCEPT ![u] = s]
  BY DEF Verify, Deactivate
<1> QED
  BY <1>1, <1>2 DEF TablesInv, TypeOK, NewcomersUnreferred, UsersStep

\* Nothing a batch or the limit depends on changes.
LEMMA UsersKeep ==
  ASSUME TablesInv, LimitInv, MonthlyLimit, UsersStep, TypeOK', NewcomersUnreferred'
  PROVE  TablesInv' /\ LimitInv' /\ MonthlyLimit'
<1>1. /\ UNCHANGED <<reward, job>> /\ Batches' = Batches
      /\ \A u \in Users :
           /\ (referral'[u].status = "valid") <=> (referral[u].status = "valid")
           /\ referral[u].status = "valid" => referral'[u] = referral[u]
  BY DEF UsersStep, Batches
<1>2. \A w \in Batches : \A u \in job[w].rows : u \in Users /\ referral'[u] = referral[u]
  <2>1. \A w \in Batches : job[w].rows \subseteq Users /\ BatchInv(w)
    BY JobFacts DEF TablesInv, Batch
  <2> QED
    BY <2>1 DEF UsersStep, BatchInv
<1>3. \A w \in Batches : BatchInv(w)'
  BY <1>1, <1>2 DEF TablesInv, BatchInv
<1>4. ValidIsRewarded' /\ LocksExclusive'
  BY <1>1 DEF TablesInv, ValidIsRewarded, LocksExclusive, Open
<1>5. \A r, month : RewardsIn(r, month)' = RewardsIn(r, month)
  BY <1>1 DEF RewardsIn
<1>6. \A w \in Batches : \A r : GrantedTo(w, r)' = GrantedTo(w, r)
  BY <1>1, <1>2 DEF GrantedTo, TablesInv, BatchInv
<1> QED
  BY <1>1, <1>3, <1>4, <1>5, <1>6 DEF TablesInv, LimitInv, MonthlyLimit

-----------------------------------------------------------------------------
(***************************************************************************)
(* Steps of a transaction before it commits.                               *)
(***************************************************************************)

\* What a job must be to take the place of the job of w.
Fits(w, j) ==
  /\ j \in Batch \cup Deletion =>
       \A v \in Workers \ {w} : Open(v) => job[v].accounts \cap j.accounts = {}
  /\ j \in Batch =>
       /\ j.todo \subseteq j.rows /\ j.granted \subseteq j.rows
       /\ \A u \in j.rows : referral[u].status = "pending" /\ referral[u].old
       /\ \A v \in Batches \ {w} : job[v].rows \cap j.rows = {}
       /\ \A u \in j.granted : referral[u].referrer \in j.accounts
       /\ \A r \in j.accounts, u \in j.todo : r <= referral[u].referrer

GrantedBy(j, r) == {u \in j.granted : referral[u].referrer = r}

KeepsLimit(j) ==
  j \in Batch => \A r \in j.accounts :
    Cardinality(RewardsIn(r, j.month)) + Cardinality(GrantedBy(j, r)) <= Limit

LEMMA JobKeeps ==
  ASSUME TablesInv, LimitInv, MonthlyLimit, UNCHANGED <<user, referral, reward>>,
         NEW w \in Workers, NEW j \in Job, job' = [job EXCEPT ![w] = j],
         Fits(w, j), KeepsLimit(j)
  PROVE  TablesInv' /\ LimitInv' /\ MonthlyLimit'
<1>1. \A v \in Workers : job'[v] = IF v = w THEN j ELSE job[v]
  BY DEF TablesInv, TypeOK
<1>2. TypeOK'
  BY DEF TablesInv, TypeOK
<1>3. Batches' = {v \in Workers : job'[v] \in Batch}
  BY <1>2, Jobs DEF Batches, TypeOK
<1>4. \A v \in Batches' : (v = w /\ j \in Batch) \/ (v # w /\ v \in Batches)
  BY <1>1, <1>3, JobFacts DEF TablesInv
<1>5. LocksExclusive'
  BY <1>1, Jobs DEF Fits, TablesInv, LocksExclusive, Open
<1>6. ASSUME NEW v \in Batches' PROVE BatchInv(v)'
  <2>1. CASE v = w
    BY <1>1, <1>4, <2>1 DEF Fits, BatchInv
  <2>2. CASE v # w
    BY <1>1, <1>4, <2>2 DEF Fits, BatchInv, TablesInv
  <2> QED
    BY <2>1, <2>2
<1>7. \A r, month : RewardsIn(r, month)' = RewardsIn(r, month)
  BY DEF RewardsIn
<1>8. \A r : GrantedTo(w, r)' = GrantedBy(j, r)
  BY <1>1 DEF GrantedTo, GrantedBy
<1>9. \A v \in Workers \ {w} : \A r : GrantedTo(v, r)' = GrantedTo(v, r)
  BY <1>1 DEF GrantedTo
<1>10. LimitInv'
  <2>1. ASSUME NEW v \in Batches', NEW r \in job'[v].accounts
        PROVE  (Cardinality(RewardsIn(r, job[v].month)) + Cardinality(GrantedTo(v, r)) <= Limit)'
    <3>0. /\ RewardsIn(r, job[v].month)' = RewardsIn(r, job'[v].month)
          /\ v \in Workers
      BY <1>4 DEF RewardsIn, Batches
    <3>1. CASE v = w
      <4>1. j \in Batch /\ job'[v] = j /\ GrantedTo(v, r)' = GrantedBy(j, r)
        BY <1>1, <1>4, <1>8, <3>1
      <4> QED
        BY <3>0, <4>1 DEF KeepsLimit
    <3>2. CASE v # w
      <4>1. v \in Batches /\ job'[v] = job[v] /\ GrantedTo(v, r)' = GrantedTo(v, r)
        BY <1>1, <1>4, <1>9, <3>0, <3>2
      <4> QED
        BY <3>0, <4>1 DEF LimitInv
    <3> QED
      BY <3>1, <3>2
  <2> QED
    BY <2>1 DEF LimitInv
<1> QED
  BY <1>2, <1>5, <1>6, <1>7, <1>10 DEF TablesInv, NewcomersUnreferred, ValidIsRewarded,
                                        MonthlyLimit

LEMMA Finite ==
  ASSUME NEW S \in SUBSET Users
  PROVE  IsFiniteSet(S) /\ Cardinality(S) \in Nat
  BY ReferralsAssumption, FS_Subset, FS_CardinalityType

LEMMA BatchFacts ==
  ASSUME TablesInv, NEW w \in Batches
  PROVE  /\ w \in Workers /\ job[w] \in Batch /\ Open(w)
         /\ \A u \in job[w].rows : u \in Users /\ referral[u].referrer \in Users
<1>1. w \in Workers /\ job[w] \in Batch /\ Open(w)
  BY JobFacts DEF TablesInv
<1>2. \A u \in job[w].rows : u \in Users /\ referral[u] # NoReferral
  BY <1>1, ReferralFacts DEF TablesInv, BatchInv, Batch
<1> QED
  BY <1>1, <1>2, ReferralFacts DEF TablesInv

LEMMA TakeKeeps ==
  ASSUME TablesInv, LimitInv, MonthlyLimit, NEW w \in Workers, Take(w)
  PROVE  TablesInv' /\ LimitInv' /\ MonthlyLimit'
<1>1. PICK page \in SUBSET Users : TakePage(w, page)
  BY DEF Take
<1> DEFINE j == [kind |-> "batch", month |-> 0, rows |-> page, todo |-> page,
                 granted |-> {}, accounts |-> {}]
<1>2. /\ job' = [job EXCEPT ![w] = j] /\ UNCHANGED <<user, referral, reward>>
      /\ page \subseteq Eligible /\ \A u \in page : RowFree(u)
  BY <1>1 DEF TakePage
<1>3. /\ j \in Batch /\ j.rows = page /\ j.todo = page /\ j.granted = {}
      /\ j.accounts = {}
  BY DEF Batch
<1> HIDE DEF j
<1>4. Fits(w, j)
  BY <1>2, <1>3 DEF Fits, Eligible, RowFree
<1>5. j \in Job /\ KeepsLimit(j)
  BY <1>3, Jobs DEF KeepsLimit
<1> QED
  BY <1>2, <1>4, <1>5, JobKeeps

LEMMA FailKeeps ==
  ASSUME TablesInv, LimitInv, MonthlyLimit, NEW w \in Workers, FailItem(w)
  PROVE  TablesInv' /\ LimitInv' /\ MonthlyLimit'
<1>1. PICK u \in Users : /\ w \in Batches /\ job' = [job EXCEPT ![w].todo = @ \ {u}]
                         /\ UNCHANGED <<user, referral, reward>>
  BY DEF FailItem
<1> DEFINE j == [job[w] EXCEPT !.todo = @ \ {u}]
<1>2. job[w] \in Batch /\ Open(w) /\ BatchInv(w)
  BY <1>1, BatchFacts DEF TablesInv
<1>3. /\ j \in Batch /\ j.rows = job[w].rows /\ j.todo = job[w].todo \ {u}
      /\ j.granted = job[w].granted /\ j.accounts = job[w].accounts
      /\ j.month = job[w].month
  BY <1>2 DEF Batch
<1>4. job' = [job EXCEPT ![w] = j]
  BY <1>1 DEF TablesInv, TypeOK
<1> HIDE DEF j
<1>5. Fits(w, j)
  BY <1>2, <1>3 DEF Fits, BatchInv, TablesInv, LocksExclusive
<1>6. KeepsLimit(j)
  BY <1>1, <1>3 DEF KeepsLimit, LimitInv, GrantedBy, GrantedTo
<1>7. j \in Job
  BY <1>3, Jobs
<1> QED
  BY <1>1, <1>4, <1>5, <1>6, <1>7, JobKeeps

\* The referrer of the item is locked; if the item is granted there was room.
LEMMA ProcessKeeps ==
  ASSUME TablesInv, LimitInv, MonthlyLimit, NEW w \in Workers, ProcessItem(w)
  PROVE  TablesInv' /\ LimitInv' /\ MonthlyLimit'
<1>1. PICK u \in Users : LET r == referral[u].referrer
                             pays == user[r] = "verified" /\ WithinLimit(w, r)
                         IN /\ w \in Batches /\ NextItem(w, u)
                            /\ Lockable(w, r)
                            /\ job' = [job EXCEPT
                                 ![w].todo = @ \ {u}, ![w].accounts = @ \cup {r},
                                 ![w].granted = IF pays THEN @ \cup {u} ELSE @]
                            /\ UNCHANGED <<user, referral, reward>>
  BY DEF ProcessItem
<1> DEFINE r == referral[u].referrer
           pays == user[r] = "verified" /\ WithinLimit(w, r)
           given == IF pays THEN job[w].granted \cup {u} ELSE job[w].granted
           j == [job[w] EXCEPT !.todo = @ \ {u}, !.accounts = @ \cup {r},
                               !.granted = given]
<1>2. /\ w \in Batches /\ job[w] \in Batch /\ Open(w) /\ BatchInv(w)
      /\ u \in job[w].todo /\ u \in job[w].rows /\ r \in Users
      /\ \A v \in job[w].todo : r <= referral[v].referrer
  BY <1>1, BatchFacts DEF TablesInv, NextItem, BatchInv
<1>3. /\ given \subseteq Users
      /\ job[w].granted \subseteq given /\ given \subseteq job[w].granted \cup {u}
  BY <1>2 DEF Batch
<1>4. given # job[w].granted => WithinLimit(w, r)
  OBVIOUS
<1>5. \A v \in Workers \ {w} : Open(v) => r \notin job[v].accounts
  BY <1>1 DEF Lockable, AccountFree, Open
<1>6. job' = [job EXCEPT ![w] = j] /\ UNCHANGED <<user, referral, reward>>
  BY <1>1 DEF TablesInv, TypeOK
<1> HIDE DEF given
<1>7. /\ j \in Batch /\ j.rows = job[w].rows /\ j.todo = job[w].todo \ {u}
      /\ j.granted = given /\ j.accounts = job[w].accounts \cup {r}
      /\ j.month = job[w].month
  BY <1>2, <1>3 DEF Batch
<1> HIDE DEF j, pays
<1>8. Fits(w, j)
  BY <1>2, <1>3, <1>5, <1>7 DEF Fits, BatchInv, TablesInv, LocksExclusive
<1>9. KeepsLimit(j)
  <2> SUFFICES ASSUME NEW q \in job[w].accounts \cup {r}
               PROVE  Cardinality(RewardsIn(q, job[w].month))
                        + Cardinality(GrantedBy(j, q)) <= Limit
    BY <1>7 DEF KeepsLimit
  <2> DEFINE R == RewardsIn(q, job[w].month)
             G == GrantedTo(w, q)
  <2>1. Cardinality(R) \in Nat /\ Cardinality(G) \in Nat /\ IsFiniteSet(G)
    BY <1>2, Finite DEF RewardsIn, GrantedTo, Batch
  <2>2. Cardinality(R) + Cardinality(G) <= Limit
    <3>1. CASE q \in job[w].accounts
      BY <1>2, <3>1 DEF LimitInv
    <3>2. CASE q \notin job[w].accounts
      <4>1. G = {}
        BY <1>2, <3>2 DEF GrantedTo, BatchInv
      <4>2. Cardinality(R) <= Limit
        BY <1>2 DEF MonthlyLimit, Batch
      <4> QED
        BY <2>1, <4>1, <4>2, FS_EmptySet, ReferralsAssumption
    <3> QED
      BY <3>1, <3>2
  <2>3. CASE q # r \/ given = job[w].granted
    <3>1. \A v \in given : referral[v].referrer = q => v \in job[w].granted
      BY <1>3, <2>3
    <3>2. GrantedBy(j, q) = G
      BY <1>3, <1>7, <3>1 DEF GrantedBy, GrantedTo
    <3> QED
      BY <2>2, <3>2
  <2>4. CASE q = r /\ given # job[w].granted
    <3>1. GrantedBy(j, q) = G \cup {u}
      BY <1>3, <1>7, <2>4 DEF GrantedBy, GrantedTo
    <3>2. Cardinality(R) + Cardinality(G) < Limit
      BY <1>4, <2>4 DEF WithinLimit
    <3>3. Cardinality(G \cup {u}) <= Cardinality(G) + 1
      <4> HIDE DEF G
      <4>1. Cardinality(G \cup {u}) = IF u \in G THEN Cardinality(G) ELSE Cardinality(G) + 1
        BY <2>1, FS_AddElement
      <4> QED
        BY <2>1, <4>1
    <3>4. Cardinality(G \cup {u}) \in Nat
      BY <2>1, FS_AddElement, FS_CardinalityType
    <3> QED
      BY <2>1, <3>1, <3>2, <3>3, <3>4, ReferralsAssumption
  <2> QED
    BY <2>3, <2>4
<1>10. j \in Job
  BY <1>7, Jobs
<1> QED
  BY <1>6, <1>8, <1>9, <1>10, JobKeeps

LEMMA StartDeleteKeeps ==
  ASSUME TablesInv, LimitInv, MonthlyLimit, NEW w \in Workers, NEW u \in Users,
         StartDelete(w, u)
  PROVE  TablesInv' /\ LimitInv' /\ MonthlyLimit'
<1> DEFINE j == [kind |-> "delete", accounts |-> {u}]
<1>1. /\ job' = [job EXCEPT ![w] = j] /\ UNCHANGED <<user, referral, reward>>
      /\ AccountFree(w, u)
  BY DEF StartDelete
<1>2. j \in Deletion /\ j.accounts = {u}
  BY DEF Deletion
<1> HIDE DEF j
<1>3. j \notin Batch /\ j \in Job
  BY <1>2, Jobs
<1>4. Fits(w, j) /\ KeepsLimit(j)
  BY <1>1, <1>2, <1>3 DEF Fits, KeepsLimit, AccountFree, Open
<1> QED
  BY <1>1, <1>3, <1>4, JobKeeps

LEMMA CrashKeeps ==
  ASSUME TablesInv, LimitInv, MonthlyLimit, NEW w \in Workers, Crash(w)
  PROVE  TablesInv' /\ LimitInv' /\ MonthlyLimit'
<1>1. job' = [job EXCEPT ![w] = Idle] /\ UNCHANGED <<user, referral, reward>>
  BY DEF Crash
<1>2. Idle \in Job /\ Fits(w, Idle) /\ KeepsLimit(Idle)
  BY Jobs DEF Fits, KeepsLimit
<1> QED
  BY <1>1, <1>2, JobKeeps

-----------------------------------------------------------------------------
(***************************************************************************)
(* A batch commits.                                                        *)
(***************************************************************************)
LEMMA CommitKeeps ==
  ASSUME TablesInv, LimitInv, MonthlyLimit, NEW w \in Workers, CommitBatch(w)
  PROVE  TablesInv' /\ LimitInv' /\ MonthlyLimit'
<1> DEFINE paying == job[w].granted
           month == job[w].month
           made(u) == [referral[u] EXCEPT !.status = "valid"]
<1>1. /\ w \in Batches /\ job[w] \in Batch /\ BatchInv(w)
      /\ paying \subseteq Users /\ month \in {0, 1}
  BY BatchFacts DEF CommitBatch, TablesInv, Batch
<1>2. /\ referral' = [u \in Users |-> IF u \in paying THEN made(u) ELSE referral[u]]
      /\ reward' = [u \in Users |-> IF u \in paying THEN month ELSE reward[u]]
      /\ job' = [job EXCEPT ![w] = Idle] /\ UNCHANGED user
  BY DEF CommitBatch
<1>3. \A u \in paying :
        /\ referral[u] \in [status: {"pending"}, referrer: Users, old: BOOLEAN]
        /\ referral[u].old /\ referral[u] # NoReferral
  <2>1. \A u \in paying : /\ referral[u].status = "pending" /\ referral[u].old
                           /\ referral[u] \in Referral /\ referral[u] # NoReferral
    BY <1>1, ReferralFacts DEF BatchInv, TablesInv, TypeOK
  <2>2. \A r \in Referral : r.status = "pending" =>
          r \in [status: {"pending"}, referrer: Users, old: BOOLEAN]
    BY ReferralFacts DEF Referral, TablesInv
  <2> QED
    BY <2>1, <2>2
<1>4. \A u \in paying : /\ made(u) \in Referral /\ made(u).status = "valid"
                         /\ made(u).referrer = referral[u].referrer
  BY <1>3 DEF Referral
<1> HIDE DEF made
<1>5. TypeOK'
  <2>1. referral' \in [Users -> Referral]
    BY <1>2, <1>4 DEF TablesInv, TypeOK
  <2>2. reward' \in [Users -> 0 .. None]
    BY <1>1, <1>2 DEF TablesInv, TypeOK, None
  <2>3. job' \in [Workers -> Job]
    BY <1>2, Jobs DEF TablesInv, TypeOK
  <2> QED
    BY <1>2, <2>1, <2>2, <2>3 DEF TablesInv, TypeOK
<1>6. \A v \in Workers : job'[v] = IF v = w THEN Idle ELSE job[v]
  BY <1>2 DEF TablesInv, TypeOK
<1>7. Batches' = Batches \ {w}
  BY <1>6, Jobs DEF Batches
<1>8. \A v \in Batches \ {w} : \A u \in job[v].rows : u \in Users /\ referral'[u] = referral[u]
  BY <1>1, <1>2, BatchFacts DEF TablesInv, BatchInv
<1>9. ASSUME NEW v \in Batches' PROVE BatchInv(v)'
  <2>1. /\ v \in Batches \ {w} /\ v \in Workers /\ BatchInv(v)
        /\ \A x \in Batches' : x \in Workers /\ x \in Batches /\ job'[x] = job[x]
    BY <1>6, <1>7 DEF TablesInv, Batches
  <2>2. \A u \in job[v].rows : referral'[u] = referral[u]
    BY <1>8, <2>1
  <2> QED
    BY <2>1, <2>2 DEF BatchInv
<1>10. LocksExclusive'
  BY <1>6 DEF TablesInv, LocksExclusive, Open
<1>11. NewcomersUnreferred' /\ ValidIsRewarded'
  BY <1>1, <1>2, <1>3, <1>4 DEF TablesInv, NewcomersUnreferred, ValidIsRewarded, None
\* The month of the batch gets what it granted, the other months nothing.
<1>12. \A r, m : RewardsIn(r, m)' =
         IF m = month THEN RewardsIn(r, m) \cup GrantedTo(w, r) ELSE RewardsIn(r, m)
  <2> SUFFICES ASSUME NEW r, NEW m, NEW u \in Users
               PROVE  (u \in RewardsIn(r, m))' <=>
                        (u \in RewardsIn(r, m) \/ (m = month /\ u \in GrantedTo(w, r)))
    BY <1>1 DEF RewardsIn, GrantedTo
  <2>1. CASE u \in paying
    <3>1. referral'[u].status = "valid" /\ referral'[u].referrer = referral[u].referrer
          /\ reward'[u] = month /\ u \notin RewardsIn(r, m)
      BY <1>2, <1>3, <1>4, <2>1 DEF RewardsIn
    <3> QED
      BY <2>1, <3>1 DEF RewardsIn, GrantedTo
  <2>2. CASE u \notin paying
    BY <1>2, <2>2 DEF RewardsIn, GrantedTo
  <2> QED
    BY <2>1, <2>2
<1>13. \A r : GrantedTo(w, r) # {} => r \in job[w].accounts
  BY <1>1 DEF GrantedTo, BatchInv
<1>14. MonthlyLimit'
  <2> SUFFICES ASSUME NEW r \in Users, NEW m \in {0, 1}
               PROVE  Cardinality(RewardsIn(r, m)') <= Limit
    BY DEF MonthlyLimit
  <2> DEFINE R == RewardsIn(r, m)
             G == GrantedTo(w, r)
  <2>1. CASE m # month \/ G = {}
    <3>1. RewardsIn(r, m)' = R
      BY <1>12, <2>1
    <3> QED
      BY <3>1 DEF MonthlyLimit
  <2>2. CASE m = month /\ G # {}
    <3>1. Cardinality(R) + Cardinality(G) <= Limit
      BY <1>1, <1>13, <2>2 DEF LimitInv
    <3>2. /\ IsFiniteSet(R) /\ Cardinality(R) \in Nat
          /\ IsFiniteSet(G) /\ Cardinality(G) \in Nat
      BY <1>1, Finite DEF RewardsIn, GrantedTo
    <3>3. RewardsIn(r, m)' = R \cup G
      BY <1>12, <2>2
    <3> HIDE DEF R, G
    <3>4. Cardinality(R \cup G) = Cardinality(R) + Cardinality(G) - Cardinality(R \cap G)
          /\ Cardinality(R \cap G) \in Nat
      BY <3>2, FS_Union, FS_Subset, FS_CardinalityType
    <3> QED
      BY <3>1, <3>2, <3>3, <3>4, ReferralsAssumption
  <2> QED
    BY <2>1, <2>2
<1>15. LimitInv'
  <2> SUFFICES ASSUME NEW v \in Batches', NEW r \in job'[v].accounts
               PROVE  (Cardinality(RewardsIn(r, job[v].month))
                        + Cardinality(GrantedTo(v, r)) <= Limit)'
    BY DEF LimitInv
  <2>1. v \in Batches \ {w} /\ v \in Workers /\ job'[v] = job[v]
    BY <1>6, <1>7 DEF Batches
  <2>2. r \notin job[w].accounts
    BY <1>1, <2>1, BatchFacts DEF TablesInv, LocksExclusive
  <2>3. GrantedTo(w, r) = {}
    BY <1>13, <2>2
  <2> DEFINE m == job[v].month
  <2>4. RewardsIn(r, job[v].month)' = RewardsIn(r, m)
    <3>1. RewardsIn(r, job[v].month)' = {u \in Users : /\ referral'[u].status = "valid"
            /\ referral'[u].referrer = r /\ reward'[u] = m}
      BY <2>1 DEF RewardsIn
    <3>2. \A u \in Users : (referral'[u].status = "valid" /\ referral'[u].referrer = r
                              /\ reward'[u] = m) <=> u \in RewardsIn(r, m)
      BY <1>2, <1>3, <1>4, <2>3 DEF RewardsIn, GrantedTo
    <3> QED
      BY <3>1, <3>2 DEF RewardsIn
  <2>5. GrantedTo(v, r)' = GrantedTo(v, r)
    BY <1>8, <2>1 DEF GrantedTo, TablesInv, BatchInv
  <2> QED
    BY <2>1, <2>4, <2>5 DEF LimitInv
<1> QED
  BY <1>5, <1>9, <1>10, <1>11, <1>14, <1>15 DEF TablesInv

-----------------------------------------------------------------------------
(***************************************************************************)
(* A month ends; a deletion commits.                                       *)
(***************************************************************************)
LEMMA NewMonthKeeps ==
  ASSUME TablesInv, LimitInv, MonthlyLimit, NewMonth
  PROVE  TablesInv' /\ LimitInv' /\ MonthlyLimit'
<1> DEFINE later(j) == [j EXCEPT !.month = 1]
<1>1. /\ \A w \in Batches : job[w].month = 0
      /\ \A u \in Users : reward'[u] = IF reward[u] \in {0, 1} THEN reward[u] + 1 ELSE reward[u]
      /\ reward' \in [Users -> 0 .. None]
      /\ job' = [w \in Workers |-> IF w \in Batches THEN later(job[w]) ELSE job[w]]
      /\ UNCHANGED <<user, referral>>
  BY DEF NewMonth, None, TablesInv, TypeOK
<1>2. \A j \in Batch : /\ later(j) \in Batch /\ later(j).month = 1
                       /\ later(j).rows = j.rows /\ later(j).todo = j.todo
                       /\ later(j).granted = j.granted /\ later(j).accounts = j.accounts
  BY DEF Batch
<1>3. \A w \in Batches : w \in Workers /\ job[w] \in Batch
  BY JobFacts DEF TablesInv
<1> HIDE DEF later
<1>4. job' \in [Workers -> Job]
  BY <1>1, <1>2, <1>3, Jobs DEF TablesInv, TypeOK
<1>5. /\ Batches' = Batches
      /\ \A w \in Batches : /\ job'[w].month = 1 /\ job'[w].rows = job[w].rows
                            /\ job'[w].todo = job[w].todo
                            /\ job'[w].granted = job[w].granted
                            /\ job'[w].accounts = job[w].accounts
      /\ \A w \in Workers \ Batches : job'[w] = job[w]
  BY <1>1, <1>2, <1>3, Jobs DEF Batches
<1>6. \A w \in Workers : (Open(w)' <=> Open(w)) /\ job'[w].accounts = job[w].accounts
  BY <1>1, <1>2, <1>3, <1>5, Jobs DEF Open
<1>7. TypeOK' /\ LocksExclusive' /\ NewcomersUnreferred'
  BY <1>1, <1>4, <1>6 DEF TablesInv, TypeOK, LocksExclusive, NewcomersUnreferred
<1>8. ValidIsRewarded'
  BY <1>1 DEF TablesInv, TypeOK, ValidIsRewarded, None
<1>9. ASSUME NEW w \in Batches PROVE BatchInv(w)'
  BY <1>1, <1>5 DEF TablesInv, BatchInv
<1>10. \A r : RewardsIn(r, 1)' = RewardsIn(r, 0) /\ RewardsIn(r, 0)' = {}
  BY <1>1 DEF RewardsIn, TablesInv, TypeOK, None
<1>11. MonthlyLimit'
  BY <1>10, FS_EmptySet, ReferralsAssumption DEF MonthlyLimit
<1>12. LimitInv'
  <2> SUFFICES ASSUME NEW w \in Batches', NEW r \in job'[w].accounts
               PROVE  (Cardinality(RewardsIn(r, job[w].month))
                         + Cardinality(GrantedTo(w, r)) <= Limit)'
    BY DEF LimitInv
  <2>1. RewardsIn(r, job[w].month)' = RewardsIn(r, 1)'
    BY <1>5 DEF RewardsIn
  <2>2. GrantedTo(w, r)' = GrantedTo(w, r)
    BY <1>1, <1>5 DEF GrantedTo
  <2> QED
    BY <1>1, <1>5, <1>10, <2>1, <2>2 DEF LimitInv
<1> QED
  BY <1>5, <1>7, <1>8, <1>9, <1>11, <1>12 DEF TablesInv

LEMMA FinishDeleteKeeps ==
  ASSUME TablesInv, LimitInv, MonthlyLimit, NEW w \in Workers, FinishDelete(w)
  PROVE  TablesInv' /\ LimitInv' /\ MonthlyLimit'
<1>1. PICK u \in Users :
        LET gone == DeletedReferral(u) \cup (Touched(u) \ {u})
        IN /\ w \in Deletions
           /\ \A v \in Touched(u) : RowFree(v)
           /\ user' = [user EXCEPT ![u] = "deleted"]
           /\ referral' = [v \in Users |-> IF v \in gone THEN NoReferral
                                           ELSE referral[v]]
           /\ reward' = [v \in Users |-> IF v \in gone THEN None ELSE reward[v]]
           /\ job' = [job EXCEPT ![w] = Idle]
  BY DEF FinishDelete
<1> DEFINE gone == DeletedReferral(u) \cup (Touched(u) \ {u})
<1>2. gone \subseteq Touched(u) /\ gone \subseteq Users
  BY DEF DeletedReferral, Touched
<1> HIDE DEF gone
<1>3. /\ \A v \in Users : /\ referral'[v] = IF v \in gone THEN NoReferral ELSE referral[v]
                          /\ reward'[v] = IF v \in gone THEN None ELSE reward[v]
                          /\ user'[v] = IF v = u THEN "deleted" ELSE user[v]
      /\ \A v \in Workers : job'[v] = IF v = w THEN Idle ELSE job[v]
  BY <1>1 DEF TablesInv, TypeOK, gone
<1>4. TypeOK'
  <2>1. NoReferral \in Referral /\ None \in 0 .. None
    BY DEF Referral, None
  <2>2. referral' \in [Users -> Referral] /\ reward' \in [Users -> 0 .. None]
    BY <1>1, <2>1 DEF TablesInv, TypeOK, gone
  <2>3. job' \in [Workers -> Job]
    BY <1>1, Jobs DEF TablesInv, TypeOK
  <2>4. user' \in [Users -> {"absent", "new", "verified", "inactive", "deleted"}]
    BY <1>1 DEF TablesInv, TypeOK
  <2> QED
    BY <2>2, <2>3, <2>4 DEF TypeOK
<1>5. Batches' = Batches /\ w \notin Batches
  BY <1>1, <1>3, Jobs DEF Batches, Deletions
<1>6. \A v \in Batches : /\ v \in Workers /\ job'[v] = job[v]
                         /\ \A x \in job[v].rows : x \in Users /\ referral'[x] = referral[x]
  <2>1. \A v \in Batches : v \in Workers /\ \A x \in job[v].rows : x \in Users
    BY BatchFacts
  <2>2. \A x \in gone, v \in Batches : x \notin job[v].rows
    BY <1>1, <1>2 DEF RowFree
  <2> QED
    BY <1>3, <1>5, <2>1, <2>2
<1>7. LocksExclusive' /\ NewcomersUnreferred'
  BY <1>3 DEF TablesInv, LocksExclusive, NewcomersUnreferred, Open
<1>8. ValidIsRewarded'
  BY <1>3, ReferralFacts DEF TablesInv, ValidIsRewarded
<1>9. ASSUME NEW v \in Batches PROVE BatchInv(v)'
  BY <1>5, <1>6 DEF TablesInv, BatchInv
<1>10. ASSUME NEW r, NEW m \in {0, 1}
       PROVE  /\ Cardinality(RewardsIn(r, m)') \in Nat /\ Cardinality(RewardsIn(r, m)) \in Nat
              /\ Cardinality(RewardsIn(r, m)') <= Cardinality(RewardsIn(r, m))
  <2>1. RewardsIn(r, m)' \subseteq RewardsIn(r, m)
    BY <1>3 DEF RewardsIn, None
  <2>2. RewardsIn(r, m) \subseteq Users
    BY DEF RewardsIn
  <2>3. IsFiniteSet(RewardsIn(r, m)) /\ RewardsIn(r, m)' \subseteq Users
    BY <2>1, <2>2, Finite
  <2> QED
    BY <2>1, <2>2, <2>3, Finite, FS_Subset
<1>11. MonthlyLimit'
  BY <1>10, ReferralsAssumption DEF MonthlyLimit
<1>12. LimitInv'
  <2> SUFFICES ASSUME NEW v \in Batches', NEW r \in job'[v].accounts
               PROVE  (Cardinality(RewardsIn(r, job[v].month))
                         + Cardinality(GrantedTo(v, r)) <= Limit)'
    BY DEF LimitInv
  <2> DEFINE m == job[v].month
  <2>1. v \in Batches /\ v \in Workers /\ job'[v] = job[v] /\ m \in {0, 1}
    BY <1>5, <1>6, BatchFacts DEF Batch
  <2>2. GrantedTo(v, r)' = GrantedTo(v, r)
    BY <1>6, <2>1 DEF GrantedTo, TablesInv, BatchInv
  <2>3. RewardsIn(r, job[v].month)' = RewardsIn(r, m)'
    BY <2>1 DEF RewardsIn
  <2>4. Cardinality(RewardsIn(r, m)) + Cardinality(GrantedTo(v, r)) <= Limit
    BY <2>1 DEF LimitInv
  <2>5. Cardinality(GrantedTo(v, r)) \in Nat
    BY <2>1, BatchFacts, Finite DEF GrantedTo, Batch
  <2> QED
    BY <1>10, <2>1, <2>2, <2>3, <2>4, <2>5, ReferralsAssumption
<1> QED
  BY <1>4, <1>5, <1>7, <1>8, <1>9, <1>11, <1>12 DEF TablesInv

-----------------------------------------------------------------------------
(***************************************************************************)
(* The inductive invariant.                                                *)
(***************************************************************************)
IInv == TablesInv /\ LimitInv /\ MonthlyLimit

LEMMA IInvInit == Init => IInv
<1> SUFFICES ASSUME Init PROVE IInv
  OBVIOUS
<1>1. TypeOK
  BY Jobs DEF Init, TypeOK, Referral, None
<1>2. Batches = {} /\ \A w \in Workers : ~Open(w)
  BY Jobs DEF Init, Batches, Open
<1>3. NoReferral.status # "valid"
  BY DEF NoReferral
<1>4. NewcomersUnreferred /\ ValidIsRewarded
  BY <1>3 DEF Init, NewcomersUnreferred, ValidIsRewarded
<1>5. \A r, month : RewardsIn(r, month) = {}
  BY <1>3 DEF Init, RewardsIn
<1>6. MonthlyLimit
  BY <1>5, FS_EmptySet, ReferralsAssumption DEF MonthlyLimit
<1> QED
  BY <1>1, <1>2, <1>4, <1>6 DEF IInv, TablesInv, LimitInv, LocksExclusive

LEMMA IInvNext ==
  ASSUME IInv, [Next]_vars
  PROVE  IInv'
<1> USE DEF IInv
<1>1. ASSUME NEW u \in Users, Register(u) \/ Apply(u) \/ Verify(u) \/ Deactivate(u) \/ Ripen(u)
      PROVE  IInv'
  BY <1>1, RegisterStep, ApplyStep, AccountStep, RipenStep, UsersKeep
<1>2. ASSUME NEW w \in Workers, Take(w) \/ Work(w) \/ FailItem(w) \/ Crash(w)
      PROVE  IInv'
  BY <1>2, TakeKeeps, ProcessKeeps, CommitKeeps, FinishDeleteKeeps, FailKeeps, CrashKeeps
     DEF Work
<1>3. CASE BreakDeadlock
  <2>1. \E w \in Workers : FailItem(w) \/ Crash(w)
    BY <1>3 DEF BreakDeadlock, Batches, Deletions
  <2> QED
    BY <1>2, <2>1
<1>4. CASE NewMonth
  BY <1>4, NewMonthKeeps
<1>5. ASSUME NEW u \in Users, NEW w \in Workers, StartDelete(w, u)
      PROVE  IInv'
  BY <1>5, StartDeleteKeeps
<1>6. CASE UNCHANGED vars
  <2>1. UNCHANGED <<user, referral, reward, job>>
    BY <1>6 DEF vars
  <2>2. UsersStep /\ TypeOK' /\ NewcomersUnreferred'
    BY <2>1 DEF TablesInv, TypeOK, NewcomersUnreferred, UsersStep
  <2> QED
    BY <2>2, UsersKeep
<1> QED
  BY <1>1, <1>2, <1>3, <1>4, <1>5, <1>6 DEF Next

\* Rows, locks and referrals stay consistent, and what a batch has granted
\* under its locks counts under the limit before it commits.
THEOREM Inductive == Spec => []IInv
<1> QED
  BY IInvInit, IInvNext, PTL DEF Spec

-----------------------------------------------------------------------------
(***************************************************************************)
(* Theorems.                                                               *)
(***************************************************************************)

\* TypeOK: accounts, referrals, rewards and open transactions stay in their
\* domains.
THEOREM TypeCorrect == Spec => []TypeOK
<1>1. IInv => TypeOK
  BY DEF IInv, TablesInv
<1> QED
  BY <1>1, Inductive, PTL

\* MonthlyLimit: process_pending_referral counts the rewards of the month
\* under the lock of the referrer, so no referrer exceeds the limit, with any
\* number of batches, failures, deletions and turns of the month.
THEOREM LimitHolds == Spec => []MonthlyLimit
<1>1. IInv => MonthlyLimit
  BY DEF IInv
<1> QED
  BY <1>1, Inductive, PTL

\* ValidIsRewarded: a referral is marked valid with its reward or not at all.
THEOREM ValidMeansRewarded == Spec => []ValidIsRewarded
<1>1. IInv => ValidIsRewarded
  BY DEF IInv, TablesInv
<1> QED
  BY <1>1, Inductive, PTL

\* A batch with something to do has a next item: the least referrer.
LEMMA NextExists ==
  ASSUME TablesInv, NEW w \in Batches, job[w].todo # {}
  PROVE  \E u \in Users : NextItem(w, u)
<1> DEFINE T == {referral[u].referrer : u \in job[w].todo}
<1>1. job[w].todo \subseteq Users /\ T \subseteq Nat /\ T # {}
  <2>1. job[w].todo \subseteq job[w].rows
    BY DEF TablesInv, BatchInv
  <2>2. \A u \in job[w].todo : u \in Users /\ referral[u].referrer \in Nat
    BY <2>1, BatchFacts, ReferralsAssumption
  <2> QED
    BY <2>2
<1>2. \E n \in T : \A m \in T : <<m, n>> \notin OpToRel(<, Nat)
  BY <1>1, NatLessThanWellFounded, WFMin
<1>3. PICK n \in T : \A m \in T : ~(m < n)
  BY <1>1, <1>2 DEF OpToRel
<1>4. PICK u \in job[w].todo : referral[u].referrer = n
  BY <1>3
<1>5. \A v \in job[w].todo : referral[u].referrer <= referral[v].referrer
  <2> SUFFICES ASSUME NEW v \in job[w].todo
               PROVE  referral[u].referrer <= referral[v].referrer
    OBVIOUS
  <2>1. referral[v].referrer \in T /\ referral[u].referrer \in T
    OBVIOUS
  <2>2. referral[v].referrer \in Nat /\ n \in Nat /\ ~(referral[v].referrer < n)
    BY <1>1, <1>3, <2>1
  <2> QED
    BY <1>4, <2>2
<1> QED
  BY <1>1, <1>4, <1>5 DEF NextItem

\* BatchesNeverDeadlock: process_pending_referrals sorts its page by
\* referrer, so of two batches the one with the smaller next referrer cannot
\* have to wait for the other while that one waits for it.
THEOREM OrderPreventsDeadlock == Spec => []BatchesNeverDeadlock
<1>1. ASSUME IInv, NEW w \in Batches, NEW v \in Batches, w # v,
             WaitsFor(w, v), WaitsFor(v, w)
      PROVE  FALSE
  <2>1. TablesInv
    BY <1>1 DEF IInv
  <2>2. /\ w \in Workers /\ v \in Workers /\ Open(w) /\ Open(v)
        /\ w \notin Deletions /\ v \notin Deletions
    BY <2>1, BatchFacts, Jobs DEF Batches, Deletions
  <2>3. PICK a \in Users : NextItem(w, a) /\ referral[a].referrer \in job[v].accounts
    BY <1>1, <2>1, <2>2, NextExists DEF WaitsFor
  <2>4. PICK b \in Users : NextItem(v, b) /\ referral[b].referrer \in job[w].accounts
    BY <1>1, <2>1, <2>2, NextExists DEF WaitsFor
  <2>5. /\ referral[a].referrer <= referral[b].referrer
        /\ referral[b].referrer <= referral[a].referrer
    BY <2>1, <2>3, <2>4 DEF TablesInv, BatchInv, NextItem
  <2>6. referral[a].referrer \in Nat /\ referral[b].referrer \in Nat
    BY <2>1, <2>3, <2>4, BatchFacts, ReferralsAssumption DEF TablesInv, BatchInv, NextItem
  <2>7. referral[a].referrer = referral[b].referrer
    BY <2>5, <2>6
  <2> QED
    BY <1>1, <2>1, <2>2, <2>3, <2>4, <2>7 DEF TablesInv, LocksExclusive
<1>2. IInv => BatchesNeverDeadlock
  BY <1>1 DEF BatchesNeverDeadlock
<1> QED
  BY <1>2, Inductive, PTL

\* RewardsKept: only the deletion of the referrer takes a reward away;
\* preserve_valid_referral_history_on_user_delete keeps it when the referred
\* account goes.
THEOREM RewardsStay == Spec => RewardsKept
<1> DEFINE Stay == \A u \in Users :
                     reward[u] # None /\ reward'[u] = None
                       => user'[referral[u].referrer] = "deleted"
<1>1. ASSUME IInv, Next PROVE Stay
  <2>0. TypeOK /\ ValidIsRewarded /\ TablesInv
    BY <1>1 DEF IInv, TablesInv
  <2>1. CASE UNCHANGED reward
    BY <2>1
  <2>2. CASE NewMonth
    BY <2>0, <2>2 DEF NewMonth, TypeOK, None
  <2>3. ASSUME NEW w \in Workers, CommitBatch(w) PROVE Stay
    <3>1. job[w].month # None
      <4>1. job[w] \in Batch
        BY <2>0, <2>3, BatchFacts DEF CommitBatch
      <4> QED
        BY <4>1 DEF Batch, None
    <3> QED
      BY <2>3, <3>1 DEF CommitBatch
  <2>4. ASSUME NEW w \in Workers, FinishDelete(w) PROVE Stay
    <3>1. PICK d \in Users :
            LET gone == DeletedReferral(d) \cup (Touched(d) \ {d})
            IN /\ user' = [user EXCEPT ![d] = "deleted"]
               /\ reward' = [v \in Users |-> IF v \in gone THEN None ELSE reward[v]]
      BY <2>4 DEF FinishDelete
    <3>2. user'[d] = "deleted"
      BY <2>0, <3>1 DEF TypeOK
    <3>3. ASSUME NEW u \in Users, reward[u] # None, reward'[u] = None
          PROVE  u \in Touched(d) \ {d}
      <4>1. referral[u].status = "valid"
        BY <2>0, <3>3 DEF ValidIsRewarded
      <4>2. u \notin DeletedReferral(d)
        BY <4>1 DEF DeletedReferral
      <4> QED
        BY <3>1, <3>3, <4>2
    <3> QED
      BY <3>2, <3>3 DEF Touched
  <2>5. ASSUME NEW w \in Workers, FailItem(w) \/ Crash(w) PROVE UNCHANGED reward
    BY <2>5 DEF FailItem, Crash
  <2>6. ASSUME NEW w \in Workers, Take(w) \/ ProcessItem(w) PROVE UNCHANGED reward
    BY <2>6 DEF Take, TakePage, ProcessItem
  <2>7. ASSUME NEW u \in Users,
               \/ Register(u) \/ Apply(u) \/ Verify(u) \/ Deactivate(u) \/ Ripen(u)
               \/ \E w \in Workers : StartDelete(w, u)
        PROVE  UNCHANGED reward
    BY <2>7, Zenon DEF Register, Apply, Verify, Deactivate, Ripen, StartDelete
  <2>8. BreakDeadlock => UNCHANGED reward
    BY <2>5 DEF BreakDeadlock, Batches, Deletions
  <2>9. \/ UNCHANGED reward \/ NewMonth
        \/ \E w \in Workers : CommitBatch(w) \/ FinishDelete(w)
    BY <1>1, <2>5, <2>6, <2>7, <2>8 DEF Next, Work
  <2> QED
    BY <2>1, <2>2, <2>3, <2>4, <2>9
<1>2. UNCHANGED vars => Stay
  BY DEF vars
<1>3. IInv /\ [Next]_vars => [Stay]_vars
  BY <1>1, <1>2
<1> QED
  BY <1>3, Inductive, PTL DEF Spec, RewardsKept

-----------------------------------------------------------------------------
(***************************************************************************)
(* Folds, by induction over the subsets of a finite set and over numbers;  *)
(* an induction looks for a smallest counterexample.                       *)
(***************************************************************************)

\* A set of sets of elements of a finite set has a member from which no
\* element can be taken without leaving it.
LEMMA Smallest ==
  ASSUME NEW S, IsFiniteSet(S), NEW Bad \in SUBSET (SUBSET S), Bad # {}
  PROVE  \E s \in Bad : \A x \in s : s \ {x} \notin Bad
<1> DEFINE Sizes == {Cardinality(s) : s \in Bad}
<1>1. \A s \in Bad : IsFiniteSet(s) /\ Cardinality(s) \in Nat
  BY FS_Subset, FS_CardinalityType
<1>2. Sizes \subseteq Nat /\ Sizes # {}
  BY <1>1
<1> HIDE DEF Sizes
<1>3. \E n \in Sizes : \A m \in Sizes : <<m, n>> \notin OpToRel(<, Nat)
  BY <1>2, NatLessThanWellFounded, WFMin
<1>4. PICK n \in Sizes : \A m \in Sizes : ~(m < n)
  BY <1>2, <1>3 DEF OpToRel
<1>5. PICK s \in Bad : Cardinality(s) = n
  BY <1>4 DEF Sizes
<1>6. \A x \in s : s \ {x} \notin Bad
  <2> SUFFICES ASSUME NEW x \in s, s \ {x} \in Bad PROVE FALSE
    OBVIOUS
  <2>1. Cardinality(s \ {x}) = Cardinality(s) - 1
    BY <1>1, <1>5, FS_RemoveElement
  <2>2. Cardinality(s \ {x}) \in Sizes
    BY DEF Sizes
  <2> QED
    BY <1>1, <1>2, <1>4, <1>5, <2>1, <2>2
<1> QED
  BY <1>5, <1>6

\* A set of numbers below a bound without gaps at its start is everything.
LEMMA FirstNumber ==
  ASSUME NEW Bad \in SUBSET Nat, Bad # {}
  PROVE  \E n \in Bad : n = 0 \/ n - 1 \notin Bad
<1>1. \E n \in Bad : \A m \in Bad : <<m, n>> \notin OpToRel(<, Nat)
  BY NatLessThanWellFounded, WFMin
<1>2. PICK n \in Bad : \A m \in Bad : ~(m < n)
  BY <1>1 DEF OpToRel
<1> QED
  BY <1>2

\* A fold over the subsets of a finite set exists, whatever element is
\* taken next.
Takes(next, S) == /\ next \in [(SUBSET S) \ {{}} -> S]
                  /\ \A s \in (SUBSET S) \ {{}} : next[s] \in s

FoldOf(f, S, V, base, next, g) ==
  /\ f \in [SUBSET S -> V]
  /\ f[{}] = base
  /\ \A s \in (SUBSET S) \ {{}} : f[s] = g[<<next[s], f[s \ {next[s]}]>>]

LEMMA FoldExists ==
  ASSUME NEW S, IsFiniteSet(S), NEW V, NEW base \in V,
         NEW next, Takes(next, S), NEW g \in [S \X V -> V]
  PROVE  \E f : FoldOf(f, S, V, base, next, g)
<1>0. /\ next \in [(SUBSET S) \ {{}} -> S]
      /\ \A s \in (SUBSET S) \ {{}} : next[s] \in s
  BY DEF Takes
<1> DEFINE Sub(n) == {s \in SUBSET S : Cardinality(s) <= n}
           Folds(f, n) ==
             /\ f \in [Sub(n) -> V] /\ f[{}] = base
             /\ \A s \in Sub(n) \ {{}} : f[s] = g[<<next[s], f[s \ {next[s]}]>>]
           Bad == {n \in Nat : ~ \E f : Folds(f, n)}
<1>1. \A s \in SUBSET S : IsFiniteSet(s) /\ Cardinality(s) \in Nat
  BY FS_Subset, FS_CardinalityType
<1>2. \A s \in SUBSET S : Cardinality(s) = 0 <=> s = {}
  BY <1>1, FS_EmptySet
<1>3. \A s \in (SUBSET S) \ {{}} :
        /\ s \ {next[s]} \in SUBSET S
        /\ Cardinality(s \ {next[s]}) = Cardinality(s) - 1
  BY <1>0, <1>1, FS_RemoveElement
<1>4. \A n \in Nat : {} \in Sub(n)
  BY <1>1, <1>2
<1>5. \E f : Folds(f, 0)
  <2>1. Sub(0) = {{}}
    BY <1>1, <1>2
  <2> DEFINE f == [s \in Sub(0) |-> base]
  <2>2. Folds(f, 0)
    BY <2>1
  <2> QED
    BY <2>2
<1>6. ASSUME NEW n \in Nat, n # 0, NEW h, Folds(h, n - 1)
      PROVE  \E f : Folds(f, n)
  <2> DEFINE f == [s \in Sub(n) |-> IF s = {} THEN base
                                    ELSE g[<<next[s], h[s \ {next[s]}]>>]]
  <2>1. n - 1 \in Nat /\ n - 1 < n
    BY <1>6
  <2>2. \A s \in Sub(n) \ {{}} : /\ s \ {next[s]} \in Sub(n - 1)
                                 /\ next[s] \in S
    BY <1>0, <1>1, <1>3, <2>1
  <2>3. \A s \in Sub(n - 1) : s \in Sub(n)
    BY <1>1, <2>1
  <2>4. \A s \in Sub(n) \ {{}} : g[<<next[s], h[s \ {next[s]}]>>] \in V
    BY <1>6, <2>2
  <2>5. f \in [Sub(n) -> V] /\ f[{}] = base
    BY <1>4, <2>4
  <2>6. \A s \in Sub(n - 1) : f[s] = h[s]
    BY <1>6, <2>3
  <2> HIDE DEF Sub
  <2>7. \A s \in Sub(n) \ {{}} : f[s] = g[<<next[s], h[s \ {next[s]}]>>]
    OBVIOUS
  <2> HIDE DEF f
  <2>8. \A s \in Sub(n) \ {{}} : f[s] = g[<<next[s], f[s \ {next[s]}]>>]
    BY <2>2, <2>6, <2>7
  <2> QED
    BY <2>5, <2>8
<1> HIDE DEF Folds
<1>7. Bad = {}
  <2> SUFFICES ASSUME Bad # {} PROVE FALSE
    OBVIOUS
  <2>1. PICK n \in Bad : n = 0 \/ n - 1 \notin Bad
    BY FirstNumber
  <2>2. n # 0
    BY <1>5
  <2>3. n - 1 \in Nat
    BY <2>2
  <2>4. PICK h : Folds(h, n - 1)
    BY <2>1, <2>2, <2>3
  <2> QED
    BY <1>6, <2>2, <2>4
<1>8. Cardinality(S) \in Nat
  BY FS_CardinalityType
<1>9. PICK f : Folds(f, Cardinality(S))
  BY <1>7, <1>8
<1>10. Sub(Cardinality(S)) = SUBSET S
  <2>1. \A s \in SUBSET S : Cardinality(s) <= Cardinality(S)
    BY FS_Subset
  <2> QED
    BY <2>1
<1> HIDE DEF Sub
<1> QED
  BY <1>9, <1>10 DEF Folds, FoldOf

-----------------------------------------------------------------------------
(***************************************************************************)
(* RewardedAccount: one account with its subscription, its rewards and     *)
(* its creator's code.  The ledger stays typed, what is in it follows the  *)
(* attribution, and the paid milestone is the earliest of the events that  *)
(* were ever confirmed.                                                    *)
(***************************************************************************)
Milestones == [status: {"none", "active", "anonymized"}, at: Times,
               plus: Times, paid: Times]
Event      == [at: 1 .. MaxTime, status: Economic]
Ledgers    == [attribution: Milestones,
               events: [EventIds -> Event \cup {NoEvent}]]

\* An attribution has the time at which it was made; without one there are
\* no events.
LedgerTyped(l) ==
  /\ l \in Ledgers
  /\ l.attribution.status # "none" => l.attribution.at >= 1
  /\ l.attribution.status = "none" =>
       /\ l.attribution.paid = NoTime
       /\ \A id \in EventIds : l.events[id] = NoEvent

\* A row that was saved has its purchase, not after the clock.
AccountTables ==
  /\ clock \in 1 .. MaxTime
  /\ account \in {"exists", "deleted"}
  /\ holder \in {"guest", "account"}
  /\ rows \in [Tx -> Row]
  /\ \A t \in Tx : rows[t] # NoRow => rows[t].purchase \in 1 .. clock
  /\ granted \in [Rewards -> Times]
  /\ DOMAIN stored = DOMAIN NoEntitlement
  /\ paid \subseteq Tx
  /\ LedgerTyped(ledger)
  /\ ledger.attribution.at <= clock
  /\ AccountExists => ledger.attribution.status # "anonymized"

\* What was confirmed is in `paid`, and the milestone is one of its events
\* and not after any of them.
MilestoneOf(l, done) ==
  /\ \A t \in Tx : l.events[t].status = "confirmed" => t \in done
  /\ \A t \in done : /\ l.events[t] # NoEvent
                     /\ l.attribution.paid <= l.events[t].at
  /\ IF done = {} THEN l.attribution.paid = NoTime
     ELSE \E t \in done : l.attribution.paid = l.events[t].at

\* The event of a transaction is of its purchase.
BoughtDates(l, saved) ==
  \A t \in Tx : l.events[t] # NoEvent => l.events[t].at = saved[t].purchase

StatusOf(row) == Economics!EconomicStatus(row)

\* PurchasesCounted, of any ledger and of one row.
CountedAs(l, row, t) ==
  /\ l.attribution.status = "active"
  /\ row.purchase > l.attribution.at
  /\ row.revoked = NoTime \/ StatusOf(row) = "refunded"
  => /\ l.events[t].at = row.purchase
     /\ l.events[t].status = "refunded" <=> StatusOf(row) = "refunded"

AccountInv ==
  /\ AccountTables
  /\ EventsFollowAttribution
  /\ MilestoneOf(ledger, paid)
  /\ AccountExists => BoughtDates(ledger, rows)
  /\ PurchasesCounted

-----------------------------------------------------------------------------
LEMMA AccountConstants ==
  /\ MaxTime \in Nat \ {0} /\ Period \in Nat \ {0} /\ CodeWindow \in Nat \ {0}
  /\ Tx \subseteq EventIds /\ Rewards \subseteq EventIds /\ Promo \in EventIds
  /\ Promo \notin Tx /\ \A r \in Referrals : r \in EventIds /\ r \notin Tx
  /\ Promo \in Rewards /\ Referrals \subseteq Rewards
BY AccountAssumption, TransactionsAssumption DEF EventIds, Rewards, Tx

LEMMA EventFacts ==
  /\ NoEvent \notin Event
  /\ \A e \in Event : e.at \in 1 .. MaxTime /\ e.status \in Economic
  /\ NoEvent.status = "none"
  /\ \A e \in Event \cup {NoEvent} : e # NoEvent => e \in Event
BY DEF NoEvent, Event, NoTime

\* A reconciliation always gives the three components of an entitlement.
LEMMA ReconciledFacts ==
  ASSUME NEW saved, NEW owner, NEW rewards
  PROVE  DOMAIN Reconciled(saved, owner, rewards) = DOMAIN NoEntitlement
BY DEF Reconciled, Entitlement, NoEntitlement

\* From l to next, rewards got their events, under an attribution.
AddsRewards(l, next) ==
  /\ next \in Ledgers
  /\ next.attribution.status = l.attribution.status
  /\ next.attribution.at = l.attribution.at
  /\ next.attribution.paid = l.attribution.paid
  /\ \A id \in EventIds :
       \/ next.events[id] = l.events[id]
       \/ /\ id \in Referrals \cup {Promo} /\ l.events[id] = NoEvent
          /\ l.attribution.status # "none"
          /\ next.events[id].status = "unknown"
          /\ next.events[id].at >= l.attribution.at

\* Acquiring the promotion adds its event, once.
LEMMA PromoFacts ==
  ASSUME NEW l \in Ledgers, NEW now \in 1 .. MaxTime,
         l.attribution.at <= now, l.attribution.status # "none"
  PROVE  AddsRewards(l, PromoEvent(l, now))
<1> DEFINE events == Insert(l.events, Promo, now, "unknown")
           plus == Earliest(l.attribution.plus, events[Promo].at)
           event == [at |-> now, status |-> "unknown"]
<1>1. event \in Event
  BY DEF Event, Economic
<1>2. /\ events \in [EventIds -> Event \cup {NoEvent}]
      /\ \A id \in EventIds : \/ events[id] = l.events[id]
                              \/ /\ id = Promo /\ l.events[id] = NoEvent
                                 /\ events[id] = event
      /\ events[Promo] \in Event
  BY <1>1, AccountConstants, EventFacts DEF Insert, Ledgers
<1>3. plus \in Times
  BY <1>2, EventFacts, AccountConstants DEF Earliest, Ledgers, Milestones,
     Times, NoTime
<1> HIDE DEF events, plus, event
<1> DEFINE moved == [l.attribution EXCEPT !.plus = plus]
<1>9. /\ moved \in Milestones /\ moved.status = l.attribution.status
      /\ moved.at = l.attribution.at /\ moved.paid = l.attribution.paid
  BY <1>3 DEF Ledgers, Milestones
<1>8. PromoEvent(l, now) = [l EXCEPT !.events = events,
                                     !.attribution.plus = plus]
  BY DEF PromoEvent, events, plus
<1>4. PromoEvent(l, now) = [attribution |-> moved, events |-> events]
  <2>1. l = [attribution |-> l.attribution, events |-> l.events]
    BY DEF Ledgers
  <2> QED
    BY <1>8, <2>1
<1> HIDE DEF moved
<1>5. PromoEvent(l, now) \in Ledgers
      /\ PromoEvent(l, now).events = events
      /\ PromoEvent(l, now).attribution.status = l.attribution.status
      /\ PromoEvent(l, now).attribution.at = l.attribution.at
      /\ PromoEvent(l, now).attribution.paid = l.attribution.paid
  BY <1>2, <1>4, <1>9 DEF Ledgers
<1> QED
  BY <1>2, <1>5 DEF event, AddsRewards

\* A reward leaves the ledger alone, or adds its event if none was there.
LEMMA ReferralEventFacts ==
  ASSUME NEW l \in Ledgers, NEW r \in Referrals, NEW at \in 1 .. MaxTime
  PROVE  AddsRewards(l, ReferralConversion(l, r, at))
<1> DEFINE events == Insert(l.events, r, at, "unknown")
           plus == IfUnset(l.attribution.plus, at)
           event == [at |-> at, status |-> "unknown"]
           skip == l.attribution.status # "active" \/ at < l.attribution.at
<1>1. event \in Event
  BY DEF Event, Economic
<1>2. /\ events \in [EventIds -> Event \cup {NoEvent}]
      /\ \A id \in EventIds : \/ events[id] = l.events[id]
                              \/ /\ id = r /\ l.events[id] = NoEvent
                                 /\ events[id] = event
  BY <1>1, AccountConstants, EventFacts DEF Insert, Ledgers
<1>3. plus \in Times /\ l.attribution.at \in Nat
  BY AccountConstants DEF IfUnset, Ledgers, Milestones, Times
<1> HIDE DEF events, plus, event
<1> DEFINE moved == [l.attribution EXCEPT !.plus = plus]
<1>9. /\ moved \in Milestones /\ moved.status = l.attribution.status
      /\ moved.at = l.attribution.at /\ moved.paid = l.attribution.paid
  BY <1>3 DEF Ledgers, Milestones
<1>8. ReferralConversion(l, r, at) =
        IF skip THEN l
        ELSE [l EXCEPT !.events = events, !.attribution.plus = plus]
  BY DEF ReferralConversion, events, plus
<1>4. ReferralConversion(l, r, at) =
        IF skip THEN l ELSE [attribution |-> moved, events |-> events]
  <2>1. l = [attribution |-> l.attribution, events |-> l.events]
    BY DEF Ledgers
  <2> QED
    BY <1>8, <2>1
<1> HIDE DEF moved
<1>5. CASE skip
  BY <1>4, <1>5 DEF AddsRewards
<1>6. CASE ~skip
  <2>1. /\ ReferralConversion(l, r, at) \in Ledgers
        /\ ReferralConversion(l, r, at).events = events
        /\ ReferralConversion(l, r, at).attribution.status
             = l.attribution.status
        /\ ReferralConversion(l, r, at).attribution.at = l.attribution.at
        /\ ReferralConversion(l, r, at).attribution.paid = l.attribution.paid
    BY <1>2, <1>4, <1>6, <1>9 DEF Ledgers
  <2> QED
    BY <1>2, <1>3, <1>6, <2>1 DEF event, AddsRewards
<1> QED
  BY <1>5, <1>6

\* Every row has an economic status.
LEMMA StatusTyped == \A row : StatusOf(row) \in Economic
BY DEF StatusOf, Economics!EconomicStatus, Economic

\* A saved transaction leaves the ledger alone, or writes its own event and
\* moves the milestones.
LEMMA AppleFacts ==
  ASSUME NEW l, LedgerTyped(l), NEW saved \in [Tx -> Row], NEW t \in Tx
  PROVE  LET next == Conversion(l, saved, t)
         IN \/ /\ next = l
               /\ ~(/\ t \in Purchases /\ l.attribution.status = "active"
                    /\ saved[t].purchase >= l.attribution.at
                    /\ saved[t].revoked = NoTime
                         \/ StatusOf(saved[t]) = "refunded")
            \/ /\ next \in Ledgers
               /\ l.attribution.status = "active"
               /\ next.attribution.status = "active"
               /\ next.attribution.at = l.attribution.at
               /\ \A id \in EventIds \ {t} : next.events[id] = l.events[id]
               /\ next.events[t] \in Event
               /\ next.events[t].status = StatusOf(saved[t])
               /\ \/ /\ l.events[t] # NoEvent
                     /\ next.events[t].at = l.events[t].at
                  \/ /\ l.events[t] = NoEvent
                     /\ next.events[t].at = saved[t].purchase
                     /\ saved[t].purchase >= l.attribution.at
                     /\ \/ t \in Purchases
                        \/ \E p \in Purchases :
                             saved[p].purchase >= l.attribution.at
               /\ next.attribution.paid =
                    IF StatusOf(saved[t]) = "confirmed"
                      THEN Earliest(l.attribution.paid, next.events[t].at)
                      ELSE l.attribution.paid
<1> DEFINE row == saved[t]
           status == StatusOf(row)
           known == l.events[t] # NoEvent
           at == IF known THEN l.events[t].at ELSE row.purchase
           event == [at |-> at, status |-> status]
           counts ==
             /\ row.revoked = NoTime \/ status = "refunded"
             /\ l.attribution.status = "active"
             /\ row.purchase >= l.attribution.at
             /\ known \/ t \in Purchases
                  \/ BoughtSince(saved, l.attribution.at)
           plus == PlusMilestone(l.attribution, t, at, status)
           both == PaidMilestone(plus, at, status)
           next == Conversion(l, saved, t)
<1>1. next = IF ~counts THEN l
             ELSE [events |-> [l.events EXCEPT ![t] = event],
                   attribution |-> both]
  BY DEF AppleConversion, Conversion, StatusOf
<1>2. CASE ~counts
  BY <1>1, <1>2
<1>3. CASE counts
  <2>1. /\ l.attribution \in Milestones /\ l.attribution.at >= 1
        /\ l.events \in [EventIds -> Event \cup {NoEvent}] /\ t \in EventIds
        /\ row \in Row
    BY <1>3, AccountConstants DEF LedgerTyped, Ledgers
  <2>2. /\ row.purchase \in 0 .. MaxTime /\ status \in Economic
        /\ l.attribution.at \in 0 .. MaxTime
    BY <2>1, StatusTyped DEF Row, Times, Milestones
  <2>3. at \in 1 .. MaxTime
    BY <1>3, <2>1, <2>2, EventFacts, AccountConstants
  <2>4. event \in Event
    BY <2>2, <2>3 DEF Event
  <2> HIDE DEF at
  <2>5. /\ plus \in Milestones /\ plus.status = l.attribution.status
        /\ plus.at = l.attribution.at /\ plus.paid = l.attribution.paid
    BY <2>1, <2>3, AccountConstants DEF PlusMilestone, IfUnset, Milestones,
       Times
  <2> HIDE DEF plus
  <2>6. /\ both \in Milestones /\ both.status = plus.status
        /\ both.at = plus.at
        /\ both.paid = IF status = "confirmed"
                         THEN Earliest(plus.paid, at) ELSE plus.paid
    BY <2>3, <2>5, AccountConstants DEF PaidMilestone, Earliest, Milestones,
       Times
  <2> HIDE DEF both, event
  <2>7. /\ next.events = [l.events EXCEPT ![t] = event]
        /\ next.attribution = both /\ next \in Ledgers
    BY <1>1, <1>3, <2>1, <2>4, <2>6 DEF Ledgers
  <2>8. /\ next.events[t] = event
        /\ \A id \in EventIds \ {t} : next.events[id] = l.events[id]
        /\ event.at = at /\ event.status = status
    BY <2>1, <2>7 DEF event
  <2>9. t \in Purchases \/ known
          \/ \E p \in Purchases : saved[p].purchase >= l.attribution.at
    BY <1>3 DEF BoughtSince
  <2>10. /\ l.attribution.status = "active"
         /\ saved[t].purchase >= l.attribution.at
    BY <1>3
  <2> HIDE DEF next
  <2>11. \/ known /\ next.events[t].at = l.events[t].at
         \/ ~known /\ next.events[t].at = saved[t].purchase
    BY <2>8 DEF at
  <2>12. next.attribution.paid =
           IF StatusOf(saved[t]) = "confirmed"
             THEN Earliest(l.attribution.paid, next.events[t].at)
             ELSE l.attribution.paid
    BY <2>5, <2>6, <2>7, <2>8
  <2> QED
    BY <2>4, <2>5, <2>6, <2>7, <2>8, <2>9, <2>10, <2>11, <2>12 DEF next
<1> QED
  BY <1>2, <1>3

\* A conversion keeps the ledger typed, touches one event, and counts a
\* purchase as its row says.
LEMMA AppleTyped ==
  ASSUME NEW l, LedgerTyped(l), NEW saved \in [Tx -> Row], NEW t \in Tx
  PROVE  LedgerTyped(Conversion(l, saved, t))
<1> DEFINE next == Conversion(l, saved, t)
<1>1. \/ next = l
      \/ /\ next \in Ledgers /\ next.attribution.status = "active"
         /\ l.attribution.status = "active"
         /\ next.attribution.at = l.attribution.at
  BY AppleFacts
<1> HIDE DEF next
<1>2. LedgerTyped(next)
  BY <1>1 DEF LedgerTyped
<1> QED
  BY <1>2 DEF next

LEMMA AppleCounts ==
  ASSUME NEW l, LedgerTyped(l), NEW saved \in [Tx -> Row], NEW t \in Tx,
         BoughtDates(l, saved), NEW next, next = Conversion(l, saved, t)
  PROVE  /\ BoughtDates(next, saved)
         /\ \A u \in Tx \ {t} : next.events[u] = l.events[u]
         /\ t \in Purchases => CountedAs(next, saved[t], t)
<1> DEFINE kept ==
             /\ next = l
             /\ ~(/\ t \in Purchases /\ l.attribution.status = "active"
                  /\ saved[t].purchase >= l.attribution.at
                  /\ saved[t].revoked = NoTime
                       \/ StatusOf(saved[t]) = "refunded")
           written ==
             /\ next.attribution.at = l.attribution.at
             /\ \A id \in EventIds \ {t} : next.events[id] = l.events[id]
             /\ next.events[t].status = StatusOf(saved[t])
             /\ next.events[t].at = saved[t].purchase
<1>1. kept \/ written
  BY AppleFacts DEF BoughtDates
<1>2. CASE kept
  <2>1. saved[t].purchase \in Nat /\ l.attribution.at \in Nat
    BY AccountConstants DEF Row, Times, LedgerTyped, Ledgers, Milestones
  <2> QED
    BY <1>2, <2>1 DEF CountedAs
<1>3. CASE written
  BY <1>3, AccountConstants DEF CountedAs, BoughtDates
<1> QED
  BY <1>1, <1>2, <1>3

-----------------------------------------------------------------------------
\* What a message makes of a row: it stays typed and keeps its purchase, and
\* what no conversion is recorded of leaves its revocation alone.
LEMMA SavedFacts ==
  ASSUME AccountTables, NEW t \in Tx, NEW tx \in Messages(t)
  PROVE  /\ Saved(t, tx) \in Row /\ Saved(t, tx).purchase \in 1 .. clock
         /\ rows[t] # NoRow => Saved(t, tx).purchase = rows[t].purchase
         /\ ~Recorded(t, tx) =>
              /\ rows[t] # NoRow
              /\ Saved(t, tx).revoked = rows[t].revoked
              /\ StatusOf(Saved(t, tx)) = "refunded"
                   <=> StatusOf(rows[t]) = "refunded"
<1> DEFINE row == Dated(rows[t])
           reduction == Economics!Reduce(row.adjustment, row.adjustedAt,
                                         tx.adjustment, tx.adjustedAt)
           changed == Economics!SaveExisting(row, tx)
           inserted == Economics!SaveNew(tx)
           new == Saved(t, tx)
           Kinds == {"none"} \cup Economics!Adjustments
           Signs == {Economics!NoPrice, "paid"}
<1>1. rows[t] \in Row /\ (rows[t] = NoRow \/ rows[t].purchase \in 1 .. clock)
  BY DEF AccountTables
<1>2. /\ tx.purchase \in 1 .. clock /\ tx.expires \in 1 .. MaxTime + Period
      /\ rows[t] # NoRow => tx.purchase = rows[t].purchase
      /\ tx.revoked \in Times /\ tx.price \in Signs
      /\ tx.adjustment \in {"none", "refund", "revoke", "refund_reversed"}
      /\ tx.signed \in 1 .. 4 /\ tx.grace = 0 /\ tx.pricedAt = 1
      /\ tx.adjustedAt = IF tx.adjustment = "none" THEN 0 ELSE tx.signed
  <2> DEFINE Bought == IF rows[t] = NoRow THEN 1 .. clock
                       ELSE {rows[t].purchase}
             Shown == {Economics!NoPrice, "paid"}
             Sent == {"none"} \cup Adjusting
             At(s, a) == IF a = "none" THEN 0 ELSE s
             Made(p, s, days, r, price, a) ==
               [purchase |-> p, signed |-> s, expires |-> p + days,
                grace |-> 0, revoked |-> r, price |-> price, pricedAt |-> 1,
                adjustment |-> a, adjustedAt |-> At(s, a)]
  <2>0. tx \in {Made(p, s, days, r, price, a) :
                 p \in Bought, s \in 1 .. 4, days \in 1 .. Period,
                 r \in {NoTime, clock}, price \in Shown, a \in Sent}
    BY DEF Messages, Signed, Economics!Unset
  <2> HIDE DEF Bought, Shown, Sent, Made
  <2>5. PICK p \in Bought, s \in 1 .. 4, days \in 1 .. Period,
             r \in {NoTime, clock}, price \in Shown, a \in Sent :
          tx = Made(p, s, days, r, price, a)
    BY <2>0
  <2>1. /\ tx = [purchase |-> p, signed |-> s, expires |-> p + days,
                grace |-> 0, revoked |-> r, price |-> price, pricedAt |-> 1,
                adjustment |-> a, adjustedAt |-> At(s, a)]
        /\ p \in IF rows[t] = NoRow THEN 1 .. clock ELSE {rows[t].purchase}
        /\ price \in Signs /\ a \in {"none"} \cup Adjusting
    BY <2>5 DEF Made, Bought, Shown, Sent
  <2>2. /\ p \in 1 .. clock /\ clock \in 1 .. MaxTime
        /\ rows[t] # NoRow => p = rows[t].purchase
    BY <1>1, <2>1 DEF AccountTables
  <2>3. p + days \in 1 .. MaxTime + Period
    BY <2>1, <2>2, AccountConstants
  <2>4. r \in Times
    BY <2>1, <2>2, AccountConstants DEF Times, NoTime
  <2>6. a \in {"none", "refund", "revoke", "refund_reversed"}
    BY <2>1, AccountAssumption
  <2> QED
    BY <2>1, <2>2, <2>3, <2>4, <2>6
<1>3. /\ row.adjustment = rows[t].adjustment /\ row.expires = rows[t].until
      /\ row.revoked = rows[t].revoked /\ row.price = rows[t].price
      /\ row.adjustedAt = IF row.adjustment = "none" THEN 0 ELSE 2
  BY DEF Dated, Economics!Unset
<1>4. rows[t].until \in 0 .. MaxTime + Period /\ rows[t].revoked \in Times
      /\ rows[t].adjustment \in Kinds /\ rows[t].price \in Signs
  BY <1>1 DEF Row
<1>5. reduction.adjustment \in Kinds
  BY <1>2, <1>3, <1>4 DEF Economics!Reduce, Economics!NextAdjustment,
     Economics!Adjustments, Economics!NoAdjustment
<1>6. /\ changed.expires \in 0 .. MaxTime + Period
      /\ changed.revoked \in Times /\ changed.adjustment \in Kinds
      /\ changed.price \in Signs
      /\ ~reduction.accepted /\ tx.adjustment # "none" =>
           /\ changed.revoked = rows[t].revoked
           /\ changed.adjustment = rows[t].adjustment
  <2> DEFINE Ledger ==
               [signed: Nat, expires: 0 .. MaxTime + Period, grace: Nat,
                revoked: Times, price: Signs, pricedAt: Nat,
                adjustment: Kinds, adjustedAt: Nat]
             applies == Economics!AppliesRevocation(row, tx, reduction)
             context == Economics!UpdateContext(row, tx, reduction)
             evidence == Economics!UpdateEvidence(context, tx)
             rejected == ~reduction.accepted /\ tx.adjustment # "none"
  <2>1. row \in Ledger
    BY <1>4, AccountConstants DEF Dated, Economics!Unset
  <2>2. tx.expires \in 0 .. MaxTime + Period
    BY <1>2, AccountConstants
  <2>3. reduction.at \in Nat /\ (reduction.changed => reduction.accepted)
    BY <1>2, <1>3 DEF Economics!Reduce, Economics!NoAdjustment,
       Economics!Unset
  <2>4. changed = Economics!UpdateAdjustment(evidence, applies, tx, reduction)
    BY DEF Economics!SaveExisting
  <2> HIDE DEF row, reduction, applies, changed
  <2>5. context \in Ledger /\ (rejected => context = row)
    <3> DEFINE accepts == Economics!AcceptsContext(row, tx, reduction)
               until == Economics!Coalesce(tx.expires, row.expires)
               end == IF Economics!PreservesRevocation(row, tx, reduction)
                        THEN row.revoked ELSE tx.revoked
               a == [row EXCEPT !.signed = tx.signed]
               b == [a EXCEPT !.expires = until]
               c == [b EXCEPT !.grace = tx.grace]
               d == [c EXCEPT !.revoked = end]
    <3>1. context = IF accepts THEN d ELSE row
      BY <2>1 DEF Economics!UpdateContext
    <3>2. accepts => ~rejected
      BY DEF Economics!AcceptsContext, Economics!NoAdjustment
    <3>3. until \in 0 .. MaxTime + Period /\ end \in Times
      BY <1>2, <2>1, <2>2 DEF Economics!Coalesce
    <3> HIDE DEF accepts, until, end
    <3>4. a \in Ledger
      BY <1>2, <2>1
    <3> HIDE DEF a
    <3>5. b \in Ledger
      BY <3>3, <3>4
    <3> HIDE DEF b
    <3>6. c \in Ledger
      BY <1>2, <3>5
    <3> HIDE DEF c
    <3>7. d \in Ledger
      BY <3>3, <3>6
    <3> QED
      BY <2>1, <3>1, <3>2, <3>7
  <2> HIDE DEF context
  <2>6. /\ evidence \in Ledger /\ evidence.revoked = context.revoked
        /\ evidence.adjustment = context.adjustment
    <3> DEFINE a == [context EXCEPT !.price = tx.price]
               b == [a EXCEPT !.pricedAt = tx.pricedAt]
               c == [context EXCEPT !.pricedAt = tx.pricedAt]
    <3>1. evidence \in {context, b, c}
      BY <2>5 DEF Economics!UpdateEvidence
    <3>2. a \in Ledger /\ a.revoked = context.revoked
          /\ a.adjustment = context.adjustment
      BY <1>2, <2>5
    <3>3. c \in Ledger /\ c.revoked = context.revoked
          /\ c.adjustment = context.adjustment
      BY <1>2, <2>5
    <3> HIDE DEF a, c
    <3>4. b \in Ledger /\ b.revoked = context.revoked
          /\ b.adjustment = context.adjustment
      BY <1>2, <3>2
    <3> HIDE DEF b
    <3> QED
      BY <2>5, <3>1, <3>3, <3>4
  <2> HIDE DEF evidence
  <2>7. changed \in Ledger /\ (~reduction.changed => changed = evidence)
    BY <1>2, <1>5, <2>3, <2>4, <2>6 DEF Economics!UpdateAdjustment
  <2> QED
    BY <1>3, <2>3, <2>5, <2>6, <2>7
<1>7. inserted.expires = tx.expires /\ inserted.revoked = tx.revoked
      /\ inserted.price = tx.price /\ inserted.adjustment \in Kinds
  BY <1>2 DEF Economics!SaveNew, Economics!Reduce, Economics!NextAdjustment,
     Economics!Adjustments, Economics!NoAdjustment, Economics!Unset
<1>8. /\ new.purchase = tx.purchase
      /\ new = [purchase |-> tx.purchase, until |-> new.until,
                revoked |-> new.revoked, adjustment |-> new.adjustment,
                price |-> new.price]
      /\ IF rows[t] = NoRow
           THEN /\ new.until = inserted.expires
                /\ new.revoked = inserted.revoked
                /\ new.adjustment = inserted.adjustment
                /\ new.price = inserted.price
           ELSE /\ new.until = changed.expires
                /\ new.revoked = changed.revoked
                /\ new.adjustment = changed.adjustment
                /\ new.price = changed.price
  BY DEF Saved
<1>9. ~Recorded(t, tx) => rows[t] # NoRow /\ ~reduction.accepted
                           /\ tx.adjustment # "none"
  <2>1. Recorded(t, tx) <=> tx.adjustment = "none" \/ reduction.accepted
    BY DEF Recorded
  <2>2. row.adjustment = "none" /\ tx.adjustment # "none"
          => reduction.accepted
    BY <1>2, <1>3 DEF Economics!Reduce, Economics!NoAdjustment,
       Economics!Unset
  <2>3. NoRow.adjustment = "none"
    BY DEF NoRow
  <2> QED
    BY <1>3, <2>1, <2>2, <2>3
<1> HIDE DEF row, reduction, changed, inserted, new
<1>10. new \in Row
  <2>1. tx.purchase \in Times /\ tx.expires \in 0 .. MaxTime + Period
    BY <1>2, AccountConstants DEF AccountTables, Times
  <2> QED
    BY <1>2, <1>6, <1>7, <1>8, <2>1 DEF Row
<1>11. ~Recorded(t, tx) => /\ new.revoked = rows[t].revoked
                           /\ new.adjustment = rows[t].adjustment
  BY <1>6, <1>8, <1>9
<1>12. \A r : StatusOf(r) = "refunded" <=> r.adjustment \in {"refund", "revoke"}
  BY DEF StatusOf, Economics!EconomicStatus
<1> QED
  BY <1>2, <1>8, <1>9, <1>10, <1>11, <1>12 DEF new

\* EventsFollowAttribution, of any ledger and rows.
Follow(l, saved, alive) ==
  \A id \in EventIds :
    l.events[id] # NoEvent =>
      /\ l.attribution.status # "none"
      /\ l.events[id].at >= l.attribution.at
      /\ id \in Renewals /\ alive =>
           \E t \in Purchases : saved[t].purchase >= l.attribution.at

LEMMA FollowMeans ==
  EventsFollowAttribution <=> Follow(ledger, rows, AccountExists)
BY DEF EventsFollowAttribution, Follow

\* A saved transaction keeps the ledger in order, and the milestone the
\* earliest of what was ever confirmed.
LEMMA AppleKeeps ==
  ASSUME NEW l, LedgerTyped(l), NEW saved \in [Tx -> Row], NEW t \in Tx,
         Follow(l, saved, TRUE), NEW done \in SUBSET Tx, MilestoneOf(l, done),
         NEW next, next = Conversion(l, saved, t), NEW done2,
         done2 = done \cup {u \in Tx : next.events[u].status = "confirmed"}
  PROVE  /\ LedgerTyped(next)
         /\ next.attribution.at = l.attribution.at
         /\ next.attribution.status = l.attribution.status
         /\ Follow(next, saved, TRUE) /\ MilestoneOf(next, done2)
<1> DEFINE at == next.events[t].at
           written ==
             /\ next \in Ledgers
             /\ l.attribution.status = "active"
             /\ next.attribution.status = "active"
             /\ next.attribution.at = l.attribution.at
             /\ \A id \in EventIds \ {t} : next.events[id] = l.events[id]
             /\ next.events[t] \in Event
             /\ next.events[t].status = StatusOf(saved[t])
             /\ \/ l.events[t] # NoEvent /\ at = l.events[t].at
                \/ /\ l.events[t] = NoEvent
                   /\ at = saved[t].purchase
                   /\ saved[t].purchase >= l.attribution.at
                   /\ \/ t \in Purchases
                      \/ \E p \in Purchases :
                           saved[p].purchase >= l.attribution.at
             /\ next.attribution.paid =
                  IF StatusOf(saved[t]) = "confirmed"
                    THEN Earliest(l.attribution.paid, at)
                    ELSE l.attribution.paid
<1>1. next = l \/ written
  BY AppleFacts
<1>2. CASE next = l
  <2>1. done2 = done
    BY <1>2 DEF MilestoneOf
  <2> QED
    BY <1>2, <2>1
<1>3. CASE written
  <2>1. /\ l.attribution.at \in 1 .. MaxTime /\ at \in 1 .. MaxTime
        /\ \A id \in EventIds : l.events[id] \in Event \cup {NoEvent}
        /\ l.attribution.paid \in 0 .. MaxTime /\ t \in EventIds
    BY <1>3, AccountConstants, EventFacts
       DEF LedgerTyped, Ledgers, Milestones, Times
  <2>2. LedgerTyped(next)
    BY <1>3, <2>1 DEF LedgerTyped
  <2>3. Follow(next, saved, TRUE)
    <3>1. ASSUME NEW id \in EventIds, next.events[id] # NoEvent
          PROVE  /\ next.events[id].at >= next.attribution.at
                 /\ id \in Renewals => \E p \in Purchases :
                      saved[p].purchase >= next.attribution.at
      <4>1. CASE id # t \/ l.events[t] # NoEvent
        BY <1>3, <3>1, <4>1 DEF Follow
      <4>2. CASE id = t /\ l.events[t] = NoEvent
        <5>1. t \in Renewals => t \notin Purchases
          BY TransactionsAssumption
        <5> QED
          BY <1>3, <3>1, <4>2, <5>1
      <4> QED
        BY <4>1, <4>2
    <3>2. next.attribution.status # "none"
      BY <1>3
    <3> QED
      BY <3>1, <3>2 DEF Follow
  <2>4. MilestoneOf(next, done2)
    <3>1. /\ \A u \in done : /\ u \in EventIds /\ l.events[u] \in Event
                             /\ next.events[u] \in Event
                             /\ next.events[u].at = l.events[u].at
                             /\ l.events[u].at \in 1 .. MaxTime
                             /\ l.attribution.paid <= l.events[u].at
          /\ \A u \in Tx \ {t} : next.events[u].status = "confirmed"
                                   => u \in done
      BY <1>3, <2>1, AccountConstants, EventFacts DEF MilestoneOf
    <3>2. \A u \in Tx : next.events[u].status = "confirmed" => u \in done2
      OBVIOUS
    <3>3. CASE StatusOf(saved[t]) # "confirmed"
      <4>1. done2 = done
        BY <1>3, <3>1, <3>3
      <4>2. next.attribution.paid = l.attribution.paid
        BY <1>3, <3>3
      <4>3. IF done = {} THEN l.attribution.paid = NoTime
            ELSE \E u \in done : l.attribution.paid = l.events[u].at
        BY DEF MilestoneOf
      <4>4. \A u \in done : /\ next.events[u] # NoEvent
                            /\ next.attribution.paid <= next.events[u].at
        BY <3>1, <4>2, EventFacts
      <4>5. IF done = {} THEN next.attribution.paid = NoTime
            ELSE \E u \in done : next.attribution.paid = next.events[u].at
        BY <3>1, <4>2, <4>3
      <4> QED
        BY <3>2, <4>1, <4>4, <4>5 DEF MilestoneOf
    <3>4. CASE StatusOf(saved[t]) = "confirmed"
      <4>1. done2 = done \cup {t}
        BY <1>3, <3>1, <3>4
      <4>2. next.attribution.paid = Earliest(l.attribution.paid, at)
        BY <1>3, <3>4
      <4>3. l.attribution.paid = NoTime <=> done = {}
        BY <3>1, <2>1 DEF MilestoneOf, NoTime
      <4>4. \A u \in done2 : /\ next.events[u] # NoEvent
                             /\ next.attribution.paid <= next.events[u].at
        BY <1>3, <2>1, <3>1, <4>1, <4>2, <4>3, EventFacts
           DEF Earliest, NoTime
      <4>5. \E u \in done2 : next.attribution.paid = next.events[u].at
        <5>1. CASE next.attribution.paid = at
          BY <4>1, <5>1
        <5>2. CASE next.attribution.paid # at
          <6>1. /\ next.attribution.paid = l.attribution.paid
                /\ done # {}
            BY <4>2, <4>3, <5>2 DEF Earliest
          <6> QED
            BY <3>1, <4>1, <6>1 DEF MilestoneOf
        <5> QED
          BY <5>1, <5>2
      <4>6. done2 # {}
        BY <4>1
      <4> QED
        BY <3>2, <4>4, <4>5, <4>6 DEF MilestoneOf
    <3> QED
      BY <3>3, <3>4
  <2> QED
    BY <1>3, <2>2, <2>3, <2>4
<1> QED
  BY <1>1, <1>2, <1>3

\* A reward adds at most its own event, under an attribution.
LEMMA RewardKeeps ==
  ASSUME NEW l, LedgerTyped(l), NEW next \in Ledgers, NEW saved, NEW alive,
         NEW done \in SUBSET Tx, Follow(l, saved, alive), MilestoneOf(l, done),
         AddsRewards(l, next)
  PROVE  /\ LedgerTyped(next) /\ Follow(next, saved, alive)
         /\ MilestoneOf(next, done)
<1>1. LedgerTyped(next)
  BY DEF LedgerTyped, AddsRewards
<1>2. \A t \in Tx : /\ t \in EventIds /\ t \notin Referrals \cup {Promo}
  BY AccountConstants
<1>3. \A t \in Tx : next.events[t] = l.events[t]
  BY <1>2 DEF AddsRewards
<1>4. MilestoneOf(next, done)
  BY <1>3 DEF MilestoneOf, AddsRewards
<1>5. \A id \in Renewals : id \in Tx
  BY DEF Tx
<1>6. Follow(next, saved, alive)
  BY <1>2, <1>5 DEF Follow, AddsRewards
<1> QED
  BY <1>1, <1>4, <1>6

LEMMA RewardCounts ==
  ASSUME NEW l, NEW next, AddsRewards(l, next), NEW saved
  PROVE  /\ BoughtDates(l, saved) => BoughtDates(next, saved)
         /\ \A t \in Tx : CountedAs(l, saved[t], t)
                          => CountedAs(next, saved[t], t)
<1>1. \A t \in Tx : t \in EventIds /\ t \notin Referrals \cup {Promo}
  BY AccountConstants
<1>2. \A t \in Tx : next.events[t] = l.events[t]
  BY <1>1 DEF AddsRewards
<1> QED
  BY <1>2 DEF AddsRewards, BoughtDates, CountedAs

\* PurchasesCounted after a step that kept the rows.
LEMMA CountedAfter ==
  ASSUME rows' = rows, holder' = holder,
         holder = "account" =>
           \A t \in Purchases : CountedAs(ledger', rows[t], t)
  PROVE  PurchasesCounted'
BY DEF PurchasesCounted, CountedAs, StatusOf

LEMMA CountedBefore ==
  ASSUME AccountInv, holder = "account", NEW t \in Purchases
  PROVE  CountedAs(ledger, rows[t], t)
BY DEF AccountInv, PurchasesCounted, CountedAs, StatusOf

LEMMA AttributedIs ==
  \A now : Attributed(now) = [status |-> "active", at |-> now,
                             plus |-> NoTime, paid |-> NoTime]
<1> SUFFICES ASSUME NEW now
             PROVE  Attributed(now) = [status |-> "active", at |-> now,
                                       plus |-> NoTime, paid |-> NoTime]
  OBVIOUS
<1> DEFINE active == [Unattributed EXCEPT !.status = "active"]
<1>1. active = [status |-> "active", at |-> NoTime, plus |-> NoTime,
                paid |-> NoTime]
  BY DEF Unattributed
<1>2. Attributed(now) = [active EXCEPT !.at = now]
  BY DEF Attributed, Unattributed
<1> HIDE DEF active
<1> QED
  BY <1>1, <1>2

\* A new attribution starts the ledger.
Started(l, now) == [l EXCEPT !.attribution = Attributed(now)]

LEMMA AttributedKeeps ==
  ASSUME NEW l, LedgerTyped(l), l.attribution.status = "none",
         NEW now \in 1 .. MaxTime, NEW done \in SUBSET Tx, MilestoneOf(l, done)
  PROVE  /\ LedgerTyped(Started(l, now))
         /\ Started(l, now).attribution.at = now
         /\ Started(l, now).attribution.status = "active"
         /\ \A saved : Follow(Started(l, now), saved, TRUE)
         /\ MilestoneOf(Started(l, now), done)
<1> DEFINE next == Started(l, now)
<1>1. /\ Attributed(now) \in Milestones /\ Attributed(now).at = now
      /\ Attributed(now).status = "active"
      /\ Attributed(now).paid = NoTime
  BY AttributedIs, AccountConstants DEF Milestones, Times, NoTime
<1>2. /\ next \in Ledgers /\ next.attribution = Attributed(now)
      /\ next.events = l.events
  BY <1>1 DEF LedgerTyped, Ledgers, Started
<1> HIDE DEF next
<1>3. \A id \in EventIds : next.events[id] = NoEvent
  BY <1>2 DEF LedgerTyped
<1>4. done = {}
  BY AccountConstants DEF MilestoneOf, LedgerTyped
<1>5. LedgerTyped(next)
  BY <1>1, <1>2 DEF LedgerTyped
<1>6. \A saved : Follow(next, saved, TRUE)
  BY <1>3 DEF Follow
<1>7. MilestoneOf(next, done)
  BY <1>1, <1>2, <1>4 DEF MilestoneOf
<1> QED
  BY <1>1, <1>2, <1>5, <1>6, <1>7 DEF next

LEMMA AccountStarts == AccountInit => AccountInv
<1> SUFFICES ASSUME AccountInit PROVE AccountInv
  OBVIOUS
<1>1. PICK a \in {Unattributed, Attributed(1)} :
        ledger = [attribution |-> a, events |-> [id \in EventIds |-> NoEvent]]
  BY DEF AccountInit
<1>2. /\ a \in Milestones /\ a.paid = NoTime
      /\ a.status \in {"none", "active"} /\ a.at \in {0, 1}
      /\ a.status = "active" => a.at >= 1
  BY <1>1, AttributedIs, AccountConstants
     DEF Unattributed, Milestones, Times, NoTime
<1>3. /\ ledger \in Ledgers /\ ledger.attribution = a
      /\ \A id \in EventIds : ledger.events[id] = NoEvent
  BY <1>1, <1>2 DEF Ledgers
<1>4. /\ LedgerTyped(ledger) /\ ledger.attribution.at <= clock
      /\ ledger.attribution.status # "anonymized" /\ clock = 1
  BY <1>2, <1>3 DEF LedgerTyped, AccountInit
<1>5. NoRow \in Row
  BY AccountConstants DEF NoRow, Row, Times, NoTime, Economic
<1>6. AccountTables
  BY <1>4, <1>5, AccountConstants
     DEF AccountTables, AccountInit, Times, NoTime, AccountExists
<1>7. EventsFollowAttribution
  BY <1>3 DEF EventsFollowAttribution
<1>8. MilestoneOf(ledger, paid)
  BY <1>2, <1>3, AccountConstants, EventFacts DEF MilestoneOf, AccountInit
<1>9. BoughtDates(ledger, rows)
  BY <1>3, AccountConstants DEF BoughtDates
<1>10. PurchasesCounted
  <2>1. ASSUME NEW t \in Purchases PROVE rows[t].purchase = 0
    BY <2>1 DEF AccountInit, NoRow, NoTime, Tx
  <2> QED
    BY <1>2, <1>3, <2>1 DEF PurchasesCounted
<1> QED
  BY <1>6, <1>7, <1>8, <1>9, <1>10 DEF AccountInv

LEMMA SaveKeeps ==
  ASSUME AccountInv, NEW t \in Tx, Save(t)
  PROVE  AccountInv'
<1>1. PICK tx \in Messages(t) : SaveAs(t, Saved(t, tx), Recorded(t, tx))
  BY DEF Save, Saves
<1> DEFINE new == Saved(t, tx)
           saved == [rows EXCEPT ![t] = new]
           counted == holder = "account" /\ Recorded(t, tx)
<1>2. AccountTables /\ AccountExists
  BY DEF AccountInv, Save
<1>3. /\ new \in Row /\ new.purchase \in 1 .. clock
      /\ rows[t] # NoRow => new.purchase = rows[t].purchase
      /\ ~Recorded(t, tx) =>
           /\ rows[t] # NoRow /\ new.revoked = rows[t].revoked
           /\ StatusOf(new) = "refunded" <=> StatusOf(rows[t]) = "refunded"
  BY <1>2, SavedFacts
<1>31. /\ rows' = saved
       /\ ledger' = IF counted THEN Conversion(ledger, saved, t) ELSE ledger
       /\ stored' = IF holder = "account"
                      THEN Reconciled(saved, holder, granted) ELSE stored
       /\ paid' = paid \cup {u \in Tx : ledger'.events[u].status = "confirmed"}
       /\ UNCHANGED clock /\ UNCHANGED account /\ UNCHANGED holder
       /\ UNCHANGED granted
  BY <1>1 DEF SaveAs, Confirmed
<1> HIDE DEF new
<1>4. /\ saved \in [Tx -> Row] /\ saved[t] = new
      /\ \A u \in Tx \ {t} : saved[u] = rows[u]
  BY <1>2, <1>3 DEF AccountTables
<1> HIDE DEF saved
<1>5. \A u \in Tx : saved[u] # NoRow => saved[u].purchase \in 1 .. clock
  BY <1>2, <1>3, <1>4 DEF AccountTables
<1>6. \A u \in Tx : rows[u].purchase # NoTime
                      => saved[u].purchase = rows[u].purchase
  BY <1>2, <1>3, <1>4 DEF AccountTables, NoRow, NoTime
<1>7. /\ LedgerTyped(ledger) /\ paid \in SUBSET Tx /\ MilestoneOf(ledger, paid)
      /\ BoughtDates(ledger, rows)
  BY <1>2 DEF AccountInv, AccountTables
<1>8. Follow(ledger, saved, TRUE)
  <2>1. Follow(ledger, rows, TRUE)
    BY <1>2, FollowMeans DEF AccountInv
  <2>2. ASSUME NEW p \in Purchases, ledger.attribution.status # "none",
               rows[p].purchase >= ledger.attribution.at
        PROVE  saved[p].purchase >= ledger.attribution.at
    BY <1>2, <1>6, <2>2 DEF LedgerTyped, AccountTables, Tx, NoTime,
       Ledgers, Milestones, Times
  <2> QED
    BY <2>1, <2>2 DEF Follow
<1>81. BoughtDates(ledger, saved)
  <2>1. \A u \in Tx : ledger.events[u] # NoEvent
                        => rows[u].purchase # NoTime
    <3>1. \A u \in Tx : u \in EventIds
      BY AccountConstants
    <3> QED
      BY <1>7, <3>1, EventFacts DEF BoughtDates, LedgerTyped, Ledgers, NoTime
  <2> QED
    BY <1>6, <1>7, <2>1 DEF BoughtDates
<1>9. /\ LedgerTyped(ledger') /\ Follow(ledger', saved, TRUE)
      /\ ledger'.attribution.at = ledger.attribution.at
      /\ ledger'.attribution.status = ledger.attribution.status
      /\ MilestoneOf(ledger', paid') /\ paid' \in SUBSET Tx
      /\ BoughtDates(ledger', saved)
      /\ \A u \in Tx \ {t} : ledger'.events[u] = ledger.events[u]
      /\ counted /\ t \in Purchases => CountedAs(ledger', new, t)
      /\ ~counted => ledger' = ledger
  <2>2. CASE counted
    <3>3. ledger' = Conversion(ledger, saved, t)
      BY <1>31, <2>2
    <3>2. \A l, next, done, done2 :
            /\ LedgerTyped(l) /\ Follow(l, saved, TRUE)
            /\ done \in SUBSET Tx /\ MilestoneOf(l, done)
            /\ next = Conversion(l, saved, t)
            /\ done2 = done \cup {u \in Tx : next.events[u].status = "confirmed"}
            => /\ LedgerTyped(next)
               /\ next.attribution.at = l.attribution.at
               /\ next.attribution.status = l.attribution.status
               /\ Follow(next, saved, TRUE) /\ MilestoneOf(next, done2)
      BY <1>4, AppleKeeps
    <3>1. \A l, next :
            /\ LedgerTyped(l) /\ BoughtDates(l, saved)
            /\ next = Conversion(l, saved, t)
            => /\ BoughtDates(next, saved)
               /\ \A u \in Tx \ {t} : next.events[u] = l.events[u]
               /\ t \in Purchases => CountedAs(next, saved[t], t)
      BY <1>4, AppleCounts
    <3>4. /\ LedgerTyped(ledger')
          /\ ledger'.attribution.at = ledger.attribution.at
          /\ ledger'.attribution.status = ledger.attribution.status
          /\ Follow(ledger', saved, TRUE) /\ MilestoneOf(ledger', paid')
      BY <1>7, <1>8, <1>31, <3>2, <3>3
    <3>5. /\ BoughtDates(ledger', saved)
          /\ \A u \in Tx \ {t} : ledger'.events[u] = ledger.events[u]
          /\ t \in Purchases => CountedAs(ledger', new, t)
      BY <1>4, <1>7, <1>81, <3>1, <3>3
    <3> QED
      BY <1>7, <1>31, <2>2, <3>4, <3>5
  <2>3. CASE ~counted
    <3>1. ledger' = ledger
      BY <1>31, <2>3
    <3>2. paid' = paid
      BY <1>7, <1>31, <3>1 DEF MilestoneOf
    <3> QED
      BY <1>7, <1>8, <1>81, <2>3, <3>1, <3>2
  <2> QED
    BY <2>2, <2>3
<1>10. AccountTables'
  BY <1>2, <1>4, <1>5, <1>9, <1>31, ReconciledFacts
     DEF AccountTables, AccountExists
<1>11. EventsFollowAttribution'
  BY <1>2, <1>9, <1>31 DEF EventsFollowAttribution, Follow, AccountExists
<1>12. PurchasesCounted'
  <2> SUFFICES ASSUME holder = "account", NEW u \in Purchases
               PROVE  CountedAs(ledger', saved[u], u)
    BY <1>31 DEF PurchasesCounted, CountedAs, StatusOf
  <2>1. ledger.attribution.status = "active" => CountedAs(ledger, rows[u], u)
    BY DEF AccountInv, PurchasesCounted, CountedAs, StatusOf
  <2>2. u \in Tx
    BY DEF Tx
  <2>3. CASE u # t
    BY <1>4, <1>9, <2>1, <2>2, <2>3 DEF CountedAs
  <2>4. CASE u = t /\ counted
    BY <1>4, <1>9, <2>4
  <2>5. CASE u = t /\ ~counted
    BY <1>3, <1>4, <1>9, <2>1, <2>5 DEF CountedAs
  <2> QED
    BY <2>3, <2>4, <2>5
<1> QED
  BY <1>9, <1>10, <1>11, <1>12, <1>31 DEF AccountInv

-----------------------------------------------------------------------------
\* What a claim moves: a fold over the transactions, in their order.
LEMMA LatestBoughtFacts ==
  ASSUME rows \in [Tx -> Row], NEW S \in SUBSET Tx, S # {}
  PROVE  LatestBought(S) \in S
<1> DEFINE Top(s) == \E t \in s : \A u \in s : rows[u].purchase <= rows[t].purchase
           Bad == {s \in SUBSET S : s # {} /\ ~Top(s)}
<1>1. \A t \in S : rows[t].purchase \in Nat
  BY AccountConstants DEF Row, Times
<1>2. Bad = {}
  <2> SUFFICES ASSUME Bad # {} PROVE FALSE
    OBVIOUS
  <2>1. IsFiniteSet(S) /\ Bad \in SUBSET (SUBSET S)
    BY TransactionsAssumption, FS_Subset
  <2> HIDE DEF Bad
  <2>2. PICK s \in Bad : \A x \in s : s \ {x} \notin Bad
    BY <2>1, Smallest
  <2> USE DEF Bad
  <2>3. PICK x \in s : TRUE
    OBVIOUS
  <2>4. CASE s = {x}
    <3>1. rows[x].purchase <= rows[x].purchase
      BY <1>1
    <3> QED
      BY <2>4, <3>1
  <2>5. CASE s # {x}
    <3>1. Top(s \ {x})
      <4>1. s \ {x} \in SUBSET S /\ s \ {x} # {} /\ s \ {x} \notin Bad
        BY <2>2, <2>3, <2>5
      <4> HIDE DEF Top
      <4> QED
        BY <4>1
    <3>2. PICK t \in s \ {x} :
            \A u \in s \ {x} : rows[u].purchase <= rows[t].purchase
      BY <3>1
    <3>3. CASE rows[x].purchase <= rows[t].purchase
      BY <3>2, <3>3
    <3>4. CASE ~(rows[x].purchase <= rows[t].purchase)
      <4>1. \A u \in s : rows[u].purchase <= rows[x].purchase
        BY <1>1, <3>2, <3>4
      <4> QED
        BY <4>1
    <3> QED
      BY <3>3, <3>4
  <2> QED
    BY <2>4, <2>5
<1> QED
  BY <1>2 DEF LatestBought

LEMMA MovedUnfolds ==
  ASSUME rows \in [Tx -> Row], LedgerTyped(ledger), NEW S \in SUBSET Tx
  PROVE  \E f : /\ Moved(S) = f[S] /\ f[{}] = ledger
                /\ \A s \in (SUBSET S) \ {{}} :
                     f[s] = Conversion(f[s \ {LatestBought(s)}], rows,
                                       LatestBought(s))
<1> DEFINE Typed == {l \in Ledgers : LedgerTyped(l)}
           next == [s \in (SUBSET S) \ {{}} |-> LatestBought(s)]
           g == [p \in S \X Typed |-> Conversion(p[2], rows, p[1])]
           Reads(f) == f = [s \in SUBSET S |->
                              IF s = {} THEN ledger
                              ELSE Conversion(f[s \ {LatestBought(s)}], rows,
                                              LatestBought(s))]
           first == CHOOSE f : Reads(f)
<1>0. IsFiniteSet(S)
  BY TransactionsAssumption, FS_Subset
<1>1. \A s \in (SUBSET S) \ {{}} :
        /\ LatestBought(s) \in s /\ LatestBought(s) \in S
        /\ s \ {LatestBought(s)} \in SUBSET S
  <2>1. ASSUME NEW s \in (SUBSET S) \ {{}} PROVE LatestBought(s) \in s
    <3>1. s \in SUBSET Tx /\ s # {}
      OBVIOUS
    <3> QED
      BY <3>1, LatestBoughtFacts
  <2> QED
    BY <2>1
<1>2. g \in [S \X Typed -> Typed]
  <2>1. ASSUME NEW t \in S, NEW l \in Typed
        PROVE  Conversion(l, rows, t) \in Typed
    <3>1. LedgerTyped(l) /\ t \in Tx
      OBVIOUS
    <3>2. LedgerTyped(Conversion(l, rows, t))
      BY <3>1, AppleTyped
    <3> QED
      BY <3>2 DEF LedgerTyped
  <2> HIDE DEF Typed
  <2> QED
    BY <2>1
<1>3. ledger \in Typed
  BY DEF LedgerTyped
<1>4. \A s \in (SUBSET S) \ {{}} : next[s] \in s /\ next[s] = LatestBought(s)
  BY <1>1
<1>5. \A t \in S, l \in Typed : g[<<t, l>>] = Conversion(l, rows, t)
  OBVIOUS
<1> HIDE DEF next, g, Typed
<1>6. \E f : FoldOf(f, S, Typed, ledger, next, g)
  <2>1. Takes(next, S)
    BY <1>1, <1>4 DEF next, Takes
  <2> QED
    BY <1>0, <1>2, <1>3, <2>1, FoldExists
<1> PICK f : FoldOf(f, S, Typed, ledger, next, g)
  BY <1>6
<1>7. \A s \in (SUBSET S) \ {{}} :
        f[s] = Conversion(f[s \ {LatestBought(s)}], rows, LatestBought(s))
  BY <1>1, <1>4, <1>5 DEF FoldOf
<1>8. Reads(f)
  BY <1>7 DEF FoldOf
<1>9. Reads(first)
  <2> HIDE DEF Reads
  <2> QED
    BY <1>8
<1>10. Moved(S) = first[S]
  BY DEF Moved, MapThenFoldSet
<1> HIDE DEF first
<1>11. /\ first[{}] = ledger
       /\ \A s \in (SUBSET S) \ {{}} :
            first[s] = Conversion(first[s \ {LatestBought(s)}], rows,
                                  LatestBought(s))
  BY <1>9
<1> QED
  BY <1>10, <1>11

\* The ledger after the transactions of s moved.
MovedOf(l, s) ==
  /\ LedgerTyped(l)
  /\ l.attribution.at = ledger.attribution.at
  /\ l.attribution.status = ledger.attribution.status
  /\ Follow(l, rows, TRUE) /\ BoughtDates(l, rows)
  /\ MilestoneOf(l, Confirmed(l))
  /\ \A t \in Tx \ s : l.events[t] = ledger.events[t]
  /\ \A t \in Purchases \cap s : CountedAs(l, rows[t], t)

LEMMA MovedSteps ==
  ASSUME AccountInv, AccountExists, NEW s \in SUBSET Tx, NEW x \in s,
         NEW l, MovedOf(l, s \ {x}), NEW next, next = Conversion(l, rows, x)
  PROVE  MovedOf(next, s)
<1>1. /\ rows \in [Tx -> Row] /\ paid \in SUBSET Tx /\ x \in Tx
      /\ MilestoneOf(ledger, paid)
  BY DEF AccountInv, AccountTables
<1>2. /\ LedgerTyped(l) /\ Follow(l, rows, TRUE) /\ BoughtDates(l, rows)
      /\ MilestoneOf(l, Confirmed(l)) /\ Confirmed(l) \in SUBSET Tx
  BY <1>1 DEF MovedOf, Confirmed
<1>3. /\ BoughtDates(next, rows)
      /\ \A u \in Tx \ {x} : next.events[u] = l.events[u]
      /\ x \in Purchases => CountedAs(next, rows[x], x)
  BY <1>1, <1>2, AppleCounts
<1> DEFINE done2 == Confirmed(l)
                      \cup {u \in Tx : next.events[u].status = "confirmed"}
<1>4. /\ LedgerTyped(next)
      /\ next.attribution.at = l.attribution.at
      /\ next.attribution.status = l.attribution.status
      /\ Follow(next, rows, TRUE) /\ MilestoneOf(next, done2)
  <2>1. \A k, more, done, done3 :
          /\ LedgerTyped(k) /\ Follow(k, rows, TRUE)
          /\ done \in SUBSET Tx /\ MilestoneOf(k, done)
          /\ more = Conversion(k, rows, x)
          /\ done3 = done \cup {u \in Tx : more.events[u].status = "confirmed"}
          => /\ LedgerTyped(more)
             /\ more.attribution.at = k.attribution.at
             /\ more.attribution.status = k.attribution.status
             /\ Follow(more, rows, TRUE) /\ MilestoneOf(more, done3)
    BY <1>1, AppleKeeps
  <2> DEFINE known == Confirmed(l)
  <2>2. /\ known \in SUBSET Tx /\ MilestoneOf(l, known)
        /\ done2 = known \cup {u \in Tx : next.events[u].status = "confirmed"}
    BY <1>2
  <2> HIDE DEF known, done2
  <2> QED
    BY <1>2, <2>1, <2>2
\* The event of x was as before the claim until now.
<1>5. done2 = Confirmed(next)
  <2>1. l.events[x].status = "confirmed" => x \in paid
    BY <1>1 DEF MovedOf, MilestoneOf
  <2> QED
    BY <1>3, <2>1 DEF Confirmed
<1>6. \A t \in Tx \ s : next.events[t] = ledger.events[t]
  BY <1>3 DEF MovedOf
<1>7. \A t \in Purchases \cap s : CountedAs(next, rows[t], t)
  <2>1. ASSUME NEW t \in Purchases \cap s, t # x
        PROVE  CountedAs(next, rows[t], t)
    <3>1. CountedAs(l, rows[t], t) /\ t \in Tx
      BY <2>1 DEF MovedOf, Tx
    <3> QED
      BY <1>3, <1>4, <2>1, <3>1 DEF CountedAs
  <2> QED
    BY <1>3, <2>1
<1> QED
  BY <1>3, <1>4, <1>5, <1>6, <1>7 DEF MovedOf

LEMMA MovedKeeps ==
  ASSUME AccountInv, AccountExists, NEW S \in SUBSET Tx
  PROVE  MovedOf(Moved(S), S)
<1>1. rows \in [Tx -> Row] /\ LedgerTyped(ledger) /\ IsFiniteSet(S)
  BY TransactionsAssumption, FS_Subset DEF AccountInv, AccountTables
<1>2. PICK f : /\ Moved(S) = f[S] /\ f[{}] = ledger
               /\ \A s \in (SUBSET S) \ {{}} :
                    f[s] = Conversion(f[s \ {LatestBought(s)}], rows,
                                      LatestBought(s))
  BY <1>1, MovedUnfolds
<1>3. MovedOf(ledger, {})
  <2>1. Confirmed(ledger) = paid
    BY DEF Confirmed, AccountInv, MilestoneOf
  <2>2. Follow(ledger, rows, TRUE)
    BY FollowMeans DEF AccountInv
  <2> QED
    BY <1>1, <2>1, <2>2 DEF MovedOf, AccountInv
<1> DEFINE Bad == {s \in SUBSET S : ~MovedOf(f[s], s)}
<1>4. Bad = {}
  <2> SUFFICES ASSUME Bad # {} PROVE FALSE
    OBVIOUS
  <2>1. PICK s \in Bad : \A x \in s : s \ {x} \notin Bad
    BY <1>1, Smallest
  <2>2. s \in SUBSET Tx /\ s # {} /\ s \in (SUBSET S) \ {{}}
    BY <1>2, <1>3
  <2> DEFINE x == LatestBought(s)
  <2>3. x \in s
    BY <1>1, <2>2, LatestBoughtFacts
  <2> HIDE DEF x
  <2>4. MovedOf(f[s \ {x}], s \ {x})
    BY <2>1, <2>3
  <2>5. f[s] = Conversion(f[s \ {x}], rows, x)
    BY <1>2, <2>2 DEF x
  <2>6. MovedOf(f[s], s)
    BY <2>2, <2>3, <2>4, <2>5, MovedSteps
  <2> QED
    BY <2>1, <2>6
<1> QED
  BY <1>2, <1>4

LEMMA ClaimKeeps ==
  ASSUME AccountInv, Claim
  PROVE  AccountInv'
<1>1. /\ UNCHANGED clock /\ UNCHANGED account /\ UNCHANGED rows
      /\ UNCHANGED granted /\ AccountExists /\ AccountTables
      /\ holder' = "account" /\ DOMAIN stored' = DOMAIN NoEntitlement
      /\ ledger' = Moved(Known) /\ paid' = Confirmed(ledger')
  BY ReconciledFacts DEF Claim, AccountInv
<1>2. MovedOf(ledger', Known)
  <2>1. Known \in SUBSET Tx
    BY DEF Known
  <2> QED
    BY <1>1, <2>1, MovedKeeps
<1>3. AccountTables'
  BY <1>1, <1>2 DEF MovedOf, Confirmed, AccountTables, AccountExists
<1>4. EventsFollowAttribution'
  BY <1>1, <1>2 DEF MovedOf, Follow, EventsFollowAttribution, AccountExists
<1>5. MilestoneOf(ledger', paid') /\ BoughtDates(ledger', rows')
  BY <1>1, <1>2 DEF MovedOf
<1>6. PurchasesCounted'
  <2> SUFFICES ASSUME NEW t \in Purchases,
                      ledger'.attribution.status = "active",
                      rows[t].purchase > ledger'.attribution.at
               PROVE  CountedAs(ledger', rows[t], t)
    BY <1>1 DEF PurchasesCounted, CountedAs, StatusOf
  <2>1. ledger'.attribution.at \in Nat /\ t \in Tx
    BY <1>2, AccountConstants
       DEF MovedOf, LedgerTyped, Ledgers, Milestones, Times, Tx
  <2>2. t \in Known
    BY <2>1 DEF Known, NoTime
  <2> QED
    BY <1>2, <2>2 DEF MovedOf
<1> QED
  BY <1>3, <1>4, <1>5, <1>6 DEF AccountInv

\* Granting a reward changes neither the transactions nor the ledger.
LEMMA GrantFacts ==
  ASSUME AccountTables, NEW r \in Rewards, NEW at \in Times, Grant(r, at)
  PROVE  /\ granted' \in [Rewards -> Times]
         /\ DOMAIN stored' = DOMAIN NoEntitlement
BY ReconciledFacts DEF Grant, AccountTables

LEMMA ReferralRewardKeeps ==
  ASSUME AccountInv, NEW r \in Referrals, ReferralReward(r)
  PROVE  AccountInv'
<1>1. PICK at \in {clock, clock - 1} \ {NoTime} :
        Grant(r, at) /\ ledger' = ReferralConversion(ledger, r, at)
  BY DEF ReferralReward
<1>2. /\ AccountTables /\ AccountExists /\ LedgerTyped(ledger)
      /\ paid \in SUBSET Tx /\ MilestoneOf(ledger, paid)
      /\ Follow(ledger, rows, TRUE) /\ ledger \in Ledgers
  BY FollowMeans DEF AccountInv, AccountTables, ReferralReward, LedgerTyped
<1>3. at \in 1 .. MaxTime /\ at \in Times /\ r \in Rewards
  BY <1>1, <1>2, AccountConstants DEF AccountTables, Times, NoTime
<1>4. /\ UNCHANGED clock /\ UNCHANGED account /\ UNCHANGED holder
      /\ UNCHANGED rows /\ UNCHANGED paid
      /\ granted' \in [Rewards -> Times]
      /\ DOMAIN stored' = DOMAIN NoEntitlement
  BY <1>1, <1>2, <1>3, GrantFacts DEF ReferralReward
<1>5. AddsRewards(ledger, ledger') /\ ledger' \in Ledgers
      /\ ledger'.attribution.status = ledger.attribution.status
      /\ ledger'.attribution.at = ledger.attribution.at
  <2>1. AddsRewards(ledger, ledger')
    BY <1>1, <1>2, <1>3, ReferralEventFacts
  <2> QED
    BY <2>1 DEF AddsRewards
<1>6. /\ LedgerTyped(ledger') /\ Follow(ledger', rows, TRUE)
      /\ MilestoneOf(ledger', paid)
  BY <1>2, <1>5, RewardKeeps
<1>7. AccountTables'
  BY <1>2, <1>4, <1>5, <1>6 DEF AccountTables, AccountExists
<1>8. EventsFollowAttribution'
  BY <1>2, <1>4, <1>6 DEF EventsFollowAttribution, Follow, AccountExists
<1>9. BoughtDates(ledger', rows)
  BY <1>2, <1>5, RewardCounts DEF AccountInv
<1>10. PurchasesCounted'
  <2>1. ASSUME holder = "account", NEW t \in Purchases
        PROVE  CountedAs(ledger', rows[t], t)
    BY <1>5, <2>1, CountedBefore, RewardCounts DEF Tx
  <2> QED
    BY <1>4, <2>1, CountedAfter
<1> QED
  BY <1>4, <1>6, <1>7, <1>8, <1>9, <1>10 DEF AccountInv

LEMMA ApplyCodeKeeps ==
  ASSUME AccountInv, ApplyCode
  PROVE  AccountInv'
<1> DEFINE first == ledger.attribution.status = "none"
           applied == IF first
             THEN [ledger EXCEPT !.attribution = Attributed(clock)]
             ELSE ledger
<1>1. /\ AccountTables /\ AccountExists /\ LedgerTyped(ledger)
      /\ paid \in SUBSET Tx /\ MilestoneOf(ledger, paid)
      /\ Follow(ledger, rows, TRUE) /\ clock \in 1 .. MaxTime
      /\ ledger.attribution.at <= clock
  BY FollowMeans DEF AccountInv, AccountTables, ApplyCode, LedgerTyped
<1>2. /\ LedgerTyped(applied) /\ applied.attribution.at <= clock
      /\ applied.attribution.at \in 0 .. MaxTime
      /\ applied.attribution.status \notin {"none", "anonymized"}
      /\ Follow(applied, rows, TRUE) /\ MilestoneOf(applied, paid)
  <2>1. CASE first
    <3>1. /\ LedgerTyped(Started(ledger, clock))
          /\ Started(ledger, clock).attribution.at = clock
          /\ Started(ledger, clock).attribution.status = "active"
          /\ Follow(Started(ledger, clock), rows, TRUE)
          /\ MilestoneOf(Started(ledger, clock), paid)
      BY <1>1, <2>1, AttributedKeeps
    <3>2. clock <= clock /\ clock \in 0 .. MaxTime
      BY <1>1, AccountConstants
    <3> QED
      BY <2>1, <3>1, <3>2 DEF Started
  <2>2. CASE ~first
    BY <1>1, <2>2 DEF AccountTables, LedgerTyped, Ledgers, Milestones, Times
  <2> QED
    BY <2>1, <2>2
<1>12. /\ BoughtDates(applied, rows)
       /\ holder = "account" =>
            \A t \in Purchases : CountedAs(applied, rows[t], t)
  <2>1. CASE first
    <3>1. /\ applied.events = ledger.events /\ applied.attribution.at = clock
      BY <1>1, <2>1, AttributedIs DEF LedgerTyped, Ledgers
    <3>2. \A t \in Tx : ledger.events[t] = NoEvent
      BY <1>1, <2>1, AccountConstants DEF LedgerTyped
    <3>3. \A t \in Tx : ~(rows[t].purchase > clock)
      BY <1>1 DEF AccountTables, NoRow, NoTime
    <3> QED
      BY <3>1, <3>2, <3>3 DEF BoughtDates, CountedAs, Tx
  <2>2. CASE ~first
    BY <1>1, <2>2, CountedBefore DEF AccountInv
  <2> QED
    BY <2>1, <2>2
<1>3. /\ UNCHANGED clock /\ UNCHANGED account /\ UNCHANGED holder
      /\ UNCHANGED rows /\ UNCHANGED paid
      /\ granted' \in [Rewards -> Times]
      /\ DOMAIN stored' = DOMAIN NoEntitlement
      /\ ledger' = PromoEvent(applied, clock)
  <2>1. clock \in Times /\ Promo \in Rewards
    BY <1>1, AccountConstants DEF Times
  <2>2. \/ Grant(Promo, clock)
        \/ UNCHANGED granted /\ UNCHANGED stored
    BY DEF ApplyCode
  <2>3. /\ granted' \in [Rewards -> Times]
        /\ DOMAIN stored' = DOMAIN NoEntitlement
    BY <1>1, <2>1, <2>2, GrantFacts DEF AccountTables
  <2> QED
    BY <2>3 DEF ApplyCode
<1> HIDE DEF applied
<1>4. AddsRewards(applied, ledger') /\ ledger' \in Ledgers
      /\ ledger'.attribution.status = applied.attribution.status
      /\ ledger'.attribution.at = applied.attribution.at
  <2>1. applied \in Ledgers
    BY <1>2 DEF LedgerTyped
  <2>2. AddsRewards(applied, ledger')
    BY <1>1, <1>2, <1>3, <2>1, PromoFacts
  <2> QED
    BY <2>2 DEF AddsRewards
<1>5. /\ LedgerTyped(ledger') /\ Follow(ledger', rows, TRUE)
      /\ MilestoneOf(ledger', paid)
  BY <1>1, <1>2, <1>4, RewardKeeps
<1>6. AccountTables'
  BY <1>1, <1>2, <1>3, <1>4, <1>5 DEF AccountTables, AccountExists
<1>7. EventsFollowAttribution'
  BY <1>1, <1>3, <1>5 DEF EventsFollowAttribution, Follow, AccountExists
<1>8. AddsRewards(applied, ledger')
  BY <1>4
<1>9. BoughtDates(ledger', rows)
  BY <1>12, <1>8, RewardCounts
<1>10. PurchasesCounted'
  <2>1. ASSUME holder = "account", NEW t \in Purchases
        PROVE  CountedAs(ledger', rows[t], t)
    BY <1>8, <1>12, <2>1, RewardCounts DEF Tx
  <2> QED
    BY <1>3, <2>1, CountedAfter
<1> QED
  BY <1>3, <1>5, <1>6, <1>7, <1>9, <1>10 DEF AccountInv

LEMMA DeleteKeeps ==
  ASSUME AccountInv, Delete
  PROVE  AccountInv'
<1> DEFINE status == IF ledger.attribution.status = "none"
                       THEN "none" ELSE "anonymized"
           attribution == [ledger.attribution EXCEPT !.status = status]
<1>1. /\ AccountTables /\ LedgerTyped(ledger) /\ ledger \in Ledgers
      /\ EventsFollowAttribution /\ MilestoneOf(ledger, paid)
  BY DEF AccountInv, AccountTables, LedgerTyped
<1>2. /\ attribution \in Milestones /\ attribution.status = status
      /\ attribution.at = ledger.attribution.at
      /\ attribution.paid = ledger.attribution.paid
  BY <1>1 DEF Ledgers, Milestones
<1>3. /\ ledger' \in Ledgers /\ ledger'.attribution = attribution
      /\ ledger'.events = ledger.events
  BY <1>1, <1>2 DEF Delete, Anonymized, Ledgers
<1> HIDE DEF attribution
<1>4. LedgerTyped(ledger')
  BY <1>1, <1>2, <1>3 DEF LedgerTyped
<1>5. /\ account' = "deleted" /\ UNCHANGED clock /\ UNCHANGED holder
      /\ UNCHANGED paid /\ stored' = NoEntitlement
      /\ granted' = [r \in Rewards |-> NoTime]
      /\ rows' = rows \/ rows' = [t \in Tx |-> NoRow]
  BY DEF Delete
<1>6. NoRow \in Row
  BY AccountConstants DEF NoRow, Row, Times, NoTime, Economic
<1>7. /\ rows' \in [Tx -> Row]
      /\ \A t \in Tx : rows'[t] # NoRow => rows'[t].purchase \in 1 .. clock
  BY <1>1, <1>5, <1>6 DEF AccountTables
<1>8. granted' \in [Rewards -> Times]
  BY <1>5, AccountConstants DEF Times, NoTime
<1>9. AccountTables'
  BY <1>1, <1>2, <1>3, <1>4, <1>5, <1>7, <1>8 DEF AccountTables, AccountExists
<1>10. EventsFollowAttribution'
  BY <1>1, <1>2, <1>3, <1>5 DEF EventsFollowAttribution, AccountExists
<1>11. MilestoneOf(ledger', paid')
  BY <1>1, <1>2, <1>3, <1>5 DEF MilestoneOf
<1>12. PurchasesCounted'
  BY <1>2, <1>3 DEF PurchasesCounted
<1> QED
  BY <1>5, <1>9, <1>10, <1>11, <1>12 DEF AccountInv, AccountExists

LEMMA CleanupAndTickKeep ==
  ASSUME AccountInv, Cleanup \/ Tick
  PROVE  AccountInv'
<1>1. /\ UNCHANGED account /\ UNCHANGED holder /\ UNCHANGED rows
      /\ UNCHANGED granted /\ UNCHANGED ledger /\ UNCHANGED paid
      /\ DOMAIN stored' = DOMAIN NoEntitlement
      /\ clock \in 1 .. MaxTime /\ clock' \in clock .. MaxTime
  BY AccountConstants DEF Cleanup, Tick, AccountInv, AccountTables
<1>2. ledger.attribution.at \in Nat
  BY AccountConstants
     DEF AccountInv, AccountTables, LedgerTyped, Ledgers, Milestones, Times
<1>3. \A n \in 1 .. clock : n \in 1 .. clock'
  BY <1>1, AccountConstants
<1>4. AccountTables'
  BY <1>1, <1>2, <1>3, AccountConstants
     DEF AccountInv, AccountTables, AccountExists
<1>5. EventsFollowAttribution'
  BY <1>1 DEF AccountInv, EventsFollowAttribution, AccountExists
<1>6. PurchasesCounted'
  <2>1. ledger' = ledger
    BY <1>1
  <2> QED
    BY <1>1, <2>1, CountedBefore, CountedAfter
<1> QED
  BY <1>1, <1>4, <1>5, <1>6 DEF AccountInv, AccountExists

LEMMA AccountInductive == AccountSpec => []AccountInv
<1>1. AccountInv /\ [AccountNext]_accountVars => AccountInv'
  <2> SUFFICES ASSUME AccountInv, [AccountNext]_accountVars PROVE AccountInv'
    OBVIOUS
  <2>1. CASE AccountNext
    BY <2>1, SaveKeeps, ClaimKeeps, ReferralRewardKeeps, ApplyCodeKeeps,
       DeleteKeeps, CleanupAndTickKeep DEF AccountNext
  <2>2. CASE UNCHANGED accountVars
    BY <2>2 DEF accountVars, AccountInv, AccountTables, AccountExists,
       EventsFollowAttribution, PurchasesCounted
  <2> QED
    BY <2>1, <2>2
<1> QED
  BY <1>1, AccountStarts, PTL DEF AccountSpec

\* The rows, the rewards, the ledger and the clock of an account keep their
\* types through every step.
THEOREM AccountTypeCorrect == AccountSpec => []AccountTypeOK
<1>1. AccountInv => AccountTypeOK
  BY DEF AccountInv, AccountTables, AccountTypeOK, LedgerTyped, Ledgers, Event
<1> QED
  BY <1>1, AccountInductive, PTL

\* No conversion event is older than the attribution, and a renewal is one
\* only with a purchase after it, in every order in which payloads, rewards
\* and codes arrive (creator_attribution.py:1652-1671).
THEOREM EventsStayBehind == AccountSpec => []EventsFollowAttribution
<1>1. AccountInv => EventsFollowAttribution
  BY DEF AccountInv
<1> QED
  BY <1>1, AccountInductive, PTL

\* The paid milestone is the earliest event that was ever confirmed, though
\* Apple confirms purchases and renewals in any order
\* (creator_attribution.py:1458-1483).
THEOREM EarliestIsKept == AccountSpec => []PaidIsEarliest
<1>1. ASSUME AccountInv PROVE PaidIsEarliest
  <2> DEFINE times == {ledger.events[t].at : t \in paid}
             first == ledger.attribution.paid
  <2>1. /\ MilestoneOf(ledger, paid)
        /\ \A t \in paid : ledger.events[t].at \in Nat
    BY <1>1, AccountConstants, EventFacts
       DEF AccountInv, AccountTables, LedgerTyped, Ledgers, MilestoneOf
  <2>2. CASE paid = {}
    BY <2>1, <2>2 DEF MilestoneOf, PaidIsEarliest
  <2>3. CASE paid # {}
    <3>1. /\ first \in times /\ \A n \in times : first <= n /\ n \in Nat
      BY <2>1, <2>3 DEF MilestoneOf
    <3> HIDE DEF times, first
    <3>2. Min(times) \in times /\ \A n \in times : Min(times) <= n
      BY <3>1 DEF Min
    <3>3. Min(times) = first
      BY <3>1, <3>2
    <3> QED
      BY <2>3, <3>3 DEF PaidIsEarliest, times, first
  <2> QED
    BY <2>2, <2>3
<1> QED
  BY <1>1, AccountInductive, PTL

\* A purchase after the attribution counts, as refunded exactly as long as its
\* row is, whether the account or its guest bought it and whichever came first
\* of Apple's payloads, the code and the claim (guest_subscriptions.py:536-555,
\* creator_attribution.py:1486-1757).
THEOREM PurchasesAreCounted == AccountSpec => []PurchasesCounted
<1>1. AccountInv => PurchasesCounted
  BY DEF AccountInv
<1> QED
  BY <1>1, AccountInductive, PTL

-----------------------------------------------------------------------------
(***************************************************************************)
(* Apple's periods: what the merge of intervals is, and which days it      *)
(* covers.                                                                 *)
(***************************************************************************)

Pairs == Nat \X Nat

LEMMA LatestFacts ==
  ASSUME NEW S \in SUBSET Pairs, IsFiniteSet(S), S # {}
  PROVE  Latest(S) \in S /\ \A j \in S : Before(j, Latest(S))
<1> DEFINE Top(s) == \E i \in s : \A j \in s : Before(j, i)
           Bad == {s \in SUBSET S : s # {} /\ ~Top(s)}
<1>1. \A a, b \in Pairs : Before(a, b) \/ Before(b, a)
  BY DEF Before, Pairs
<1>2. \A a, b, c \in Pairs : Before(a, b) /\ Before(b, c) => Before(a, c)
  BY DEF Before, Pairs
<1>3. Bad = {}
  <2> SUFFICES ASSUME Bad # {} PROVE FALSE
    OBVIOUS
  <2>1. PICK s \in Bad : \A x \in s : s \ {x} \notin Bad
    BY Smallest
  <2>2. PICK x \in s : TRUE
    OBVIOUS
  <2>3. s \subseteq Pairs /\ x \in Pairs
    OBVIOUS
  <2>4. CASE s \ {x} = {}
    <3>1. \A j \in s : Before(j, x)
      BY <1>1, <2>3, <2>4
    <3> QED
      BY <3>1
  <2>5. CASE s \ {x} # {}
    <3>1. PICK i \in s \ {x} : \A j \in s \ {x} : Before(j, i)
      BY <2>1, <2>5
    <3>2. CASE Before(i, x)
      <4>1. \A j \in s : Before(j, x)
        BY <1>1, <1>2, <2>3, <3>1, <3>2
      <4> QED
        BY <4>1
    <3>3. CASE Before(x, i)
      <4>1. \A j \in s : Before(j, i)
        BY <3>1, <3>3
      <4> QED
        BY <3>1, <4>1
    <3> QED
      BY <1>1, <2>3, <3>1, <3>2, <3>3
  <2> QED
    BY <2>4, <2>5
<1>4. Top(S)
  BY <1>3
<1> QED
  BY <1>4 DEF Latest

\* The last interval begins after the others, or with them and ends later.
LEMMA LastOfThem ==
  ASSUME NEW S \in SUBSET Pairs, IsFiniteSet(S), NEW s \in (SUBSET S) \ {{}}
  PROVE  /\ Latest(s) \in s /\ Latest(s) \in S
         /\ s \ {Latest(s)} \in SUBSET S
         /\ \A j \in s : j[1] <= Latest(s)[1]
<1>1. IsFiniteSet(s) /\ s \in SUBSET Pairs /\ s # {}
  BY FS_Subset
<1>2. Latest(s) \in s /\ \A j \in s : Before(j, Latest(s))
  BY <1>1, LatestFacts
<1> QED
  BY <1>1, <1>2 DEF Before, Pairs

Merges == {v \in SUBSET Pairs : IsFiniteSet(v)}

LEMMA JoinTyped ==
  ASSUME NEW i \in Pairs, NEW v \in Merges
  PROVE  Join(i, v) \in Merges
<1>1. CASE v = {} \/ i[1] > Latest(v)[2]
  <2>1. Join(i, v) = v \cup {i}
    BY <1>1 DEF Join
  <2>2. IsFiniteSet(v \cup {i})
    BY FS_AddElement DEF Merges
  <2> QED
    BY <2>1, <2>2 DEF Merges
<1>2. CASE ~(v = {} \/ i[1] > Latest(v)[2])
  <2> DEFINE last == Latest(v)
             more == <<last[1], Later(last[2], i[2])>>
  <2>1. last \in Pairs
    BY <1>2, LatestFacts DEF Merges
  <2>2. more \in Pairs
    BY <2>1 DEF Pairs, Later
  <2>3. Join(i, v) = (v \ {last}) \cup {more}
    BY <1>2 DEF Join
  <2>4. IsFiniteSet((v \ {last}) \cup {more})
    BY FS_AddElement, FS_RemoveElement, FS_Subset DEF Merges
  <2> QED
    BY <2>2, <2>3, <2>4 DEF Merges
<1> QED
  BY <1>1, <1>2

\* The merge takes the intervals one after the other.
Merged(S) == InOrder(Join, {}, S)

LEMMA MergeUnfolds ==
  ASSUME NEW S \in SUBSET Pairs, IsFiniteSet(S)
  PROVE  \E f : /\ Merged(S) = f[S] /\ f[{}] = {}
                /\ \A s \in (SUBSET S) \ {{}} :
                     f[s] = Join(Latest(s), f[s \ {Latest(s)}])
<1> DEFINE next == [s \in (SUBSET S) \ {{}} |-> Latest(s)]
           g == [p \in S \X Merges |-> Join(p[1], p[2])]
           Reads(f) == f = [s \in SUBSET S |->
                              IF s = {} THEN {}
                              ELSE Join(Latest(s), f[s \ {Latest(s)}])]
           first == CHOOSE f : Reads(f)
<1>1. \A s \in (SUBSET S) \ {{}} :
        /\ Latest(s) \in s /\ Latest(s) \in S
        /\ s \ {Latest(s)} \in SUBSET S
  BY LastOfThem
<1>2. g \in [S \X Merges -> Merges]
  BY JoinTyped
<1>3. {} \in Merges
  BY FS_EmptySet DEF Merges
<1>4. \A s \in (SUBSET S) \ {{}} : next[s] \in s /\ next[s] = Latest(s)
  BY <1>1
<1>5. \A i \in S, v \in Merges : g[<<i, v>>] = Join(i, v)
  OBVIOUS
<1> HIDE DEF next, g
<1>6. \E f : FoldOf(f, S, Merges, {}, next, g)
  <2>1. Takes(next, S)
    BY <1>1, <1>4 DEF next, Takes
  <2> QED
    BY <1>2, <1>3, <2>1, FoldExists
<1> PICK f : FoldOf(f, S, Merges, {}, next, g)
  BY <1>6
<1>7. \A s \in (SUBSET S) \ {{}} :
        f[s] = Join(Latest(s), f[s \ {Latest(s)}])
  BY <1>1, <1>4, <1>5 DEF FoldOf
<1>8. Reads(f)
  BY <1>7 DEF FoldOf
<1>9. Reads(first)
  <2> HIDE DEF Reads
  <2> QED
    BY <1>8
<1>10. Merged(S) = first[S]
  BY DEF Merged, InOrder, MapThenFoldSet
<1> HIDE DEF first
<1>11. /\ first[{}] = {}
       /\ \A s \in (SUBSET S) \ {{}} :
            first[s] = Join(Latest(s), first[s \ {Latest(s)}])
  BY <1>9
<1> QED
  BY <1>10, <1>11

CoversDay(S, day) == \E i \in S : i[1] <= day /\ day < i[2]

Apart(i, j)  == i = j \/ i[2] < j[1] \/ j[2] < i[1]
Separate(M)  == \A i \in M : i[1] < i[2] /\ \A j \in M : Apart(i, j)

\* What the merge of a set of intervals is.
MergeOf(v, s) ==
  /\ v \in Merges
  /\ Separate(v)
  /\ \A day \in Nat : CoversDay(v, day) <=> CoversDay(s, day)
  /\ \A i \in v : \E j \in s : j[1] = i[1]

LEMMA JoinMerges ==
  ASSUME NEW s \in SUBSET Pairs, NEW x \in Pairs, x[1] < x[2],
         \A j \in s : j[1] <= x[1],
         NEW v, MergeOf(v, s)
  PROVE  MergeOf(Join(x, v), s \cup {x})
<1>1. Join(x, v) \in Merges
  BY JoinTyped DEF MergeOf
<1>2. v \in SUBSET Pairs /\ IsFiniteSet(v) /\ Separate(v)
  BY DEF MergeOf, Merges
<1>3. \A p \in Pairs : p[1] \in Nat /\ p[2] \in Nat
  BY DEF Pairs
<1>4. \A i \in v : i[1] <= x[1]
  BY <1>2, <1>3 DEF MergeOf
<1>5. CASE v = {}
  <2>1. Join(x, v) = {x}
    BY <1>5 DEF Join
  <2>2. \A day \in Nat : ~CoversDay(s, day)
    BY <1>5 DEF MergeOf, CoversDay
  <2>3. \A day \in Nat : CoversDay({x}, day) <=> CoversDay(s \cup {x}, day)
    BY <2>2 DEF CoversDay
  <2> QED
    BY <1>1, <2>1, <2>3 DEF MergeOf, Separate, Apart
<1>6. CASE v # {}
  <2> DEFINE last == Latest(v)
  <2>1. last \in v /\ last \in Pairs /\ \A j \in v : Before(j, last)
    BY <1>2, <1>6, LatestFacts
  <2> HIDE DEF last
  <2>2. \A j \in v \ {last} : j[2] < last[1]
    BY <1>2, <1>3, <2>1 DEF Separate, Apart, Before
  <2>3. CASE x[1] > last[2]
    <3>1. Join(x, v) = v \cup {x}
      BY <2>3 DEF Join, last
    <3>2. \A j \in v : j[2] < x[1]
      BY <1>2, <1>3, <2>1, <2>2, <2>3 DEF Separate
    <3>3. Separate(v \cup {x})
      BY <1>2, <3>2 DEF Separate, Apart
    <3>4. \A day \in Nat :
            CoversDay(v \cup {x}, day) <=> CoversDay(s \cup {x}, day)
      <4> TAKE day \in Nat
      <4>1. CoversDay(v, day) <=> CoversDay(s, day)
        BY DEF MergeOf
      <4> QED
        BY <4>1 DEF CoversDay
    <3>5. \A i \in v \cup {x} : \E j \in s \cup {x} : j[1] = i[1]
      BY DEF MergeOf
    <3> QED
      BY <1>1, <3>1, <3>3, <3>4, <3>5 DEF MergeOf
  <2>4. CASE ~(x[1] > last[2])
    <3> DEFINE more == <<last[1], Later(last[2], x[2])>>
               rest == v \ {last}
    <3>1. Join(x, v) = rest \cup {more}
      BY <1>6, <2>4 DEF Join, last
    <3>2. /\ more[1] = last[1] /\ more[2] \in Nat
          /\ more[2] >= last[2] /\ more[2] >= x[2]
          /\ more[2] = last[2] \/ more[2] = x[2]
      BY <1>3, <2>1 DEF Later
    <3> HIDE DEF more
    <3>3. Separate(rest \cup {more})
      <4>1. more[1] < more[2]
        BY <1>2, <1>3, <2>1, <3>2 DEF Separate
      <4>2. \A j \in rest : j[2] < more[1]
        BY <2>2, <3>2
      <4> QED
        BY <1>2, <4>1, <4>2 DEF Separate, Apart
    <3>4. \A day \in Nat :
            CoversDay(rest \cup {more}, day) <=> CoversDay(s \cup {x}, day)
      <4> TAKE day \in Nat
      <4>1. CoversDay(rest \cup {more}, day) <=>
              CoversDay(rest, day) \/ (more[1] <= day /\ day < more[2])
        BY DEF CoversDay
      <4>2. CoversDay(v, day) <=>
              CoversDay(rest, day) \/ (last[1] <= day /\ day < last[2])
        BY <2>1 DEF CoversDay
      <4>3. CoversDay(s \cup {x}, day) <=>
              CoversDay(s, day) \/ (x[1] <= day /\ day < x[2])
        BY DEF CoversDay
      <4>4. (more[1] <= day /\ day < more[2]) <=>
              \/ last[1] <= day /\ day < last[2]
              \/ x[1] <= day /\ day < x[2]
        BY <1>3, <1>4, <2>1, <2>4, <3>2
      <4>5. CoversDay(v, day) <=> CoversDay(s, day)
        BY DEF MergeOf
      <4> QED
        BY <4>1, <4>2, <4>3, <4>4, <4>5
    <3>5. \A i \in rest \cup {more} : \E j \in s \cup {x} : j[1] = i[1]
      BY <2>1, <3>2 DEF MergeOf
    <3> QED
      BY <1>1, <3>1, <3>3, <3>4, <3>5 DEF MergeOf
  <2> QED
    BY <2>3, <2>4
<1> QED
  BY <1>5, <1>6

\* The merged intervals are separate and cover the same days.
LEMMA MergeFacts ==
  ASSUME NEW S \in SUBSET Pairs, IsFiniteSet(S), \A i \in S : i[1] < i[2]
  PROVE  MergeOf(Merged(S), S)
<1>1. PICK f : /\ Merged(S) = f[S] /\ f[{}] = {}
               /\ \A s \in (SUBSET S) \ {{}} :
                    f[s] = Join(Latest(s), f[s \ {Latest(s)}])
  BY MergeUnfolds
<1> DEFINE Bad == {s \in SUBSET S : ~MergeOf(f[s], s)}
<1>2. Bad = {}
  <2> SUFFICES ASSUME Bad # {} PROVE FALSE
    OBVIOUS
  <2>1. PICK s \in Bad : \A x \in s : s \ {x} \notin Bad
    BY Smallest
  <2>2. s # {}
    <3>1. MergeOf({}, {})
      BY FS_EmptySet DEF MergeOf, Merges, Separate
    <3> QED
      BY <1>1, <2>1, <3>1
  <2> DEFINE x    == Latest(s)
             rest == s \ {x}
  <2>3. x \in s /\ x \in S /\ rest \in SUBSET S /\ \A j \in s : j[1] <= x[1]
    BY <2>2, LastOfThem
  <2>4. f[s] = Join(x, f[rest])
    BY <1>1, <2>2
  <2>5. MergeOf(f[rest], rest)
    BY <2>1, <2>3
  <2> HIDE DEF x
  <2>6. MergeOf(Join(x, f[rest]), rest \cup {x})
    BY <2>3, <2>5, JoinMerges
  <2>7. rest \cup {x} = s
    BY <2>3
  <2> QED
    BY <2>4, <2>6, <2>7
<1> QED
  BY <1>1, <1>2

-----------------------------------------------------------------------------
(***************************************************************************)
(* Counting the days of a span that are covered, and those that are not.   *)
(***************************************************************************)

Days(S, a, b) == {day \in a .. b - 1 : CoversDay(S, day)}
Free(S, a, b) == {day \in a .. b - 1 : ~CoversDay(S, day)}

Shared(i, start, end) == Later(0, Earlier(end, i[2]) - Later(start, i[1]))

LEMMA SpanSize ==
  ASSUME NEW a \in Int, NEW b \in Int
  PROVE  /\ IsFiniteSet(a .. b - 1)
         /\ Cardinality(a .. b - 1) = IF a < b THEN b - a ELSE 0
<1>1. b - 1 \in Int
  OBVIOUS
<1>2. /\ IsFiniteSet(a .. b - 1)
      /\ Cardinality(a .. b - 1) =
           IF a > b - 1 THEN 0 ELSE b - 1 - a + 1
  BY <1>1, FS_Interval
<1> QED
  BY <1>2

LEMMA DisjointSize ==
  ASSUME NEW A, NEW B, IsFiniteSet(A), IsFiniteSet(B), A \cap B = {}
  PROVE  /\ IsFiniteSet(A \cup B)
         /\ Cardinality(A \cup B) = Cardinality(A) + Cardinality(B)
<1>1. /\ IsFiniteSet(A \cup B)
      /\ Cardinality(A \cup B)
           = Cardinality(A) + Cardinality(B) - Cardinality(A \cap B)
  BY FS_Union
<1>2. Cardinality(A \cap B) = 0
  BY FS_EmptySet
<1>3. Cardinality(A) \in Nat /\ Cardinality(B) \in Nat
  BY FS_CardinalityType
<1> QED
  BY <1>1, <1>2, <1>3

LEMMA DaysFinite ==
  ASSUME NEW S, NEW a \in Nat, NEW b \in Nat
  PROVE  /\ IsFiniteSet(Days(S, a, b)) /\ Cardinality(Days(S, a, b)) \in Nat
         /\ IsFiniteSet(Free(S, a, b)) /\ Cardinality(Free(S, a, b)) \in Nat
         /\ a < b => Cardinality(Days(S, a, b)) + Cardinality(Free(S, a, b))
                       = b - a
<1> DEFINE All == a .. b - 1
<1>1. IsFiniteSet(All) /\ (a < b => Cardinality(All) = b - a)
  BY SpanSize
<1>2. /\ Days(S, a, b) \subseteq All /\ Free(S, a, b) \subseteq All
      /\ Days(S, a, b) \cap Free(S, a, b) = {}
      /\ Days(S, a, b) \cup Free(S, a, b) = All
  BY DEF Days, Free
<1> HIDE DEF All
<1>3. IsFiniteSet(Days(S, a, b)) /\ IsFiniteSet(Free(S, a, b))
  BY <1>1, <1>2, FS_Subset
<1>4. Cardinality(Days(S, a, b)) \in Nat /\ Cardinality(Free(S, a, b)) \in Nat
  BY <1>3, FS_CardinalityType
<1>5. Cardinality(All) = Cardinality(Days(S, a, b))
                           + Cardinality(Free(S, a, b))
  BY <1>2, <1>3, DisjointSize
<1> QED
  BY <1>1, <1>3, <1>4, <1>5

\* One more interval, apart from the others, adds the days it shares with
\* the span.
LEMMA SharedDays ==
  ASSUME NEW s \in SUBSET Pairs, NEW x \in Pairs, x[1] < x[2], x \notin s,
         Separate(s \cup {x}), NEW a \in Nat, NEW b \in Nat, a < b
  PROVE  Cardinality(Days(s \cup {x}, a, b))
           = Cardinality(Days(s, a, b)) + Shared(x, a, b)
<1> DEFINE low == Later(a, x[1])
           high == Earlier(b, x[2])
           More == low .. high - 1
<1>0. x[1] \in Nat /\ x[2] \in Nat
  BY DEF Pairs
<1>1. low \in Nat /\ high \in Nat
  BY <1>0 DEF Later, Earlier
<1>2. Days(s \cup {x}, a, b) = Days(s, a, b) \cup More
  BY <1>0 DEF Days, CoversDay, Later, Earlier
<1>3. Days(s, a, b) \cap More = {}
  <2> SUFFICES ASSUME NEW day \in More, NEW i \in s,
                      i[1] <= day /\ day < i[2]
               PROVE  FALSE
    BY DEF Days, CoversDay
  <2>1. x[1] <= day /\ day < x[2] /\ day \in Int
    BY <1>0, <1>1 DEF Later, Earlier
  <2>2. i[1] \in Nat /\ i[2] \in Nat
    BY DEF Pairs
  <2>3. Apart(i, x)
    BY DEF Separate
  <2> QED
    BY <1>0, <2>1, <2>2, <2>3 DEF Apart
<1>4. /\ IsFiniteSet(More)
      /\ Cardinality(More) = IF low < high THEN high - low ELSE 0
  <2> HIDE DEF low, high
  <2> QED
    BY <1>1, SpanSize
<1>5. Shared(x, a, b) = IF low < high THEN high - low ELSE 0
  <2>1. Shared(x, a, b) = IF 0 >= high - low THEN 0 ELSE high - low
    BY DEF Shared, Later
  <2> HIDE DEF low, high
  <2> QED
    BY <1>1, <2>1
<1> HIDE DEF More, low, high
<1>6. IsFiniteSet(Days(s, a, b))
  BY DaysFinite
<1>7. Cardinality(Days(s, a, b) \cup More)
        = Cardinality(Days(s, a, b)) + Cardinality(More)
  BY <1>3, <1>4, <1>6, DisjointSize
<1> QED
  BY <1>2, <1>4, <1>5, <1>7

\* The days that intervals share with a span, one interval after the other.
LEMMA CoveredUnfolds ==
  ASSUME NEW S \in SUBSET Pairs, IsFiniteSet(S),
         NEW a \in Nat, NEW b \in Nat, a < b
  PROVE  \E f : /\ Covered(a, b, S) = f[S] /\ f[{}] = 0
                /\ \A s \in (SUBSET S) \ {{}} :
                     f[s] = f[s \ {Latest(s)}] + Shared(Latest(s), a, b)
<1> DEFINE next == [s \in (SUBSET S) \ {{}} |-> Latest(s)]
           g == [p \in S \X Int |-> p[2] + Shared(p[1], a, b)]
           Reads(f) == f = [s \in SUBSET S |->
             IF s = {} THEN 0
             ELSE f[s \ {Latest(s)}] +
                  Later(0, Earlier(b, Latest(s)[2]) - Later(a, Latest(s)[1]))]
           first == CHOOSE f : Reads(f)
<1>1. \A s \in (SUBSET S) \ {{}} :
        /\ Latest(s) \in s /\ Latest(s) \in S
        /\ s \ {Latest(s)} \in SUBSET S
  BY LastOfThem
<1>2. g \in [S \X Int -> Int]
  BY DEF Shared, Later, Earlier, Pairs
<1>4. \A s \in (SUBSET S) \ {{}} : next[s] \in s /\ next[s] = Latest(s)
  BY <1>1
<1>5. \A i \in S, v \in Int : g[<<i, v>>] = v + Shared(i, a, b)
  OBVIOUS
<1> HIDE DEF next, g
<1>6. \E f : FoldOf(f, S, Int, 0, next, g)
  <2>1. Takes(next, S)
    BY <1>1, <1>4 DEF next, Takes
  <2> QED
    BY <1>2, <2>1, FoldExists
<1> PICK f : FoldOf(f, S, Int, 0, next, g)
  BY <1>6
<1>7. \A s \in (SUBSET S) \ {{}} :
        f[s] = f[s \ {Latest(s)}] + Shared(Latest(s), a, b)
  BY <1>1, <1>4, <1>5 DEF FoldOf
<1>8. Reads(f)
  BY <1>7 DEF FoldOf, Shared
<1>9. Reads(first)
  <2> HIDE DEF Reads
  <2> QED
    BY <1>8
<1>10. Covered(a, b, S) = first[S]
  BY DEF Covered, InOrder, MapThenFoldSet
<1> HIDE DEF first
<1>11. /\ first[{}] = 0
       /\ \A s \in (SUBSET S) \ {{}} :
            first[s] = first[s \ {Latest(s)}] + Shared(Latest(s), a, b)
  BY <1>9 DEF Shared
<1> QED
  BY <1>10, <1>11

\* _covered_seconds counts the days of a span that are covered.
LEMMA CoveredCounts ==
  ASSUME NEW M \in SUBSET Pairs, IsFiniteSet(M), Separate(M),
         NEW a \in Nat, NEW b \in Nat, a < b
  PROVE  Covered(a, b, M) = Cardinality(Days(M, a, b))
<1>1. PICK f : /\ Covered(a, b, M) = f[M] /\ f[{}] = 0
               /\ \A s \in (SUBSET M) \ {{}} :
                    f[s] = f[s \ {Latest(s)}] + Shared(Latest(s), a, b)
  BY CoveredUnfolds
<1> DEFINE Bad == {s \in SUBSET M : f[s] # Cardinality(Days(s, a, b))}
<1>2. Bad = {}
  <2> SUFFICES ASSUME Bad # {} PROVE FALSE
    OBVIOUS
  <2>1. PICK s \in Bad : \A x \in s : s \ {x} \notin Bad
    BY Smallest
  <2>2. s # {}
    <3>1. Days({}, a, b) = {}
      BY DEF Days, CoversDay
    <3> QED
      BY <1>1, <2>1, <3>1, FS_EmptySet
  <2> DEFINE x    == Latest(s)
             rest == s \ {x}
  <2>3. x \in s /\ x \in M /\ rest \in SUBSET M /\ rest \cup {x} = s
    BY <2>2, LastOfThem
  <2>4. f[s] = f[rest] + Shared(x, a, b)
    BY <1>1, <2>2
  <2>5. f[rest] = Cardinality(Days(rest, a, b))
    BY <2>1, <2>3
  <2> HIDE DEF x
  <2>6. Separate(rest \cup {x}) /\ x[1] < x[2] /\ x \notin rest
        /\ x \in Pairs /\ rest \in SUBSET Pairs
    BY <2>3 DEF Separate
  <2> HIDE DEF rest
  <2>7. Cardinality(Days(rest \cup {x}, a, b))
          = Cardinality(Days(rest, a, b)) + Shared(x, a, b)
    BY <2>6, SharedDays
  <2> QED
    BY <2>3, <2>4, <2>5, <2>7
<1> QED
  BY <1>1, <1>2

-----------------------------------------------------------------------------
(***************************************************************************)
(* Projecting a balance around the periods ahead.                          *)
(***************************************************************************)

Begun(now, balance) == [cursor |-> now, left |-> balance, end |-> Null]

Projections == [cursor: Int, left: Int, end: Int]

LEMMA ProjectUnfolds ==
  ASSUME NEW S \in SUBSET Pairs, IsFiniteSet(S),
         NEW now \in Nat, NEW balance \in Nat, balance > 0
  PROVE  \E f : /\ Project(now, balance, S)
                     = IF f[S].end # Null THEN f[S].end
                       ELSE f[S].cursor + f[S].left
                /\ f[{}] = Begun(now, balance)
                /\ \A s \in (SUBSET S) \ {{}} :
                     f[s] = Pass(Latest(s), f[s \ {Latest(s)}])
<1> DEFINE next == [s \in (SUBSET S) \ {{}} |-> Latest(s)]
           g == [p \in S \X Projections |-> Pass(p[1], p[2])]
           Reads(f) == f = [s \in SUBSET S |->
             IF s = {} THEN [cursor |-> now, left |-> balance, end |-> Null]
             ELSE Pass(Latest(s), f[s \ {Latest(s)}])]
           first == CHOOSE f : Reads(f)
<1>1. \A s \in (SUBSET S) \ {{}} :
        /\ Latest(s) \in s /\ Latest(s) \in S
        /\ s \ {Latest(s)} \in SUBSET S
  BY LastOfThem
<1>2. \A i \in S, p \in Projections : Pass(i, p) \in Projections
  <2> TAKE i \in S, p \in Projections
  <2>1. i[1] \in Int /\ i[2] \in Int
    BY DEF Pairs
  <2>2. p.cursor \in Int /\ p.left \in Int /\ p.end \in Int
    BY DEF Projections
  <2>3. Later(0, i[1] - p.cursor) \in Int
    BY <2>1, <2>2 DEF Later
  <2> QED
    BY <2>1, <2>2, <2>3 DEF Pass, Projections, Null
<1>3. Begun(now, balance) \in Projections
  BY DEF Begun, Projections, Null
<1>4. \A s \in (SUBSET S) \ {{}} : next[s] \in s /\ next[s] = Latest(s)
  BY <1>1
<1>5. \A i \in S, p \in Projections : g[<<i, p>>] = Pass(i, p)
  OBVIOUS
<1>6. g \in [S \X Projections -> Projections]
  BY <1>2
<1>7. Takes(next, S)
  BY <1>1, <1>4 DEF Takes
<1> HIDE DEF next, g
<1>8. \E f : FoldOf(f, S, Projections, Begun(now, balance), next, g)
  BY <1>3, <1>6, <1>7, FoldExists
<1> PICK f : FoldOf(f, S, Projections, Begun(now, balance), next, g)
  BY <1>8
<1>9. \A s \in (SUBSET S) \ {{}} :
        f[s] = Pass(Latest(s), f[s \ {Latest(s)}])
  BY <1>1, <1>4, <1>5 DEF FoldOf
<1>10. f = [s \in SUBSET S |->
              IF s = {} THEN Begun(now, balance)
              ELSE Pass(Latest(s), f[s \ {Latest(s)}])]
  BY <1>9 DEF FoldOf
<1>11. Reads(f)
  BY <1>10 DEF Begun
<1>12. Reads(first)
  <2> HIDE DEF Reads
  <2> QED
    BY <1>11
<1>13. Project(now, balance, S) =
         IF first[S].end # Null THEN first[S].end
         ELSE first[S].cursor + first[S].left
  BY DEF Project, InOrder, MapThenFoldSet
<1>14. first = [s \in SUBSET S |->
                  IF s = {} THEN Begun(now, balance)
                  ELSE Pass(Latest(s), first[s \ {Latest(s)}])]
  <2> HIDE DEF first
  <2> QED
    BY <1>12 DEF Begun
<1> HIDE DEF first
<1>15. /\ first[{}] = Begun(now, balance)
       /\ \A s \in (SUBSET S) \ {{}} :
            first[s] = Pass(Latest(s), first[s \ {Latest(s)}])
  BY <1>14
<1> QED
  BY <1>13, <1>15

LEMMA FreeAfter ==
  ASSUME NEW s, NEW a \in Nat, NEW b \in Nat, NEW c \in Nat, a <= b, b <= c,
         \A day \in b .. c - 1 : ~CoversDay(s, day)
  PROVE  Cardinality(Free(s, a, c)) = Cardinality(Free(s, a, b)) + (c - b)
<1>1. Free(s, a, c) = Free(s, a, b) \cup (b .. c - 1)
  BY DEF Free
<1>2. Free(s, a, b) \cap (b .. c - 1) = {}
  BY DEF Free
<1>3. IsFiniteSet(b .. c - 1) /\ Cardinality(b .. c - 1) = c - b
  BY SpanSize
<1>4. IsFiniteSet(Free(s, a, b))
  BY DaysFinite
<1> QED
  BY <1>1, <1>2, <1>3, <1>4, DisjointSize

\* The projection after the intervals of s.
Projected(p, s, now, balance) ==
  /\ p \in Projections
  /\ p.end # Null =>
       /\ p.end > now /\ Cardinality(Free(s, now, p.end)) = balance
       /\ ~CoversDay(s, p.end - 1)
       /\ \E i \in s : p.end <= i[1]
  /\ p.end = Null =>
       /\ p.left > 0 /\ p.left = balance - Cardinality(Free(s, now, p.cursor))
       /\ p.cursor >= now
       /\ p.cursor = now \/ \E i \in s : p.cursor = i[2]
       /\ \A i \in s : i[2] <= p.cursor

LEMMA PassProjects ==
  ASSUME NEW s \in SUBSET Pairs, NEW x \in Pairs, x[1] < x[2],
         \A i \in s : i[2] < x[1] /\ i[1] < i[2],
         NEW now \in Nat, NEW balance \in Nat,
         NEW p, Projected(p, s, now, balance)
  PROVE  Projected(Pass(x, p), s \cup {x}, now, balance)
<1> DEFINE t == s \cup {x}
           gap == x[1] - p.cursor
<1>1. x[1] \in Nat /\ x[2] \in Nat /\ \A i \in s : i[1] \in Nat /\ i[2] \in Nat
  BY DEF Pairs
<1>2. p \in Projections /\ p.cursor \in Int /\ p.left \in Int /\ p.end \in Int
  BY DEF Projected, Projections
<1>3. \A day \in Nat : ~(x[1] <= day /\ day < x[2]) =>
        (CoversDay(t, day) <=> CoversDay(s, day))
  BY DEF CoversDay
<1>4. CASE p.end # Null
  <2>1. Pass(x, p) = p
    BY <1>4 DEF Pass
  <2>2. PICK i \in s : p.end <= i[1]
    BY <1>4 DEF Projected
  <2>3. p.end <= x[1] /\ p.end \in Nat /\ p.end > now
    BY <1>1, <1>2, <1>4, <2>2 DEF Projected
  <2>4. Free(t, now, p.end) = Free(s, now, p.end)
    BY <1>1, <1>3, <2>3 DEF Free
  <2>5. ~CoversDay(t, p.end - 1)
    BY <1>1, <1>3, <1>4, <2>3 DEF Projected
  <2> QED
    BY <1>4, <2>1, <2>2, <2>4, <2>5 DEF Projected
<1>5. CASE p.end = Null
  <2>1. /\ p.left > 0
        /\ p.left = balance - Cardinality(Free(s, now, p.cursor))
        /\ p.cursor >= now /\ p.cursor \in Nat
        /\ p.cursor = now \/ p.cursor < x[1]
        /\ \A i \in s : i[2] <= p.cursor
    BY <1>2, <1>5 DEF Projected
  <2>2. \A day \in Nat : day >= p.cursor => ~CoversDay(s, day)
    BY <1>1, <2>1 DEF CoversDay
  <2>3. CASE x[2] <= p.cursor
    <3>1. Pass(x, p) = p
      BY <2>3 DEF Pass
    <3>2. p.cursor = now
      BY <1>1, <2>1, <2>3
    <3>3. Free(t, now, p.cursor) = {} /\ Free(s, now, p.cursor) = {}
      BY <3>2 DEF Free
    <3> QED
      BY <1>5, <2>1, <2>3, <3>1, <3>2, <3>3, <1>2 DEF Projected
  <2>4. CASE ~(x[2] <= p.cursor) /\ gap > 0 /\ p.left <= gap
    <3> DEFINE e == p.cursor + p.left
    <3>1. Pass(x, p) = [p EXCEPT !.end = e]
      BY <1>5, <2>4 DEF Pass
    <3>2. Pass(x, p) \in Projections /\ Pass(x, p).end = e
      BY <1>2, <3>1 DEF Projections
    <3>3. e \in Nat /\ e > now /\ e > p.cursor /\ e <= x[1]
      BY <1>1, <1>2, <2>1, <2>4
    <3> HIDE DEF e
    <3>4. Cardinality(Free(s, now, e))
            = Cardinality(Free(s, now, p.cursor)) + (e - p.cursor)
      BY <2>1, <2>2, <3>3, FreeAfter
    <3>5. Free(t, now, e) = Free(s, now, e)
      <4>1. \A day \in now .. e - 1 : CoversDay(t, day) <=> CoversDay(s, day)
        <5> TAKE day \in now .. e - 1
        <5>1. day \in Nat /\ ~(x[1] <= day)
          BY <1>1, <3>3
        <5> QED
          BY <1>3, <5>1
      <4> HIDE DEF t
      <4> QED
        BY <4>1 DEF Free
    <3>6. Cardinality(Free(s, now, p.cursor)) \in Nat
      BY <2>1, DaysFinite
    <3>7. Cardinality(Free(t, now, e)) = balance
      BY <1>2, <2>1, <3>3, <3>4, <3>5, <3>6 DEF e
    <3>8. ~CoversDay(t, e - 1)
      BY <1>1, <1>3, <2>1, <2>2, <3>3
    <3> QED
      BY <3>2, <3>3, <3>7, <3>8 DEF Projected, Null
  <2>5. CASE ~(x[2] <= p.cursor) /\ ~(gap > 0 /\ p.left <= gap)
    <3> DEFINE used == Later(0, gap)
               q == Pass(x, p)
               free == Cardinality(Free(s, now, p.cursor))
    <3>1. q = [cursor |-> x[2], left |-> p.left - used, end |-> Null]
      BY <1>5, <2>5 DEF Pass
    <3>2. used \in Nat /\ used = IF gap > 0 THEN gap ELSE 0
      BY <1>1, <1>2 DEF Later
    <3>3. /\ q \in Projections /\ q.end = Null /\ q.cursor = x[2]
          /\ q.left = p.left - used
      BY <1>1, <1>2, <3>1, <3>2 DEF Projections, Null
    <3> HIDE DEF q, used
    <3>4. free \in Nat
      BY <2>1, DaysFinite
    <3>5. Cardinality(Free(t, now, x[2])) = free + used
      <4>1. CASE gap > 0
        <5>1. Free(t, now, x[2]) = Free(s, now, x[1])
          <6>1. \A day \in now .. x[1] - 1 :
                  CoversDay(t, day) <=> CoversDay(s, day)
            BY <1>1, <1>3
          <6>2. \A day \in x[1] .. x[2] - 1 : CoversDay(t, day)
            BY <1>1 DEF CoversDay
          <6>3. now <= x[1]
            BY <1>1, <2>1, <4>1
          <6> HIDE DEF t
          <6> QED
            BY <1>1, <6>1, <6>2, <6>3 DEF Free
        <5>2. \A day \in p.cursor .. x[1] - 1 : ~CoversDay(s, day)
          BY <2>1, <2>2
        <5>3. Cardinality(Free(s, now, x[1])) = free + (x[1] - p.cursor)
          BY <1>1, <2>1, <4>1, <5>2, FreeAfter
        <5> QED
          BY <3>2, <4>1, <5>1, <5>3
      <4>2. CASE ~(gap > 0)
        <5>1. p.cursor = now /\ x[1] <= now /\ used = 0
          BY <1>1, <2>1, <3>2, <4>2
        <5>2. Free(t, now, x[2]) = {} /\ Free(s, now, p.cursor) = {}
          BY <1>1, <5>1 DEF Free, CoversDay
        <5>3. Cardinality(Free(t, now, x[2])) = 0 /\ free = 0
          BY <5>2, FS_EmptySet
        <5> QED
          BY <5>1, <5>3
      <4> QED
        BY <4>1, <4>2
    <3> HIDE DEF free
    <3>6. /\ q.left > 0
          /\ q.left = balance - Cardinality(Free(t, now, q.cursor))
      BY <1>2, <2>1, <2>5, <3>2, <3>3, <3>4, <3>5 DEF free
    <3>7. q.cursor >= now
      BY <1>1, <2>1, <2>5, <3>3
    <3>8. \A i \in t : i[2] <= q.cursor
      BY <1>1, <3>3
    <3> QED
      BY <3>3, <3>6, <3>7, <3>8 DEF Projected, q
  <2> QED
    BY <2>3, <2>4, <2>5
<1> QED
  BY <1>4, <1>5

\* The projected expiry is the instant before which as many days are not
\* covered as are left, and the day before it is one of them.
Expires(e, now, balance, M) ==
  /\ e \in Nat /\ e > now
  /\ Cardinality(Free(M, now, e)) = balance
  /\ ~CoversDay(M, e - 1)

LEMMA ProjectExpires ==
  ASSUME NEW M \in SUBSET Pairs, IsFiniteSet(M), Separate(M),
         NEW now \in Nat, NEW balance \in Nat, balance > 0
  PROVE  Expires(Project(now, balance, M), now, balance, M)
<1>1. PICK f : /\ Project(now, balance, M)
                     = IF f[M].end # Null THEN f[M].end
                       ELSE f[M].cursor + f[M].left
               /\ f[{}] = Begun(now, balance)
               /\ \A s \in (SUBSET M) \ {{}} :
                     f[s] = Pass(Latest(s), f[s \ {Latest(s)}])
  BY ProjectUnfolds
<1> DEFINE Bad == {s \in SUBSET M : ~Projected(f[s], s, now, balance)}
<1>2. Bad = {}
  <2> SUFFICES ASSUME Bad # {} PROVE FALSE
    OBVIOUS
  <2>1. PICK s \in Bad : \A x \in s : s \ {x} \notin Bad
    BY Smallest
  <2>2. s # {}
    <3>1. Free({}, now, now) = {}
      BY DEF Free
    <3>2. Cardinality(Free({}, now, now)) = 0
      BY <3>1, FS_EmptySet
    <3>3. Projected(Begun(now, balance), {}, now, balance)
      BY <3>2 DEF Projected, Begun, Projections, Null
    <3> QED
      BY <1>1, <2>1, <3>3
  <2> DEFINE x    == Latest(s)
             rest == s \ {x}
  <2>3. /\ x \in s /\ x \in M /\ rest \in SUBSET M /\ rest \cup {x} = s
        /\ \A j \in s : j[1] <= x[1]
    BY <2>2, LastOfThem
  <2>4. f[s] = Pass(x, f[rest])
    BY <1>1, <2>2
  <2>5. Projected(f[rest], rest, now, balance)
    BY <2>1, <2>3
  <2> HIDE DEF x
  <2>6. \A i \in rest : i[2] < x[1] /\ i[1] < i[2]
    BY <2>3 DEF Separate, Apart, Pairs
  <2>7. x \in Pairs /\ x[1] < x[2] /\ rest \in SUBSET Pairs
    BY <2>3 DEF Separate
  <2> HIDE DEF rest
  <2>8. Projected(Pass(x, f[rest]), rest \cup {x}, now, balance)
    BY <2>5, <2>6, <2>7, PassProjects
  <2> QED
    BY <2>3, <2>4, <2>8
<1> DEFINE p == f[M]
<1>3. Projected(p, M, now, balance)
  BY <1>2
<1>4. Project(now, balance, M) = IF p.end # Null THEN p.end
                                 ELSE p.cursor + p.left
  BY <1>1
<1> HIDE DEF p
<1>5. p.cursor \in Int /\ p.left \in Int /\ p.end \in Int
  BY <1>3 DEF Projected, Projections
<1>6. CASE p.end # Null
  BY <1>3, <1>4, <1>5, <1>6 DEF Projected, Expires
<1>7. CASE p.end = Null
  <2> DEFINE e == p.cursor + p.left
  <2>1. /\ p.left > 0 /\ p.cursor >= now /\ p.cursor \in Nat
        /\ p.left = balance - Cardinality(Free(M, now, p.cursor))
        /\ \A i \in M : i[2] <= p.cursor
    BY <1>3, <1>5, <1>7 DEF Projected
  <2>2. \A day \in Nat : day >= p.cursor => ~CoversDay(M, day)
    BY <2>1 DEF CoversDay, Pairs
  <2>3. e \in Nat /\ e > p.cursor
    BY <1>5, <2>1
  <2>4. e - p.cursor = p.left
    BY <1>5
  <2> HIDE DEF e
  <2>5. Cardinality(Free(M, now, e))
          = Cardinality(Free(M, now, p.cursor)) + (e - p.cursor)
    BY <2>1, <2>2, <2>3, FreeAfter
  <2>6. Cardinality(Free(M, now, p.cursor)) \in Nat
    BY <2>1, DaysFinite
  <2>7. ~CoversDay(M, e - 1)
    BY <2>1, <2>2, <2>3
  <2> QED
    BY <1>4, <1>7, <2>1, <2>3, <2>4, <2>5, <2>6, <2>7 DEF Expires, e
<1> QED
  BY <1>6, <1>7

-----------------------------------------------------------------------------
(***************************************************************************)
(* Balances, day by day and grant by grant.                                *)
(***************************************************************************)

\* A function of days exists that is given day after day.
DailyOf(L, V, base, g, n) ==
  /\ L \in [0 .. n -> V] /\ L[0] = base
  /\ \A d \in 1 .. n : L[d] = g[<<d, L[d - 1]>>]

LEMMA DailyExists ==
  ASSUME NEW V, NEW base \in V, NEW g \in [Nat \X V -> V], NEW n \in Nat
  PROVE  \E L : DailyOf(L, V, base, g, n)
<1> DEFINE Daily(L, m) == /\ L \in [0 .. m -> V] /\ L[0] = base
                          /\ \A d \in 1 .. m : L[d] = g[<<d, L[d - 1]>>]
           Bad == {m \in Nat : ~ \E L : Daily(L, m)}
<1>1. \E L : Daily(L, 0)
  <2> DEFINE L == [d \in 0 .. 0 |-> base]
  <2>1. Daily(L, 0)
    OBVIOUS
  <2> QED
    BY <2>1
<1>2. ASSUME NEW m \in Nat, m # 0, NEW K, Daily(K, m - 1)
      PROVE  \E L : Daily(L, m)
  <2> DEFINE L == [d \in 0 .. m |-> IF d < m THEN K[d]
                                    ELSE g[<<m, K[m - 1]>>]]
  <2>1. K[m - 1] \in V
    BY <1>2
  <2>2. L \in [0 .. m -> V] /\ L[0] = base
    BY <1>2, <2>1
  <2>3. \A d \in 0 .. m - 1 : L[d] = K[d]
    OBVIOUS
  <2>4. L[m] = g[<<m, K[m - 1]>>]
    OBVIOUS
  <2> HIDE DEF L
  <2>5. \A d \in 1 .. m : L[d] = g[<<d, L[d - 1]>>]
    <3> TAKE d \in 1 .. m
    <3>1. L[d - 1] = K[d - 1]
      BY <2>3
    <3>2. CASE d = m
      BY <2>4, <3>1, <3>2
    <3>3. CASE d # m
      <4>1. d \in 1 .. m - 1
        BY <3>3
      <4> QED
        BY <1>2, <2>3, <3>1, <4>1
    <3> QED
      BY <3>2, <3>3
  <2> QED
    BY <2>2, <2>5
<1> HIDE DEF Daily
<1>3. Bad = {}
  <2> SUFFICES ASSUME Bad # {} PROVE FALSE
    OBVIOUS
  <2>1. PICK m \in Bad : m = 0 \/ m - 1 \notin Bad
    BY FirstNumber
  <2>2. m # 0 /\ m - 1 \in Nat
    BY <1>1
  <2>3. PICK K : Daily(K, m - 1)
    BY <2>1, <2>2
  <2> QED
    BY <1>2, <2>2, <2>3
<1>4. PICK L : Daily(L, n)
  BY <1>3
<1> QED
  BY <1>4 DEF Daily, DailyOf

Aged(M, day, b) == IF CoversDay(M, day) \/ b = 0 THEN b ELSE b - 1

GrantsOf(s, G, d) == {r \in s : G[r] = d}

\* The balances of the days up to n, of the grants to the rewards in s.
Balances(L, s, G, M, n) ==
  /\ L \in [0 .. n -> Nat]
  /\ L[0] = 0
  /\ \A d \in 1 .. n : L[d] = RewardDays * Cardinality(GrantsOf(s, G, d))
                                + Aged(M, d - 1, L[d - 1])

LEMMA GrantsFinite ==
  ASSUME NEW s, IsFiniteSet(s), NEW G, NEW d
  PROVE  /\ IsFiniteSet(GrantsOf(s, G, d))
         /\ Cardinality(GrantsOf(s, G, d)) \in Nat
<1>1. GrantsOf(s, G, d) \in SUBSET s
  BY DEF GrantsOf
<1> QED
  BY <1>1, FS_Subset, FS_CardinalityType

LEMMA BalancesExist ==
  ASSUME NEW s, IsFiniteSet(s), NEW G, NEW M, NEW n \in Nat
  PROVE  \E L : Balances(L, s, G, M, n)
<1> DEFINE more(d) == RewardDays * Cardinality(GrantsOf(s, G, d))
           g == [p \in Nat \X Nat |-> more(p[1]) + Aged(M, p[1] - 1, p[2])]
<1>1. \A d : more(d) \in Nat
  BY GrantsFinite, RewardAssumption
<1> HIDE DEF more
<1>2. \A day, b : b \in Nat => Aged(M, day, b) \in Nat
  BY DEF Aged
<1>3. g \in [Nat \X Nat -> Nat]
  BY <1>1, <1>2
<1>4. \A d, b \in Nat : g[<<d, b>>] = more(d) + Aged(M, d - 1, b)
  OBVIOUS
<1> HIDE DEF g
<1>0. PICK L : DailyOf(L, Nat, 0, g, n)
  BY <1>3, DailyExists
<1>5. /\ L \in [0 .. n -> Nat] /\ L[0] = 0
      /\ \A d \in 1 .. n : L[d] = g[<<d, L[d - 1]>>]
  BY <1>0 DEF DailyOf
<1>6. \A d \in 1 .. n : L[d] = more(d) + Aged(M, d - 1, L[d - 1])
  <2> TAKE d \in 1 .. n
  <2>1. d \in Nat /\ L[d - 1] \in Nat
    BY <1>5
  <2> QED
    BY <1>4, <1>5, <2>1
<1>7. \A d \in 1 .. n : L[d] = RewardDays * Cardinality(GrantsOf(s, G, d))
                                + Aged(M, d - 1, L[d - 1])
  BY <1>6 DEF more
<1>8. Balances(L, s, G, M, n)
  BY <1>5, <1>7 DEF Balances
<1> QED
  BY <1>8

SameGrants(s, t, G, c) ==
  \A d \in 1 .. c : GrantsOf(s, G, d) = GrantsOf(t, G, d)

\* Balances that differ in later grants only agree before these.
LEMMA BalancesAgree ==
  ASSUME NEW s, NEW t, NEW G, NEW M, NEW n \in Nat, NEW c \in 0 .. n,
         NEW L, Balances(L, s, G, M, n), NEW K, Balances(K, t, G, M, n),
         SameGrants(s, t, G, c)
  PROVE  \A d \in 0 .. c : L[d] = K[d]
<1> DEFINE Bad == {d \in 0 .. c : L[d] # K[d]}
<1>1. Bad = {}
  <2> SUFFICES ASSUME Bad # {} PROVE FALSE
    OBVIOUS
  <2>1. PICK d \in Bad : d = 0 \/ d - 1 \notin Bad
    <3>1. Bad \in SUBSET Nat
      OBVIOUS
    <3> QED
      BY <3>1, FirstNumber
  <2>2. d # 0 /\ d \in 1 .. c /\ d \in 1 .. n /\ d - 1 \in 0 .. c
    BY DEF Balances
  <2>3. L[d - 1] = K[d - 1]
    BY <2>1, <2>2
  <2>4. L[d] = K[d]
    BY <2>2, <2>3 DEF Balances, SameGrants
  <2> QED
    BY <2>4
<1> QED
  BY <1>1

\* While nothing is granted a balance is used up on the free days.
LEMMA BalanceSpent ==
  ASSUME NEW s, NEW G, NEW M, NEW n \in Nat, NEW a \in 0 .. n,
         NEW c \in a .. n, NEW L, Balances(L, s, G, M, n),
         \A d \in a + 1 .. c : GrantsOf(s, G, d) = {}
  PROVE  L[c] = Later(0, L[a] - Cardinality(Free(M, a, c)))
<1> DEFINE Wrong(d) == L[d] # Later(0, L[a] - Cardinality(Free(M, a, d)))
           Bad == {d \in a .. c : Wrong(d)}
<1>1. Bad = {}
  <2> SUFFICES ASSUME Bad # {} PROVE FALSE
    OBVIOUS
  <2>1. PICK d \in Bad : d = 0 \/ d - 1 \notin Bad
    <3>1. Bad \in SUBSET Nat
      OBVIOUS
    <3> QED
      BY <3>1, FirstNumber
  <2> DEFINE e == d - 1
             free == Cardinality(Free(M, a, e))
  <2>2. a \in Nat /\ d \in Nat /\ L[a] \in Nat /\ L[d] \in Nat
    BY DEF Balances
  <2>3. d # a
    <3>1. Free(M, a, a) = {}
      BY DEF Free
    <3>2. Cardinality(Free(M, a, a)) = 0
      BY <3>1, FS_EmptySet
    <3>3. ~Wrong(a)
      BY <2>2, <3>2 DEF Later
    <3> QED
      BY <3>3
  <2>4. e \in a .. c /\ e \in Nat /\ d \in a + 1 .. c /\ d \in 1 .. n
    BY <2>2, <2>3
  <2>5. L[e] = Later(0, L[a] - free) /\ free \in Nat
    BY <2>1, <2>2, <2>4, DaysFinite
  <2>6. L[d] = Aged(M, e, L[e])
    <3>1. GrantsOf(s, G, d) = {}
      BY <2>4
    <3>2. L[d] = RewardDays * Cardinality(GrantsOf(s, G, d))
                   + Aged(M, e, L[e])
      BY <2>4 DEF Balances
    <3>3. Cardinality({}) = 0
      BY FS_EmptySet
    <3>4. L[e] \in Nat /\ Aged(M, e, L[e]) \in Nat
      BY <2>2, <2>4 DEF Balances, Aged
    <3> QED
      BY <3>1, <3>2, <3>3, <3>4, RewardAssumption
  <2> HIDE DEF e
  <2>7. CASE CoversDay(M, e)
    <3>1. Free(M, a, d) = Free(M, a, e)
      BY <2>2, <2>4, <2>7 DEF Free, e
    <3> QED
      BY <2>5, <2>6, <2>7, <3>1 DEF Aged
  <2>8. CASE ~CoversDay(M, e)
    <3>1. \A day \in e .. d - 1 : ~CoversDay(M, day)
      BY <2>2, <2>4, <2>8 DEF e
    <3>2. a <= e /\ e <= d /\ d - e = 1
      BY <2>2, <2>4 DEF e
    <3>3. Cardinality(Free(M, a, d)) = Cardinality(Free(M, a, e)) + (d - e)
      <4>1. \A x, y, z \in Nat :
              x <= y /\ y <= z /\ (\A day \in y .. z - 1 : ~CoversDay(M, day))
              => Cardinality(Free(M, x, z))
                   = Cardinality(Free(M, x, y)) + (z - y)
        BY FreeAfter
      <4> HIDE DEF Bad
      <4> QED
        BY <2>2, <2>4, <3>1, <3>2, <4>1
    <3> HIDE DEF free
    <3>4. L[d] = Later(0, L[a] - (free + 1))
      BY <2>2, <2>5, <2>6, <2>8 DEF Aged, Later
    <3> QED
      BY <3>2, <3>3, <3>4 DEF free
  <2> QED
    BY <2>7, <2>8
<1> QED
  BY <1>1

\* _spend: the same of merged intervals.
LEMMA SpendFree ==
  ASSUME NEW M \in SUBSET Pairs, IsFiniteSet(M), Separate(M),
         NEW a \in Nat, NEW c \in Nat, a <= c, NEW b \in Nat
  PROVE  Spend(b, a, c, M) = Later(0, b - Cardinality(Free(M, a, c)))
<1>1. CASE a = c
  <2>1. Free(M, a, c) = {}
    BY <1>1 DEF Free
  <2>2. Cardinality(Free(M, a, c)) = 0
    BY <2>1, FS_EmptySet
  <2>3. Covered(a, c, M) = 0
    BY <1>1 DEF Covered
  <2> QED
    BY <1>1, <2>2, <2>3 DEF Spend, Later
<1>2. CASE a # c
  <2>1. Covered(a, c, M) = Cardinality(Days(M, a, c)) /\ a < c
    BY <1>2, CoveredCounts
  <2>2. /\ Cardinality(Days(M, a, c)) \in Nat
        /\ Cardinality(Free(M, a, c)) \in Nat
        /\ Cardinality(Days(M, a, c)) + Cardinality(Free(M, a, c)) = c - a
    BY <2>1, DaysFinite
  <2>3. Later(0, c - a - Covered(a, c, M)) = Cardinality(Free(M, a, c))
    BY <2>1, <2>2 DEF Later
  <2> QED
    BY <2>3 DEF Spend
<1> QED
  BY <1>1, <1>2

LEMMA NewestFacts ==
  ASSUME NEW S, IsFiniteSet(S), S # {}, NEW G, \A r \in S : G[r] \in Nat
  PROVE  Newest(G, S) \in S /\ \A q \in S : G[q] <= G[Newest(G, S)]
<1> DEFINE Top(s) == \E r \in s : \A q \in s : G[q] <= G[r]
           Bad == {s \in SUBSET S : s # {} /\ ~Top(s)}
<1>1. Bad = {}
  <2> SUFFICES ASSUME Bad # {} PROVE FALSE
    OBVIOUS
  <2>1. PICK s \in Bad : \A x \in s : s \ {x} \notin Bad
    BY Smallest
  <2>2. PICK x \in s : TRUE
    OBVIOUS
  <2>3. CASE s \ {x} = {}
    <3>1. \A q \in s : G[q] <= G[x]
      BY <2>3
    <3> QED
      BY <3>1
  <2>4. CASE s \ {x} # {}
    <3>1. PICK r \in s \ {x} : \A q \in s \ {x} : G[q] <= G[r]
      BY <2>1, <2>4
    <3>2. CASE G[r] <= G[x]
      <4>1. \A q \in s : G[q] <= G[x]
        BY <3>1, <3>2
      <4> QED
        BY <4>1
    <3>3. CASE ~(G[r] <= G[x])
      <4>1. \A q \in s : G[q] <= G[r]
        BY <3>1, <3>3
      <4> QED
        BY <3>1, <4>1
    <3> QED
      BY <3>2, <3>3
  <2> QED
    BY <2>3, <2>4
<1>2. Top(S)
  BY <1>1
<1> QED
  BY <1>2 DEF Newest

LEMMA SpendTyped ==
  ASSUME NEW M \in SUBSET Pairs, IsFiniteSet(M), Separate(M),
         NEW a \in Nat, NEW c \in Nat, NEW b \in Nat
  PROVE  Spend(b, a, c, M) \in Nat
<1>1. CASE a <= c
  <2>1. Cardinality(Free(M, a, c)) \in Nat
    BY DaysFinite
  <2>2. Spend(b, a, c, M) = Later(0, b - Cardinality(Free(M, a, c)))
    BY <1>1, SpendFree
  <2> QED
    BY <2>1, <2>2 DEF Later
<1>2. CASE ~(a <= c)
  <2>1. c <= a
    BY <1>2
  <2>2. Covered(a, c, M) = 0
    BY <2>1, Zenon DEF Covered
  <2> QED
    BY <2>1, <2>2 DEF Spend, Later
<1> QED
  BY <1>1, <1>2

Banks == [left: Nat, at: Nat]
Empty == [left |-> 0, at |-> Null]

GrantsBy(G, now) == {r \in DOMAIN G : G[r] <= now}

\* The bank takes the rewards one after the other.
BankFold(f, T, G, M, now) ==
  /\ ReferralExpiry(G, M, now) =
       IF f[T].at = Null THEN Null
       ELSE Project(now, Spend(f[T].left, f[T].at, now, M), M)
  /\ f[{}] = Empty
  /\ \A s \in (SUBSET T) \ {{}} :
       f[s] = Granted(G[Newest(G, s)], f[s \ {Newest(G, s)}], M)

LEMMA BankUnfolds ==
  ASSUME NEW M \in SUBSET Pairs, IsFiniteSet(M), Separate(M), NEW G,
         NEW now \in Nat,
         IsFiniteSet(GrantsBy(G, now)),
         \A r \in GrantsBy(G, now) : G[r] \in Nat
  PROVE  \E f : BankFold(f, GrantsBy(G, now), G, M, now)
<1> DEFINE T == GrantsBy(G, now)
           next == [s \in (SUBSET T) \ {{}} |-> Newest(G, s)]
           g == [p \in T \X Banks |-> Granted(G[p[1]], p[2], M)]
           Reads(f) == f = [s \in SUBSET T |->
             IF s = {} THEN [left |-> 0, at |-> Null]
             ELSE Granted(G[Newest(G, s)], f[s \ {Newest(G, s)}], M)]
           first == CHOOSE f : Reads(f)
<1>1. \A s \in (SUBSET T) \ {{}} :
        /\ Newest(G, s) \in s /\ Newest(G, s) \in T
        /\ s \ {Newest(G, s)} \in SUBSET T
  BY NewestFacts, FS_Subset
<1>2. \A r \in T, b \in Banks : Granted(G[r], b, M) \in Banks
  <2> TAKE r \in T, b \in Banks
  <2>1. b.left \in Nat /\ b.at \in Nat /\ G[r] \in Nat
    BY DEF Banks
  <2>2. Spend(b.left, b.at, G[r], M) \in Nat
    BY <2>1, SpendTyped
  <2> QED
    BY <2>1, <2>2, RewardAssumption DEF Granted, Banks
<1>3. Empty \in Banks
  BY DEF Empty, Banks, Null
<1>4. \A s \in (SUBSET T) \ {{}} : next[s] \in s /\ next[s] = Newest(G, s)
  BY <1>1
<1>5. \A r \in T, b \in Banks : g[<<r, b>>] = Granted(G[r], b, M)
  OBVIOUS
<1>6. g \in [T \X Banks -> Banks]
  BY <1>2
<1>7. Takes(next, T)
  BY <1>1, <1>4 DEF Takes
<1> HIDE DEF next, g
<1>8. \E f : FoldOf(f, T, Banks, Empty, next, g)
  BY <1>3, <1>6, <1>7, FoldExists
<1> PICK f : FoldOf(f, T, Banks, Empty, next, g)
  BY <1>8
<1>9. \A s \in (SUBSET T) \ {{}} :
        f[s] = Granted(G[Newest(G, s)], f[s \ {Newest(G, s)}], M)
  <2> TAKE s \in (SUBSET T) \ {{}}
  <2>1. f[s] = g[<<next[s], f[s \ {next[s]}]>>]
    BY DEF FoldOf
  <2>2. f[s \ {next[s]}] \in Banks
    BY <1>1, <1>4 DEF FoldOf
  <2> QED
    BY <1>1, <1>4, <1>5, <2>1, <2>2
<1>10. Reads(f)
  BY <1>9 DEF FoldOf, Empty
<1>11. Reads(first)
  <2> HIDE DEF Reads
  <2> QED
    BY <1>10
<1>12. ReferralExpiry(G, M, now) =
         IF first[T].at = Null THEN Null
         ELSE Project(now, Spend(first[T].left, first[T].at, now, M), M)
  BY DEF ReferralExpiry, MapThenFoldSet, GrantsBy
<1> HIDE DEF first, T
<1>13. /\ first[{}] = Empty
       /\ \A s \in (SUBSET T) \ {{}} :
            first[s] = Granted(G[Newest(G, s)],
                               first[s \ {Newest(G, s)}], M)
  BY <1>11 DEF Empty
<1> QED
  BY <1>12, <1>13 DEF BankFold, T

\* The bank of the rewards in s is the balance of the day it is of.
BankOf(b, s, G, M, now) ==
  /\ s = {} => b = Empty
  /\ s # {} =>
       /\ b.at \in 1 .. now
       /\ \E r \in s : G[r] = b.at
       /\ \A r \in s : G[r] <= b.at
       /\ \A L : Balances(L, s, G, M, now) => b.left = L[b.at]

LEMMA NothingLater ==
  ASSUME NEW s, NEW G, NEW a \in Nat, NEW c \in Nat, \A r \in s : G[r] <= a
  PROVE  \A d \in a + 1 .. c : GrantsOf(s, G, d) = {}
<1> SUFFICES ASSUME NEW d \in a + 1 .. c, NEW r \in s, G[r] = d
             PROVE  FALSE
  BY DEF GrantsOf
<1> QED
  OBVIOUS

LEMMA GrantedBanks ==
  ASSUME NEW M \in SUBSET Pairs, IsFiniteSet(M), Separate(M), NEW G,
         NEW now \in Nat, NEW s, IsFiniteSet(s), NEW x, x \notin s,
         G[x] \in 1 .. now, \A r \in s : G[r] <= G[x],
         NEW b, BankOf(b, s, G, M, now)
  PROVE  BankOf(Granted(G[x], b, M), s \cup {x}, G, M, now)
<1> DEFINE t == s \cup {x}
           c == G[x]
           more == Granted(c, b, M)
<1>1. /\ more.at = c
      /\ more.left = RewardDays + (IF b.at = Null THEN 0
                                   ELSE Spend(b.left, b.at, c, M))
  BY DEF Granted
<1> HIDE DEF more
<1>2. ASSUME NEW K, Balances(K, t, G, M, now)
      PROVE  more.left = K[c]
  <2>1. PICK L : Balances(L, s, G, M, now)
    BY BalancesExist
  <2>2. c \in 1 .. now /\ c \in Nat /\ c - 1 \in 0 .. now /\ c \in 0 .. now
    OBVIOUS
  <2>3. L[c - 1] = K[c - 1]
    <3>1. SameGrants(s, t, G, c - 1)
      BY <2>2 DEF GrantsOf, SameGrants
    <3> HIDE DEF c, t
    <3>2. \A d \in 0 .. c - 1 : L[d] = K[d]
      BY <1>2, <2>1, <2>2, <3>1, BalancesAgree
    <3> QED
      BY <2>2, <3>2
  <2> DEFINE n == Cardinality(GrantsOf(s, G, c))
             rest == Aged(M, c - 1, L[c - 1])
  <2>4. Cardinality(GrantsOf(t, G, c)) = n + 1 /\ n \in Nat
    <3>1. GrantsOf(t, G, c) = GrantsOf(s, G, c) \cup {x}
      BY DEF GrantsOf
    <3>2. IsFiniteSet(GrantsOf(s, G, c))
      BY GrantsFinite
    <3>3. x \notin GrantsOf(s, G, c)
      BY DEF GrantsOf
    <3> QED
      BY <3>1, <3>2, <3>3, FS_AddElement, FS_CardinalityType
  <2>5. K[c] = RewardDays * (n + 1) + rest /\ L[c] = RewardDays * n + rest
    <3> HIDE DEF c, t, n
    <3> QED
      BY <1>2, <2>1, <2>2, <2>3, <2>4 DEF Balances, n
  <2>6. rest \in Nat
    <3>1. L[c - 1] \in Nat
      BY <2>1, <2>2 DEF Balances
    <3> QED
      BY <3>1 DEF Aged
  <2> HIDE DEF n, rest
  <2>7. K[c] = L[c] + RewardDays
    <3>1. RewardDays * (n + 1) = RewardDays * n + RewardDays
      BY <2>4, RewardAssumption
    <3>2. RewardDays * n \in Nat
      BY <2>4, RewardAssumption
    <3> QED
      BY <2>5, <2>6, <3>1, <3>2, RewardAssumption
  <2>8. CASE s = {}
    <3>1. b.at = Null
      BY <2>8 DEF BankOf, Empty
    <3>2. \A d \in 0 + 1 .. c : GrantsOf(s, G, d) = {}
      BY <2>8 DEF GrantsOf
    <3>3. L[c] = Later(0, L[0] - Cardinality(Free(M, 0, c)))
      <4> HIDE DEF c
      <4> QED
        BY <2>1, <2>2, <3>2, BalanceSpent
    <3>4. L[0] = 0 /\ Cardinality(Free(M, 0, c)) \in Nat
      BY <2>1, <2>2, DaysFinite DEF Balances
    <3>5. L[c] = 0
      <4> HIDE DEF c
      <4> QED
        BY <3>3, <3>4 DEF Later
    <3> QED
      BY <1>1, <2>7, <3>1, <3>5, RewardAssumption
  <2>9. CASE s # {}
    <3> DEFINE a == b.at
    <3>1. /\ a \in 1 .. now /\ b.left = L[a]
          /\ (\E r \in s : G[r] = a) /\ \A r \in s : G[r] <= a
      BY <2>1, <2>9 DEF BankOf
    <3>2. a \in 0 .. now /\ a # Null /\ b.left \in Nat /\ a \in Nat
      BY <2>1, <3>1 DEF Balances, Null
    <3>3. a <= c
      BY <3>1
    <3> HIDE DEF a
    <3>4. \A d \in a + 1 .. c : GrantsOf(s, G, d) = {}
      BY <2>2, <3>1, <3>2, NothingLater
    <3>5. L[c] = Later(0, L[a] - Cardinality(Free(M, a, c)))
      <4>1. \A i \in 0 .. now : \A k \in i .. now :
              (\A d \in i + 1 .. k : GrantsOf(s, G, d) = {})
              => L[k] = Later(0, L[i] - Cardinality(Free(M, i, k)))
        BY <2>1, BalanceSpent
      <4>2. c \in a .. now
        BY <2>2, <3>2, <3>3
      <4> HIDE DEF c
      <4> QED
        BY <3>2, <3>4, <4>1, <4>2
    <3>6. Spend(b.left, a, c, M) = Later(0, b.left
                                            - Cardinality(Free(M, a, c)))
      BY <2>2, <3>2, <3>3, SpendFree
    <3> QED
      <4>1. Spend(b.left, a, c, M) \in Nat
        BY <2>2, <3>2, SpendTyped
      <4>2. L[c] = Spend(b.left, a, c, M)
        BY <3>1, <3>5, <3>6
      <4>3. more.left = RewardDays + Spend(b.left, a, c, M)
        BY <1>1, <3>2 DEF a
      <4> QED
        BY <2>7, <4>1, <4>2, <4>3, RewardAssumption
  <2> QED
    BY <2>8, <2>9
<1> QED
  BY <1>1, <1>2 DEF BankOf, more

\* _calculate_referral_expiry projects the balance of the day.
LEMMA BalanceProjected ==
  ASSUME NEW M \in SUBSET Pairs, IsFiniteSet(M), Separate(M), NEW G,
         IsFiniteSet(DOMAIN G), \A r \in DOMAIN G : G[r] \in Nat \ {0},
         NEW now \in Nat, NEW L, Balances(L, DOMAIN G, G, M, now)
  PROVE  ReferralExpiry(G, M, now) =
           IF L[now] = 0 THEN Null ELSE Project(now, L[now], M)
<1> DEFINE T == GrantsBy(G, now)
<1>1. IsFiniteSet(T) /\ \A r \in T : G[r] \in 1 .. now
  BY FS_Subset DEF GrantsBy
<1>2. Balances(L, T, G, M, now)
  <2>1. \A d \in 1 .. now : GrantsOf(T, G, d) = GrantsOf(DOMAIN G, G, d)
    BY DEF GrantsOf, GrantsBy
  <2> HIDE DEF T
  <2> QED
    BY <2>1 DEF Balances
<1>3. \E f : BankFold(f, T, G, M, now)
  <2>1. \A r \in T : G[r] \in Nat
    BY <1>1
  <2> QED
    BY <1>1, <2>1, BankUnfolds
<1> PICK f : BankFold(f, T, G, M, now)
  BY <1>3
<1> HIDE DEF T
<1> DEFINE Bad == {s \in SUBSET T : ~BankOf(f[s], s, G, M, now)}
<1>4. Bad = {}
  <2> SUFFICES ASSUME Bad # {} PROVE FALSE
    OBVIOUS
  <2>1. PICK s \in Bad : \A x \in s : s \ {x} \notin Bad
    BY <1>1, Smallest
  <2>2. s # {}
    BY <2>1 DEF BankOf, BankFold
  <2> DEFINE x    == Newest(G, s)
             rest == s \ {x}
  <2>3. /\ x \in s /\ x \in T /\ rest \in SUBSET T /\ rest \cup {x} = s
        /\ \A q \in s : G[q] <= G[x]
    <3>1. IsFiniteSet(s) /\ \A q \in s : G[q] \in Nat
      BY <1>1, FS_Subset
    <3> QED
      BY <2>2, <3>1, NewestFacts
  <2>4. f[s] = Granted(G[x], f[rest], M)
    BY <2>2 DEF BankFold
  <2>5. BankOf(f[rest], rest, G, M, now)
    BY <2>1, <2>3
  <2> HIDE DEF x
  <2>6. /\ IsFiniteSet(rest) /\ x \notin rest /\ G[x] \in 1 .. now
        /\ \A q \in rest : G[q] <= G[x]
    BY <1>1, <2>3, FS_Subset
  <2> HIDE DEF rest
  <2>7. BankOf(Granted(G[x], f[rest], M), rest \cup {x}, G, M, now)
    BY <2>5, <2>6, GrantedBanks
  <2> QED
    BY <2>3, <2>4, <2>7
<1> DEFINE bank == f[T]
<1>5. BankOf(bank, T, G, M, now)
  BY <1>4
<1>6. ReferralExpiry(G, M, now) =
        IF bank.at = Null THEN Null
        ELSE Project(now, Spend(bank.left, bank.at, now, M), M)
  BY DEF BankFold
<1> HIDE DEF bank
<1>7. L[now] \in Nat /\ now \in 0 .. now
  BY DEF Balances
<1>8. CASE T = {}
  <2>1. bank.at = Null
    BY <1>5, <1>8 DEF BankOf, Empty
  <2>2. \A d \in 0 + 1 .. now : GrantsOf(T, G, d) = {}
    BY <1>8 DEF GrantsOf
  <2>3. L[now] = Later(0, L[0] - Cardinality(Free(M, 0, now)))
    BY <1>2, <2>2, BalanceSpent
  <2>4. L[0] = 0 /\ Cardinality(Free(M, 0, now)) \in Nat
    BY DaysFinite DEF Balances
  <2>5. L[now] = 0
    BY <2>3, <2>4 DEF Later
  <2> QED
    BY <1>6, <2>1, <2>5
<1>9. CASE T # {}
  <2> DEFINE a == bank.at
  <2>1. /\ a \in 1 .. now /\ bank.left = L[a]
        /\ \A r \in T : G[r] <= a
    BY <1>2, <1>5, <1>9 DEF BankOf
  <2>2. a # Null /\ a \in Nat /\ a \in 0 .. now /\ bank.left \in Nat /\ a <= now
    BY <2>1 DEF Null, Balances
  <2> HIDE DEF a
  <2>3. \A d \in a + 1 .. now : GrantsOf(T, G, d) = {}
    BY <2>1, <2>2, NothingLater
  <2>4. L[now] = Later(0, L[a] - Cardinality(Free(M, a, now)))
    <3>1. now \in a .. now
      BY <2>2
    <3> QED
      BY <1>2, <2>2, <2>3, <3>1, BalanceSpent
  <2>5. Spend(bank.left, a, now, M) = L[now]
    BY <2>1, <2>2, <2>4, SpendFree
  <2>6. ReferralExpiry(G, M, now) = Project(now, L[now], M)
    BY <1>6, <2>2, <2>5 DEF a
  <2>7. L[now] = 0 => Project(now, L[now], M) = Null
    <3> SUFFICES ASSUME L[now] = 0 PROVE Project(now, L[now], M) = Null
      OBVIOUS
    <3>1. L[now] <= 0
      OBVIOUS
    <3> QED
      BY <3>1, Zenon DEF Project
  <2> QED
    BY <2>6, <2>7
<1> QED
  BY <1>8, <1>9

\* Whatever is left was granted.
LEMMA BalanceBounded ==
  ASSUME NEW s, IsFiniteSet(s), NEW G, NEW M, NEW n \in Nat,
         NEW L, Balances(L, s, G, M, n)
  PROVE  L[n] <= RewardDays * Cardinality(s)
<1> DEFINE Upto(d) == {r \in s : G[r] \in 1 .. d}
           Bad == {d \in 0 .. n : ~(L[d] <= RewardDays * Cardinality(Upto(d)))}
<1>1. \A d : IsFiniteSet(Upto(d)) /\ Cardinality(Upto(d)) \in Nat
             /\ Cardinality(Upto(d)) <= Cardinality(s)
  <2> TAKE d
  <2>1. Upto(d) \in SUBSET s
    OBVIOUS
  <2> HIDE DEF Upto
  <2> QED
    BY <2>1, FS_Subset, FS_CardinalityType
<1>2. Bad = {}
  <2> SUFFICES ASSUME Bad # {} PROVE FALSE
    OBVIOUS
  <2>1. PICK d \in Bad : d = 0 \/ d - 1 \notin Bad
    <3>1. Bad \in SUBSET Nat
      OBVIOUS
    <3> QED
      BY <3>1, FirstNumber
  <2> DEFINE now == GrantsOf(s, G, d)
             m == Cardinality(Upto(d - 1))
  <2>2. d # 0 /\ d \in 1 .. n /\ d - 1 \in 0 .. n
    <3>1. L[0] = 0 /\ Cardinality(Upto(0)) \in Nat
      BY <1>1 DEF Balances
    <3>2. RewardDays * Cardinality(Upto(0)) \in Nat
      BY <3>1, RewardAssumption
    <3> HIDE DEF Upto
    <3> QED
      BY <3>1, <3>2
  <2>3. Cardinality(Upto(d)) = Cardinality(now) + m
    <3>1. Upto(d) = now \cup Upto(d - 1) /\ now \cap Upto(d - 1) = {}
      BY <2>2 DEF GrantsOf
    <3>2. IsFiniteSet(now)
      BY GrantsFinite
    <3> HIDE DEF Upto, now
    <3> QED
      BY <1>1, <3>1, <3>2, DisjointSize
  <2>4. Cardinality(now) \in Nat /\ m \in Nat
    BY <1>1, GrantsFinite
  <2>5. L[d - 1] <= RewardDays * m
    BY <2>1, <2>2
  <2>6. L[d] <= RewardDays * Cardinality(now) + L[d - 1] /\ L[d - 1] \in Nat
        /\ L[d] \in Nat
    <3>1. L[d - 1] \in Nat /\ L[d] \in Nat
      BY <2>2 DEF Balances
    <3>2. L[d] = RewardDays * Cardinality(now) + Aged(M, d - 1, L[d - 1])
      BY <2>2 DEF Balances
    <3>3. RewardDays * Cardinality(now) \in Nat
      BY <2>4, RewardAssumption
    <3>4. Aged(M, d - 1, L[d - 1]) \in Nat
          /\ Aged(M, d - 1, L[d - 1]) <= L[d - 1]
      BY <3>1 DEF Aged
    <3> HIDE DEF now
    <3> QED
      BY <3>1, <3>2, <3>3, <3>4
  <2>7. RewardDays * (Cardinality(now) + m)
          = RewardDays * Cardinality(now) + RewardDays * m
    <3> HIDE DEF now, m
    <3> QED
      BY <2>4, RewardAssumption
  <2>8. RewardDays * Cardinality(now) \in Nat /\ RewardDays * m \in Nat
    <3> HIDE DEF now, m
    <3> QED
      BY <2>4, RewardAssumption
  <2>9. ~(L[d] <= RewardDays * Cardinality(Upto(d)))
    OBVIOUS
  <2> HIDE DEF now, m, Upto, Bad
  <2> QED
    BY <2>3, <2>5, <2>6, <2>7, <2>8, <2>9
<1>3. L[n] <= RewardDays * Cardinality(Upto(n)) /\ L[n] \in Nat
  <2>1. n \in 0 .. n /\ L[n] \in Nat
    BY DEF Balances
  <2>2. n \notin Bad
    BY <1>2
  <2> QED
    BY <2>1, <2>2
<1> DEFINE m == Cardinality(Upto(n))
           k == Cardinality(s)
<1>4. m \in Nat /\ k \in Nat /\ m <= k
  BY <1>1, FS_CardinalityType
<1> HIDE DEF m, k
<1>5. RewardDays * m <= RewardDays * k
  <2>1. RewardDays * k = RewardDays * m + RewardDays * (k - m)
    BY <1>4, RewardAssumption
  <2>2. RewardDays * (k - m) \in Nat /\ RewardDays * m \in Nat
    BY <1>4, RewardAssumption
  <2> QED
    BY <2>1, <2>2
<1>6. RewardDays * m \in Nat /\ RewardDays * k \in Nat
  BY <1>4, RewardAssumption
<1> QED
  BY <1>3, <1>5, <1>6 DEF m, k

LEMMA BalanceIsDaily ==
  ASSUME NEW R, NEW G, IsFiniteSet(DOMAIN G), NEW M, NEW now \in Nat,
         \A day \in Nat : CoversDay(M, day) <=> DayCovered(R, day)
  PROVE  \E L : /\ Balances(L, DOMAIN G, G, M, now)
                /\ BalanceByDay(R, G, now) = L[now]
<1> DEFINE Reads(f) == f = [day \in 0 .. now |->
             IF day = 0 THEN 0
             ELSE GrantedOn(G, day) +
                  (IF DayCovered(R, day - 1) \/ f[day - 1] = 0
                     THEN f[day - 1] ELSE f[day - 1] - 1)]
           left == CHOOSE f : Reads(f)
<1>1. PICK L : Balances(L, DOMAIN G, G, M, now)
  BY BalancesExist
<1>2. \A day : GrantedOn(G, day)
                 = RewardDays * Cardinality(GrantsOf(DOMAIN G, G, day))
  BY DEF GrantedOn, GrantsOf
<1>3. \A day \in 1 .. now : \A b :
        Aged(M, day - 1, b) = IF DayCovered(R, day - 1) \/ b = 0 THEN b
                              ELSE b - 1
  BY DEF Aged
<1>4. \A day \in 1 .. now :
        L[day] = GrantedOn(G, day) +
                   (IF DayCovered(R, day - 1) \/ L[day - 1] = 0
                      THEN L[day - 1] ELSE L[day - 1] - 1)
  BY <1>1, <1>2, <1>3 DEF Balances
<1>5. L[0] = 0 /\ L \in [0 .. now -> Nat]
  BY <1>1 DEF Balances
<1>6. Reads(L)
  BY <1>4, <1>5
<1>7. Reads(left)
  <2> HIDE DEF Reads
  <2> QED
    BY <1>6
<1>8. BalanceByDay(R, G, now) = left[now]
  BY DEF BalanceByDay
<1> HIDE DEF left
<1>9. /\ left[0] = 0 /\ DOMAIN left = 0 .. now
      /\ left = [day \in 0 .. now |-> left[day]]
      /\ \A day \in 1 .. now :
           left[day] = GrantedOn(G, day) +
                         (IF DayCovered(R, day - 1) \/ left[day - 1] = 0
                            THEN left[day - 1] ELSE left[day - 1] - 1)
  BY <1>7
<1>10. \A day \in 1 .. now :
         left[day] = RewardDays * Cardinality(GrantsOf(DOMAIN G, G, day))
                       + Aged(M, day - 1, left[day - 1])
  BY <1>2, <1>3, <1>9
<1>11. \A day \in 0 .. now : left[day] = L[day]
  <2> DEFINE Bad == {day \in 0 .. now : left[day] # L[day]}
  <2> SUFFICES ASSUME Bad # {} PROVE FALSE
    OBVIOUS
  <2>1. PICK d \in Bad : d = 0 \/ d - 1 \notin Bad
    <3>1. Bad \in SUBSET Nat
      OBVIOUS
    <3> QED
      BY <3>1, FirstNumber
  <2>2. d \in 1 .. now /\ d - 1 \in 0 .. now
    BY <1>5, <1>9
  <2>3. left[d - 1] = L[d - 1]
    BY <2>1, <2>2
  <2> QED
    BY <1>4, <1>9, <2>2, <2>3
<1> QED
  BY <1>1, <1>8, <1>11

\* What the periods of typed rows merge into.
LEMMA IntervalFacts ==
  ASSUME NEW R, IsFiniteSet(R), \A r \in R : Interval(r) \in Pairs
  PROVE  /\ AppleIntervals(R) \in SUBSET Pairs
         /\ IsFiniteSet(AppleIntervals(R))
         /\ Separate(AppleIntervals(R))
         /\ \A day \in Nat :
              CoversDay(AppleIntervals(R), day) <=> DayCovered(R, day)
<1> DEFINE All == {Interval(r) : r \in R}
           S == {i \in All : i[2] > i[1]}
<1>1. AppleIntervals(R) = Merged(S)
  BY DEF AppleIntervals, Merged
<1>2. S \in SUBSET Pairs /\ \A i \in S : i[1] < i[2]
  BY DEF Pairs
<1>3. IsFiniteSet(S)
  <2>1. IsFiniteSet(All)
    <3> DEFINE f == [r \in R |-> Interval(r)]
    <3>1. f \in Surjection(R, All)
      BY DEF Surjection
    <3> HIDE DEF f
    <3> QED
      BY <3>1, FS_Surjection
  <2>2. S \in SUBSET All
    OBVIOUS
  <2> HIDE DEF All, S
  <2> QED
    BY <2>1, <2>2, FS_Subset
<1>4. \A day \in Nat : CoversDay(S, day) <=> DayCovered(R, day)
  BY DEF CoversDay, DayCovered, Pairs
<1> HIDE DEF S
<1>5. MergeOf(Merged(S), S)
  BY <1>2, <1>3, MergeFacts
<1> QED
  BY <1>1, <1>4, <1>5 DEF MergeOf, Merges

\* There is one instant at which a balance expires, and it is the first one
\* with as many free days before it.
LEMMA ExpiresFirst ==
  ASSUME NEW M, NEW now \in Nat, NEW balance \in Nat,
         NEW e, Expires(e, now, balance, M),
         NEW d \in Nat, now <= d, Cardinality(Free(M, now, d)) = balance
  PROVE  e <= d
<1> SUFFICES ASSUME d < e PROVE FALSE
  BY DEF Expires
<1>1. e \in Nat /\ e - 1 \in Free(M, now, e)
  BY DEF Expires, Free
<1>2. Free(M, now, d) \in SUBSET (Free(M, now, e) \ {e - 1})
  BY <1>1 DEF Free
<1>3. IsFiniteSet(Free(M, now, e))
  BY <1>1, DaysFinite
<1>4. /\ IsFiniteSet(Free(M, now, e) \ {e - 1})
      /\ Cardinality(Free(M, now, e) \ {e - 1}) = balance - 1
  BY <1>1, <1>3, FS_RemoveElement DEF Expires
<1>5. Cardinality(Free(M, now, d)) <= balance - 1
  BY <1>2, <1>4, FS_Subset
<1> QED
  BY <1>5

LEMMA ExpiresMin ==
  ASSUME NEW M, NEW now \in Nat, NEW balance \in Nat,
         NEW e, Expires(e, now, balance, M),
         NEW horizon \in Nat, e <= horizon
  PROVE  e = Min({end \in now .. horizon :
                    Cardinality(Free(M, now, end)) = balance})
<1> DEFINE S == {end \in now .. horizon :
                   Cardinality(Free(M, now, end)) = balance}
<1>1. e \in S /\ e \in Nat
  BY DEF Expires
<1>2. \A d \in S : e <= d
  BY ExpiresFirst
<1>3. S \subseteq Nat
  OBVIOUS
<1> HIDE DEF S
<1>4. Min(S) \in S /\ \A d \in S : Min(S) <= d
  BY <1>1, <1>2 DEF Min
<1>5. Min(S) = e
  <2>1. Min(S) \in Nat
    BY <1>3, <1>4
  <2>2. e <= Min(S)
    BY <1>2, <1>4
  <2>3. Min(S) <= e
    BY <1>1, <1>4
  <2> QED
    BY <1>1, <2>1, <2>2, <2>3
<1> QED
  BY <1>5 DEF S

\* A balance does not last beyond the periods paid for by more than itself.
LEMMA ExpiresBounded ==
  ASSUME NEW M, NEW now \in Nat, NEW balance \in Nat,
         NEW e, Expires(e, now, balance, M),
         NEW far \in Nat, now <= far,
         \A day \in Nat : CoversDay(M, day) => day < far
  PROVE  e <= far + balance
<1> SUFFICES ASSUME e > far PROVE e <= far + balance
  BY DEF Expires
<1>1. e \in Nat /\ far <= e
  BY DEF Expires
<1>2. \A day \in far .. e - 1 : ~CoversDay(M, day)
  OBVIOUS
<1>3. Cardinality(Free(M, now, e)) = Cardinality(Free(M, now, far)) + (e - far)
  BY <1>1, <1>2, FreeAfter
<1>4. Cardinality(Free(M, now, far)) \in Nat
  BY DaysFinite
<1> QED
  BY <1>1, <1>3, <1>4 DEF Expires

\* What _calculate_referral_expiry answers.
Lasts(e, now, balance, M) ==
  IF balance = 0 THEN e = Null ELSE Expires(e, now, balance, M)

LEMMA ReferralLasts ==
  ASSUME NEW M \in SUBSET Pairs, IsFiniteSet(M), Separate(M), NEW G,
         IsFiniteSet(DOMAIN G), \A r \in DOMAIN G : G[r] \in Nat \ {0},
         NEW now \in Nat, NEW L, Balances(L, DOMAIN G, G, M, now)
  PROVE  L[now] \in Nat /\ Lasts(ReferralExpiry(G, M, now), now, L[now], M)
<1>1. L[now] \in Nat
  BY DEF Balances
<1>2. ReferralExpiry(G, M, now) =
        IF L[now] = 0 THEN Null ELSE Project(now, L[now], M)
  BY BalanceProjected
<1>3. L[now] # 0 => Expires(Project(now, L[now], M), now, L[now], M)
  <2> SUFFICES ASSUME L[now] # 0
               PROVE  Expires(Project(now, L[now], M), now, L[now], M)
    OBVIOUS
  <2>1. L[now] > 0
    BY <1>1
  <2> QED
    BY <1>1, <2>1, ProjectExpires
<1> QED
  BY <1>1, <1>2, <1>3 DEF Lasts

\* The computed expiry is the one of the day-by-day account.
LEMMA ReferralIsReference ==
  ASSUME NEW R, IsFiniteSet(R), \A r \in R : Interval(r) \in Pairs,
         NEW G, IsFiniteSet(DOMAIN G), \A r \in DOMAIN G : G[r] \in Nat \ {0},
         NEW now \in Nat, NEW far \in Nat, now <= far,
         \A r \in R : Interval(r)[2] <= far,
         NEW horizon \in Nat,
         far + RewardDays * Cardinality(DOMAIN G) <= horizon
  PROVE  ReferralExpiry(G, AppleIntervals(R), now)
           = ReferenceExpiry(R, G, now, horizon)
<1> DEFINE M == AppleIntervals(R)
           e == ReferralExpiry(G, M, now)
<1>1. /\ M \in SUBSET Pairs /\ IsFiniteSet(M) /\ Separate(M)
      /\ \A day \in Nat : CoversDay(M, day) <=> DayCovered(R, day)
  BY IntervalFacts
<1> HIDE DEF M
<1>2. PICK L : /\ Balances(L, DOMAIN G, G, M, now)
               /\ BalanceByDay(R, G, now) = L[now]
  BY <1>1, BalanceIsDaily
<1> DEFINE balance == L[now]
<1>3. balance \in Nat /\ Lasts(e, now, balance, M)
  BY <1>1, <1>2, ReferralLasts
<1>4. balance <= RewardDays * Cardinality(DOMAIN G)
  BY <1>2, BalanceBounded
<1>5. BalanceByDay(R, G, now) = balance
  BY <1>2
<1> HIDE DEF e, balance
<1>6. CASE balance = 0
  BY <1>3, <1>5, <1>6 DEF ReferenceExpiry, Lasts, e, M
<1>7. CASE balance # 0
  <2>1. Expires(e, now, balance, M)
    BY <1>3, <1>7 DEF Lasts
  <2>2. \A day \in Nat : CoversDay(M, day) => day < far
    BY <1>1 DEF DayCovered, Pairs
  <2>3. e <= far + balance
    BY <1>3, <2>1, <2>2, ExpiresBounded
  <2>4. e <= horizon
    <3>1. Cardinality(DOMAIN G) \in Nat
      BY FS_CardinalityType
    <3>2. RewardDays * Cardinality(DOMAIN G) \in Nat /\ e \in Nat
      BY <2>1, <3>1, RewardAssumption DEF Expires
    <3> QED
      BY <1>3, <1>4, <2>3, <3>2
  <2>5. e = Min({end \in now .. horizon :
                   Cardinality(Free(M, now, end)) = balance})
    BY <1>3, <2>1, <2>4, ExpiresMin
  <2>6. \A end \in now .. horizon :
          {day \in now .. end - 1 : ~DayCovered(R, day)} = Free(M, now, end)
    BY <1>1 DEF Free
  <2>7. {end \in now .. horizon :
           Cardinality({day \in now .. end - 1 : ~DayCovered(R, day)})
             = balance}
        = {end \in now .. horizon : Cardinality(Free(M, now, end)) = balance}
    BY <2>6
  <2>8. ReferenceExpiry(R, G, now, horizon) =
          Min({end \in now .. horizon :
             Cardinality({day \in now .. end - 1 : ~DayCovered(R, day)})
               = balance})
    BY <1>5, <1>7 DEF ReferenceExpiry
  <2> QED
    BY <2>5, <2>7, <2>8 DEF e, M
<1> QED
  BY <1>6, <1>7

-----------------------------------------------------------------------------
(***************************************************************************)
(* What a day changes.                                                     *)
(***************************************************************************)

LEMMA LastsMeans ==
  ASSUME NEW M, NEW now \in Nat, NEW balance \in Nat,
         NEW e, Lasts(e, now, balance, M)
  PROVE  /\ e \in Nat /\ (e = Null \/ e > now)
         /\ e # Null => e > now /\ e - 1 \in Nat /\ ~CoversDay(M, e - 1)
                        /\ Cardinality(Free(M, now, e)) = balance
         /\ balance = 0 <=> e = Null
BY DEF Lasts, Expires, Null

\* A day later the expiry is the same, unless it has come.
LEMMA LastsAges ==
  ASSUME NEW M, NEW now \in Nat, NEW balance \in Nat,
         NEW e, Lasts(e, now, balance, M),
         NEW f, Lasts(f, now + 1, Aged(M, now, balance), M)
  PROVE  f = IF e > now + 1 THEN e ELSE Null
<1> DEFINE later == now + 1
           left == Aged(M, now, balance)
<1>1. later \in Nat /\ left \in Nat
  BY DEF Aged
<1>2. /\ e \in Nat /\ (e = Null \/ e > now)
      /\ e # Null => e > now /\ e - 1 \in Nat /\ ~CoversDay(M, e - 1)
                     /\ Cardinality(Free(M, now, e)) = balance
      /\ balance = 0 <=> e = Null
  BY LastsMeans
<1>3. /\ f \in Nat /\ (f = Null \/ f > later)
      /\ f # Null => f > later /\ f - 1 \in Nat /\ ~CoversDay(M, f - 1)
                     /\ Cardinality(Free(M, later, f)) = left
      /\ left = 0 <=> f = Null
  BY <1>1, LastsMeans
<1>4. CASE balance = 0
  <2>1. left = 0
    BY <1>4 DEF Aged
  <2> QED
    BY <1>2, <1>3, <1>4, <2>1 DEF Null
<1>5. CASE balance # 0 /\ e > later
  <2>1. Cardinality(Free(M, later, e)) = left
    <3>1. CASE CoversDay(M, now)
      <4>1. Free(M, later, e) = Free(M, now, e)
        BY <1>2, <1>5, <3>1 DEF Free
      <4> QED
        BY <1>2, <1>5, <3>1, <4>1 DEF Aged, Null
    <3>2. CASE ~CoversDay(M, now)
      <4>1. Free(M, later, e) = Free(M, now, e) \ {now}
        BY <1>2, <1>5 DEF Free
      <4>2. now \in Free(M, now, e)
        BY <1>2, <1>5, <3>2 DEF Free
      <4>3. IsFiniteSet(Free(M, now, e))
        BY <1>2, DaysFinite
      <4>4. Cardinality(Free(M, later, e)) = balance - 1
        BY <1>2, <1>5, <4>1, <4>2, <4>3, FS_RemoveElement DEF Null
      <4> QED
        BY <1>5, <3>2, <4>4 DEF Aged
    <3> QED
      BY <3>1, <3>2
  <2>2. e - 1 \in Free(M, later, e)
    BY <1>2, <1>5 DEF Free, Null
  <2>3. left # 0
    <3>1. IsFiniteSet(Free(M, later, e))
      BY <1>1, <1>2, DaysFinite
    <3> QED
      BY <2>1, <2>2, <3>1, FS_EmptySet
  <2>4. Expires(e, later, left, M) /\ Expires(f, later, left, M)
    BY <1>1, <1>2, <1>3, <1>5, <2>1, <2>3 DEF Expires, Null
  <2> HIDE DEF later, left
  <2>5. e <= f /\ f <= e
    BY <1>1, <1>2, <1>3, <1>5, <2>1, <2>3, <2>4, ExpiresFirst
  <2> QED
    BY <1>2, <1>3, <1>5, <2>5 DEF later
<1>6. CASE balance # 0 /\ ~(e > later)
  <2>1. e = later /\ ~CoversDay(M, now)
    BY <1>2, <1>6
  <2>2. Free(M, now, e) = {now}
    BY <2>1 DEF Free
  <2>3. balance = 1
    BY <1>2, <1>6, <2>2, FS_Singleton
  <2>4. left = 0
    BY <2>1, <2>3 DEF Aged
  <2> QED
    BY <1>3, <1>6, <2>4
<1> QED
  BY <1>4, <1>5, <1>6

LEMMA ReferralAges ==
  ASSUME NEW M \in SUBSET Pairs, IsFiniteSet(M), Separate(M), NEW G,
         IsFiniteSet(DOMAIN G), \A r \in DOMAIN G : G[r] \in Nat \ {0},
         NEW now \in Nat, \A r \in DOMAIN G : G[r] <= now
  PROVE  /\ ReferralExpiry(G, M, now) \in Nat
         /\ ReferralExpiry(G, M, now) = Null \/ ReferralExpiry(G, M, now) > now
         /\ ReferralExpiry(G, M, now + 1) =
              IF ReferralExpiry(G, M, now) > now + 1
                THEN ReferralExpiry(G, M, now) ELSE Null
<1> DEFINE e == ReferralExpiry(G, M, now)
           f == ReferralExpiry(G, M, now + 1)
<1>1. now + 1 \in Nat
  OBVIOUS
<1>2. PICK K : Balances(K, DOMAIN G, G, M, now + 1)
  BY <1>1, BalancesExist
<1> DEFINE L == [d \in 0 .. now |-> K[d]]
<1>3. Balances(L, DOMAIN G, G, M, now) /\ L[now] = K[now]
  BY <1>2 DEF Balances
<1> HIDE DEF L
<1>4. L[now] \in Nat /\ Lasts(e, now, L[now], M)
  BY <1>3, ReferralLasts
<1>5. K[now + 1] \in Nat /\ Lasts(f, now + 1, K[now + 1], M)
  BY <1>1, <1>2, ReferralLasts
<1>6. K[now + 1] = Aged(M, now, K[now])
  <2>1. GrantsOf(DOMAIN G, G, now + 1) = {}
    BY DEF GrantsOf
  <2>2. Cardinality(GrantsOf(DOMAIN G, G, now + 1)) = 0
    BY <2>1, FS_EmptySet
  <2>3. now + 1 \in 1 .. now + 1 /\ now + 1 - 1 = now
    OBVIOUS
  <2>4. K[now + 1] = RewardDays * Cardinality(GrantsOf(DOMAIN G, G, now + 1))
                       + Aged(M, now, K[now])
    BY <1>2, <2>3 DEF Balances
  <2>5. Aged(M, now, K[now]) \in Nat
    BY <1>3, <1>4 DEF Aged
  <2> QED
    BY <2>2, <2>4, <2>5, RewardAssumption
<1> HIDE DEF e, f
<1>7. f = IF e > now + 1 THEN e ELSE Null
  BY <1>3, <1>4, <1>5, <1>6, LastsAges
<1>8. e \in Nat /\ (e = Null \/ e > now)
  BY <1>4, LastsMeans
<1> QED
  BY <1>7, <1>8 DEF e, f

Live(R, now) == {r \in R : r.revoked = Null /\ r.until > now}

\* The latest period that is neither revoked nor over.
LEMMA AppleExpiryFacts ==
  ASSUME NEW R, IsFiniteSet(R), \A r \in R : r.until \in Nat, NEW now \in Nat
  PROVE  /\ AppleExpiry(R, now) \in Nat
         /\ Live(R, now) = {} => AppleExpiry(R, now) = Null
         /\ Live(R, now) # {} =>
              /\ AppleExpiry(R, now) > now
              /\ \E r \in Live(R, now) : r.until = AppleExpiry(R, now)
              /\ \A r \in Live(R, now) : r.until <= AppleExpiry(R, now)
<1> DEFINE live == Live(R, now)
           ends == {r.until : r \in live}
<1>1. AppleExpiry(R, now) = IF live = {} THEN Null ELSE Max(ends)
  BY DEF AppleExpiry, Live
<1>2. live \in SUBSET R /\ \A r \in live : r.until \in Nat /\ r.until > now
  BY DEF Live
<1> HIDE DEF live
<1>3. CASE live = {}
  BY <1>1, <1>3 DEF Null, live
<1>4. CASE live # {}
  <2> DEFINE until == [r \in live |-> r.until]
             m == until[Newest(until, live)]
  <2>1. IsFiniteSet(live) /\ \A r \in live : until[r] \in Nat
    BY <1>2, FS_Subset
  <2> HIDE DEF until
  <2>2. /\ Newest(until, live) \in live
        /\ \A q \in live : until[q] <= until[Newest(until, live)]
    BY <1>4, <2>1, NewestFacts
  <2>3. m \in ends /\ \A x \in ends : x <= m
    BY <2>2 DEF until
  <2>4. ends \subseteq Nat
    BY <1>2
  <2> HIDE DEF m, ends
  <2>5. Max(ends) \in ends /\ \A x \in ends : Max(ends) >= x
    <3>1. \E x \in ends : \A y \in ends : x >= y
      BY <2>3, <2>4
    <3> QED
      BY <3>1 DEF Max
  <2>6. AppleExpiry(R, now) \in ends
        /\ \A x \in ends : x <= AppleExpiry(R, now)
    BY <1>1, <1>4, <2>4, <2>5
  <2> QED
    BY <1>2, <1>4, <2>6 DEF ends, live
<1> QED
  BY <1>3, <1>4

LEMMA AppleAges ==
  ASSUME NEW R, IsFiniteSet(R), \A r \in R : r.until \in Nat, NEW now \in Nat
  PROVE  AppleExpiry(R, now + 1) =
           IF AppleExpiry(R, now) > now + 1 THEN AppleExpiry(R, now) ELSE Null
<1> DEFINE a == AppleExpiry(R, now)
           b == AppleExpiry(R, now + 1)
<1>1. /\ a \in Nat
      /\ Live(R, now) = {} => a = Null
      /\ Live(R, now) # {} =>
           /\ a > now
           /\ \E r \in Live(R, now) : r.until = a
           /\ \A r \in Live(R, now) : r.until <= a
  BY AppleExpiryFacts
<1>2. now + 1 \in Nat
  OBVIOUS
<1>3. /\ b \in Nat
      /\ Live(R, now + 1) = {} => b = Null
      /\ Live(R, now + 1) # {} =>
           /\ \E r \in Live(R, now + 1) : r.until = b
           /\ \A r \in Live(R, now + 1) : r.until <= b
  BY <1>2, AppleExpiryFacts
<1>4. /\ Live(R, now + 1) \subseteq Live(R, now)
      /\ \A r \in Live(R, now) : r.until > now + 1 => r \in Live(R, now + 1)
      /\ \A r \in Live(R, now + 1) : r.until > now + 1 /\ r.until \in Nat
  BY DEF Live
<1> HIDE DEF a, b
<1>5. CASE a > now + 1
  <2>1. PICK r \in Live(R, now) : r.until = a
    BY <1>1, <1>5 DEF Null
  <2>2. r \in Live(R, now + 1)
    BY <1>4, <1>5, <2>1
  <2>3. a <= b
    BY <1>3, <2>1, <2>2
  <2>4. b <= a
    BY <1>1, <1>3, <1>4, <2>2
  <2> QED
    BY <1>1, <1>3, <1>5, <2>3, <2>4 DEF a, b
<1>6. CASE ~(a > now + 1)
  <2>1. Live(R, now + 1) = {}
    <3> SUFFICES ASSUME NEW r \in Live(R, now + 1) PROVE FALSE
      OBVIOUS
    <3>1. r.until <= a /\ r.until > now + 1 /\ r.until \in Nat
      BY <1>1, <1>4
    <3> QED
      BY <1>1, <1>6, <3>1
  <2> QED
    BY <1>3, <1>6, <2>1 DEF a, b
<1> QED
  BY <1>5, <1>6

TypedPlus(R, G, now) ==
  /\ IsFiniteSet(R)
  /\ \A r \in R : Interval(r) \in Pairs /\ r.until \in Nat
  /\ IsFiniteSet(DOMAIN G)
  /\ \A r \in DOMAIN G : G[r] \in Nat \ {0} /\ G[r] <= now

\* An entitlement ends after now; a day later it is the same, or over.
LEMMA EntitlementAges ==
  ASSUME NEW R, NEW G, NEW now \in Nat, TypedPlus(R, G, now)
  PROVE  /\ Entitlement(R, G, now).expires \in Nat
         /\ Entitlement(R, G, now).expires = Null
              \/ Entitlement(R, G, now).expires > now
         /\ Entitlement(R, G, now + 1).expires =
              IF Entitlement(R, G, now).expires > now + 1
                THEN Entitlement(R, G, now).expires ELSE Null
<1> DEFINE M == AppleIntervals(R)
           a == AppleExpiry(R, now)
           b == AppleExpiry(R, now + 1)
           e == ReferralExpiry(G, M, now)
           f == ReferralExpiry(G, M, now + 1)
<1>1. M \in SUBSET Pairs /\ IsFiniteSet(M) /\ Separate(M)
  BY IntervalFacts DEF TypedPlus
<1>2. Entitlement(R, G, now).expires = Later(a, e)
      /\ Entitlement(R, G, now + 1).expires = Later(b, f)
  BY DEF Entitlement
<1> HIDE DEF M
<1>3. e \in Nat /\ (e = Null \/ e > now)
      /\ f = IF e > now + 1 THEN e ELSE Null
  BY <1>1, ReferralAges DEF TypedPlus
<1>4. a \in Nat /\ (a = Null \/ a > now)
  BY AppleExpiryFacts DEF TypedPlus
<1>5. b = IF a > now + 1 THEN a ELSE Null
  BY AppleAges DEF TypedPlus
<1> HIDE DEF a, b, e, f
<1>6. Later(a, e) \in Nat /\ (Later(a, e) = Null \/ Later(a, e) > now)
  BY <1>3, <1>4 DEF Later, Null
<1>7. Later(b, f) = IF Later(a, e) > now + 1 THEN Later(a, e) ELSE Null
  BY <1>3, <1>4, <1>5 DEF Later, Null
<1> QED
  BY <1>2, <1>6, <1>7

-----------------------------------------------------------------------------
(***************************************************************************)
(* The entitlement of an account.                                          *)
(***************************************************************************)

\* The subscription and the rewards of an account are as the lemmas about
\* entitlements want them.
LEMMA OwnedTyped ==
  ASSUME NEW saved \in [Tx -> Row], NEW owner
  PROVE  /\ IsFiniteSet(Owned(saved, owner))
         /\ \A r \in Owned(saved, owner) :
              /\ Interval(r) \in Pairs /\ r.until \in Nat
              /\ Interval(r)[2] <= MaxTime + Period
<1> DEFINE all == {saved[t] : t \in Tx}
           own == Owned(saved, owner)
<1>1. IsFiniteSet(all)
  <2>1. saved \in Surjection(Tx, all)
    BY DEF Surjection
  <2> HIDE DEF all
  <2> QED
    BY <2>1, TransactionsAssumption, FS_Surjection
<1>2. own \in SUBSET all
  BY DEF Owned
<1>3. \A r \in all : r \in Row
  OBVIOUS
<1> HIDE DEF all, own
<1>4. IsFiniteSet(own)
  BY <1>1, <1>2, FS_Subset
<1>5. \A r \in Row : /\ Interval(r) \in Pairs /\ r.until \in Nat
                     /\ Interval(r)[2] <= MaxTime + Period
  BY AccountConstants DEF Row, Times, Interval, Pairs, Earlier
<1> QED
  BY <1>2, <1>3, <1>4, <1>5 DEF own

LEMMA GrantTimesTyped ==
  ASSUME NEW rewards \in [Rewards -> Times]
  PROVE  /\ IsFiniteSet(DOMAIN GrantTimes(rewards))
         /\ Cardinality(DOMAIN GrantTimes(rewards)) <= Cardinality(Rewards)
         /\ Cardinality(Rewards) \in Nat
         /\ \A r \in DOMAIN GrantTimes(rewards) :
              /\ r \in Rewards /\ GrantTimes(rewards)[r] = rewards[r]
              /\ rewards[r] \in Nat \ {0}
<1>1. IsFiniteSet(Rewards)
  BY TransactionsAssumption, FS_AddElement DEF Rewards
<1>2. DOMAIN GrantTimes(rewards) \in SUBSET Rewards
  BY DEF GrantTimes
<1>3. \A r \in DOMAIN GrantTimes(rewards) :
        /\ r \in Rewards /\ GrantTimes(rewards)[r] = rewards[r]
        /\ rewards[r] \in Nat \ {0}
  BY DEF GrantTimes, Times, NoTime
<1> QED
  BY <1>1, <1>2, <1>3, FS_Subset, FS_CardinalityType

\* No reward is of a later time than the clock.
GrantedByNow == \A r \in Rewards : granted[r] <= clock

\* The stored entitlement is right for what the account owns.
StoredRight(kept, saved, owner, rewards, now) ==
  /\ kept.expires \in Nat
  /\ (IF kept.expires > now THEN kept.expires ELSE Null)
       = Entitlement(Owned(saved, owner), GrantTimes(rewards), now).expires

PlusInv == GrantedByNow /\ StoredRight(stored, rows, holder, granted, clock)

LEMMA PlusTyped ==
  ASSUME NEW saved \in [Tx -> Row], NEW owner,
         NEW rewards \in [Rewards -> Times], NEW now \in Nat,
         \A r \in Rewards : rewards[r] <= now
  PROVE  TypedPlus(Owned(saved, owner), GrantTimes(rewards), now)
BY OwnedTyped, GrantTimesTyped DEF TypedPlus

LEMMA ReconciledRight ==
  ASSUME NEW saved \in [Tx -> Row], NEW owner,
         NEW rewards \in [Rewards -> Times], clock \in Nat,
         \A r \in Rewards : rewards[r] <= clock
  PROVE  StoredRight(Reconciled(saved, owner, rewards), saved, owner, rewards,
                     clock)
<1> DEFINE all == Entitlement(Owned(saved, owner), GrantTimes(rewards), clock)
           kept == Reconciled(saved, owner, rewards)
<1>1. all.expires \in Nat /\ (all.expires = Null \/ all.expires > clock)
  BY PlusTyped, EntitlementAges
<1>2. kept = IF all.expires = Null THEN NoEntitlement ELSE all
  BY DEF Reconciled
<1>3. NoEntitlement.expires = Null
  BY DEF NoEntitlement
<1> HIDE DEF all, kept
<1>4. /\ kept.expires \in Nat
      /\ (IF kept.expires > clock THEN kept.expires ELSE Null) = all.expires
  BY <1>1, <1>2, <1>3 DEF Null
<1> QED
  BY <1>4 DEF StoredRight, all, kept

LEMMA NothingRight ==
  ASSUME NEW saved, NEW owner, NEW rewards, NEW now \in Nat,
         Owned(saved, owner) = {}, DOMAIN GrantTimes(rewards) = {}
  PROVE  StoredRight(NoEntitlement, saved, owner, rewards, now)
<1> DEFINE G == GrantTimes(rewards)
           M == AppleIntervals({})
<1>1. AppleExpiry({}, now) = Null
  <2>1. {r \in {} : r.revoked = Null /\ r.until > now} = {}
    OBVIOUS
  <2> QED
    BY <2>1, Zenon DEF AppleExpiry
<1>2. ReferralExpiry(G, M, now) = Null
  <2>1. IsFiniteSet({}) /\ M \in SUBSET Pairs /\ IsFiniteSet(M) /\ Separate(M)
    BY FS_EmptySet, IntervalFacts
  <2>2. IsFiniteSet(DOMAIN G)
    BY <2>1
  <2> HIDE DEF M
  <2>3. PICK L : Balances(L, DOMAIN G, G, M, now)
    BY <2>2, BalancesExist
  <2>4. L[now] <= RewardDays * Cardinality(DOMAIN G)
    BY <2>2, <2>3, BalanceBounded
  <2>5. RewardDays * Cardinality(DOMAIN G) = 0
    BY FS_EmptySet, RewardAssumption
  <2>6. L[now] \in Nat /\ Lasts(ReferralExpiry(G, M, now), now, L[now], M)
    BY <2>1, <2>2, <2>3, ReferralLasts
  <2> QED
    BY <2>4, <2>5, <2>6 DEF Lasts
<1>3. Entitlement(Owned(saved, owner), G, now).expires = Null
  BY <1>1, <1>2 DEF Entitlement, Later, Null
<1> QED
  BY <1>3 DEF StoredRight, NoEntitlement, Null

LEMMA PlusStarts == AccountInit => PlusInv
<1> SUFFICES ASSUME AccountInit PROVE PlusInv
  OBVIOUS
<1>1. GrantedByNow
  BY DEF AccountInit, GrantedByNow, NoTime
<1>2. Owned(rows, holder) = {} /\ DOMAIN GrantTimes(granted) = {}
  BY DEF AccountInit, Owned, GrantTimes, NoRow
<1>3. StoredRight(stored, rows, holder, granted, clock)
  BY <1>2, NothingRight DEF AccountInit
<1> QED
  BY <1>1, <1>3 DEF PlusInv

\* What a step leaves behind is right if it reconciles, or leaves what is
\* right alone.
LEMMA RightSteps ==
  ASSUME AccountInv, AccountInv', PlusInv, clock' = clock, GrantedByNow',
         \/ stored' = Reconciled(rows', holder', granted')
         \/ /\ stored' = stored /\ granted' = granted
            /\ Owned(rows', holder') = Owned(rows, holder)
  PROVE  PlusInv'
<1> DEFINE saved == rows'
           rewards == granted'
           owner == holder'
<1>1. /\ saved \in [Tx -> Row] /\ rewards \in [Rewards -> Times]
      /\ clock \in Nat /\ \A r \in Rewards : rewards[r] <= clock
  BY DEF AccountInv, AccountTables, GrantedByNow
<1>2. StoredRight(Reconciled(saved, owner, rewards), saved, owner, rewards,
                  clock)
  <2> HIDE DEF saved, owner, rewards
  <2> QED
    BY <1>1, ReconciledRight
<1>3. StoredRight(stored', rows', holder', granted', clock')
  <2>1. CASE stored' = Reconciled(rows', holder', granted')
    BY <1>2, <2>1
  <2>2. CASE /\ stored' = stored /\ granted' = granted
             /\ Owned(rows', holder') = Owned(rows, holder)
    BY <2>2 DEF PlusInv, StoredRight
  <2> QED
    BY <2>1, <2>2
<1> QED
  BY <1>3 DEF PlusInv

LEMMA PlusKept ==
  ASSUME AccountInv, AccountInv', PlusInv, AccountNext
  PROVE  PlusInv'
<1>1. clock \in Nat /\ granted \in [Rewards -> Times]
  BY DEF AccountInv, AccountTables
<1>2. ASSUME clock' = clock, granted' = granted PROVE GrantedByNow'
  BY <1>2 DEF PlusInv, GrantedByNow
<1>3. ASSUME NEW t \in Tx, Save(t) PROVE PlusInv'
  <2>1. PICK new, recorded : SaveAs(t, new, recorded)
    BY <1>3 DEF Save
  <2>2. clock' = clock /\ granted' = granted /\ holder' = holder
        /\ rows' = [rows EXCEPT ![t] = new]
    BY <2>1 DEF SaveAs
  <2>3. CASE holder = "account"
    <3>1. stored' = Reconciled(rows', holder', granted')
      BY <2>1, <2>2, <2>3 DEF SaveAs
    <3> QED
      BY <1>2, <2>2, <3>1, RightSteps
  <2>4. CASE holder # "account"
    <3>1. stored' = stored
      BY <2>1, <2>4 DEF SaveAs
    <3>2. Owned(rows', holder') = Owned(rows, holder)
      BY <2>2, <2>4 DEF Owned
    <3> QED
      BY <1>2, <2>2, <3>1, <3>2, RightSteps
  <2> QED
    BY <2>3, <2>4
<1>4. ASSUME Claim PROVE PlusInv'
  <2>1. clock' = clock /\ granted' = granted
        /\ stored' = Reconciled(rows', holder', granted')
    BY <1>4 DEF Claim
  <2> QED
    BY <1>2, <2>1, RightSteps
<1>5. ASSUME NEW r \in Rewards, NEW at, at <= clock, Grant(r, at),
             clock' = clock, rows' = rows, holder' = holder
      PROVE  PlusInv'
  <2>1. stored' = Reconciled(rows', holder', granted')
    BY <1>5 DEF Grant
  <2>2. GrantedByNow'
    BY <1>1, <1>5 DEF Grant, GrantedByNow, PlusInv
  <2> QED
    BY <1>5, <2>1, <2>2, RightSteps
<1>6. ASSUME NEW r \in Referrals, ReferralReward(r) PROVE PlusInv'
  <2>1. PICK at \in {clock, clock - 1} \ {NoTime} : Grant(r, at)
    BY <1>6 DEF ReferralReward
  <2>2. at <= clock /\ r \in Rewards
    BY <1>1, <2>1 DEF Rewards
  <2> QED
    BY <1>5, <1>6, <2>1, <2>2 DEF ReferralReward
<1>7. ASSUME ApplyCode PROVE PlusInv'
  <2>1. clock' = clock /\ rows' = rows /\ holder' = holder
    BY <1>7 DEF ApplyCode
  <2>2. CASE Grant(Promo, clock)
    <3>1. Promo \in Rewards /\ clock <= clock
      BY <1>1 DEF Rewards
    <3> QED
      BY <1>5, <2>1, <2>2, <3>1
  <2>3. CASE granted' = granted /\ stored' = stored
    BY <1>2, <2>1, <2>3, RightSteps
  <2> QED
    BY <1>7, <2>2, <2>3 DEF ApplyCode
<1>8. ASSUME Delete PROVE PlusInv'
  <2>1. /\ clock' = clock /\ stored' = NoEntitlement /\ holder' = holder
        /\ granted' = [r \in Rewards |-> NoTime]
        /\ rows' = IF holder = "account" THEN [t \in Tx |-> NoRow] ELSE rows
    BY <1>8 DEF Delete
  <2>2. GrantedByNow'
    BY <1>1, <2>1 DEF GrantedByNow, NoTime
  <2>3. Owned(rows', holder') = {} /\ DOMAIN GrantTimes(granted') = {}
    BY <2>1 DEF Owned, GrantTimes, NoRow
  <2>4. StoredRight(NoEntitlement, rows', holder', granted', clock)
    BY <1>1, <2>3, NothingRight
  <2> QED
    BY <2>1, <2>2, <2>4 DEF PlusInv
<1>9. ASSUME Cleanup PROVE PlusInv'
  <2>1. /\ clock' = clock /\ stored' = NoEntitlement /\ holder' = holder
        /\ granted' = granted /\ rows' = rows /\ stored.expires <= clock
    BY <1>9 DEF Cleanup
  <2>2. Entitlement(Owned(rows, holder), GrantTimes(granted), clock).expires
          \in Nat
    BY <1>1, PlusTyped, EntitlementAges
       DEF AccountInv, AccountTables, PlusInv, GrantedByNow
  <2> QED
    BY <1>1, <1>2, <2>1 DEF PlusInv, StoredRight, NoEntitlement, Null
<1>10. ASSUME Tick PROVE PlusInv'
  <2>1. /\ clock' = clock + 1 /\ stored' = stored /\ holder' = holder
        /\ granted' = granted /\ rows' = rows
    BY <1>10 DEF Tick
  <2>2. GrantedByNow'
    BY <1>1, <2>1 DEF PlusInv, GrantedByNow, Times
  <2> DEFINE R == Owned(rows, holder)
             G == GrantTimes(granted)
             was == Entitlement(R, G, clock).expires
             is == Entitlement(R, G, clock + 1).expires
  <2>3. TypedPlus(R, G, clock)
    BY <1>1, PlusTyped DEF AccountInv, AccountTables, PlusInv, GrantedByNow
  <2>4. was \in Nat /\ is = IF was > clock + 1 THEN was ELSE Null
    <3> HIDE DEF R, G
    <3> QED
      BY <1>1, <2>3, EntitlementAges
  <2>5. (IF stored.expires > clock THEN stored.expires ELSE Null) = was
    BY DEF PlusInv, StoredRight
  <2>8. stored.expires \in Nat
    BY DEF PlusInv, StoredRight
  <2> HIDE DEF was, is
  <2>6. (IF stored.expires > clock + 1 THEN stored.expires ELSE Null) = is
    BY <1>1, <2>4, <2>5, <2>8 DEF Null
  <2>7. StoredRight(stored', rows', holder', granted', clock')
    BY <2>1, <2>6, <2>8 DEF StoredRight, is
  <2> QED
    BY <2>2, <2>7 DEF PlusInv
<1> QED
  BY <1>3, <1>4, <1>6, <1>7, <1>8, <1>9, <1>10 DEF AccountNext

LEMMA PlusInductive == AccountSpec => []PlusInv
<1>1. /\ AccountInv /\ AccountInv' /\ PlusInv /\ [AccountNext]_accountVars
      => PlusInv'
  <2> SUFFICES ASSUME AccountInv, AccountInv', PlusInv,
                      [AccountNext]_accountVars
               PROVE  PlusInv'
    OBVIOUS
  <2>1. CASE UNCHANGED accountVars
    BY <2>1 DEF accountVars, PlusInv, GrantedByNow, StoredRight
  <2> QED
    BY <2>1, PlusKept
<1> QED
  BY <1>1, PlusStarts, AccountInductive, PTL DEF AccountSpec

\* Merging the periods, spending the balance between the grants and projecting
\* it around the periods ahead (plus_entitlements.py:107-235) gives the expiry
\* of a day-by-day account, whatever was bought, revoked and granted.
THEOREM ExpiryByDay == AccountSpec => []ExpiryIsDayByDay
<1>1. AccountInv => ExpiryIsDayByDay
  <2> SUFFICES ASSUME AccountInv PROVE ExpiryIsDayByDay
    OBVIOUS
  <2> DEFINE R == Mine
             G == GrantTimes(granted)
             far == MaxTime + Period
  <2>1. /\ clock \in Nat /\ clock <= far /\ far \in Nat
    BY AccountConstants DEF AccountInv, AccountTables
  <2>2. /\ IsFiniteSet(R)
        /\ \A r \in R : Interval(r) \in Pairs /\ Interval(r)[2] <= far
    BY OwnedTyped DEF AccountInv, AccountTables, Mine
  <2>3. /\ IsFiniteSet(DOMAIN G)
        /\ Cardinality(DOMAIN G) <= Cardinality(Rewards)
        /\ Cardinality(Rewards) \in Nat
        /\ \A r \in DOMAIN G : G[r] \in Nat \ {0}
    BY GrantTimesTyped DEF AccountInv, AccountTables
  <2> HIDE DEF R, G
  <2>4. Horizon \in Nat /\ far + RewardDays * Cardinality(DOMAIN G) <= Horizon
    <3> DEFINE m == Cardinality(DOMAIN G)
               k == Cardinality(Rewards)
    <3>1. m \in Nat /\ k \in Nat /\ m <= k
      BY <2>3, FS_CardinalityType
    <3>2. Horizon = MaxTime + 2 * Period + RewardDays * k
      BY DEF Horizon
    <3> HIDE DEF m, k
    <3>3. RewardDays * k = RewardDays * m + RewardDays * (k - m)
      BY <3>1, RewardAssumption
    <3>4. /\ RewardDays * (k - m) \in Nat /\ RewardDays * m \in Nat
          /\ RewardDays * k \in Nat
      BY <3>1, RewardAssumption
    <3> QED
      BY <3>2, <3>3, <3>4, AccountConstants DEF m
  <2> HIDE DEF far
  <2>5. ReferralExpiry(G, AppleIntervals(R), clock)
          = ReferenceExpiry(R, G, clock, Horizon)
    BY <2>1, <2>2, <2>3, <2>4, ReferralIsReference
  <2> QED
    BY <2>5 DEF ExpiryIsDayByDay, R, G
<1> QED
  BY <1>1, AccountInductive, PTL

\* What a reconciliation stored is what a later one would compute, until it
\* ends, though nothing is written while time passes: get_active_plus_status
\* may answer from the row (main.py:1453).
THEOREM StoredIsRight == AccountSpec => []StoredStaysRight
<1>1. PlusInv => StoredStaysRight
  BY DEF PlusInv, StoredRight, StoredStaysRight, Mine
<1> QED
  BY <1>1, PlusInductive, PTL
=============================================================================
