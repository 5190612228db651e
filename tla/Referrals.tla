------------------------------ MODULE Referrals ------------------------------
(***************************************************************************)
(* Referrals and their rewards: codes applied at registration or within a  *)
(* day of it, batches of workers (cron, its retries after a timeout, the   *)
(* administrator) that turn pending referrals into rewards, the monthly    *)
(* limit of a referrer, and the deletion of referrers and referred users.  *)
(*                                                                         *)
(* A batch is one transaction: it locks the rows of the referrals it has   *)
(* taken, then the row of each referrer in turn, and holds both until it   *)
(* commits; NOW() is when it began, so its rewards may be dated in the     *)
(* month before.  A deletion locks the account and then, by its trigger    *)
(* and cascades, the account's referrals, in the opposite order.           *)
(***************************************************************************)
EXTENDS Naturals, FiniteSets

CONSTANTS Users,    \* ids, in the order in which batches lock accounts
          Invites,  \* pairs <<referred, referrer>>: codes the users know
          Leavers,  \* users that may become inactive or be deleted
          Newcomers,\* users that are not registered in the beginning
          Workers,  \* concurrent transactions
          Limit     \* REFERRAL_MONTHLY_REWARD_LIMIT

ASSUME ReferralsAssumption ==
  /\ Users \subseteq Nat /\ IsFiniteSet(Users)
  /\ Invites \subseteq Users \X Users
  /\ Leavers \subseteq Users /\ Newcomers \subseteq Users
  /\ Limit \in Nat \ {0}

VARIABLES user,     \* user[u]: the state of the account
          referral, \* referral[u]: the referral by which u was referred
          reward,   \* reward[u]: the month of its reward: 0 the current one,
                    \* 1 the previous one, 2 older, or None
          job       \* job[w]: the transaction of worker w

vars == <<user, referral, reward, job>>

None  == 3
Idle  == [kind |-> "idle"]
NoReferral == [status |-> "none"]

Referral ==
  [status: {"pending"}, referrer: Users, old: BOOLEAN]
  \cup [status: {"valid"}, referrer: Users, old: {TRUE}]
  \cup {NoReferral}

\* A batch: the referrals it holds, those it has still to look at, those it
\* has rewarded and the accounts it has locked.  A deletion: its account.
Job ==
  [kind: {"batch"}, month: {0, 1}, rows: SUBSET Users, todo: SUBSET Users,
   granted: SUBSET Users, accounts: SUBSET Users]
  \cup [kind: {"delete"}, accounts: SUBSET Users]
  \cup {Idle}

TypeOK ==
  /\ user \in [Users -> {"absent", "new", "verified", "inactive", "deleted"}]
  /\ referral \in [Users -> Referral]
  /\ reward \in [Users -> 0 .. None]
  /\ job \in [Workers -> Job]

Init ==
  /\ user = [u \in Users |-> IF u \in Newcomers THEN "absent" ELSE "verified"]
  /\ referral = [u \in Users |-> NoReferral]
  /\ reward = [u \in Users |-> None]
  /\ job = [w \in Workers |-> Idle]

Exists(u)   == user[u] \notin {"absent", "deleted"}
IsActive(u) == user[u] \in {"new", "verified"}

Batches == {w \in Workers : job[w].kind = "batch"}
Deletions == {w \in Workers : job[w].kind = "delete"}

\* Row locks of users and of referrals.
AccountFree(w, u) ==
  \A v \in Workers \ {w} : job[v] # Idle => u \notin job[v].accounts
RowFree(u) == \A v \in Batches : u \notin job[v].rows

-----------------------------------------------------------------------------
(***************************************************************************)
(* Users.                                                                  *)
(***************************************************************************)
Pending(referrer) ==
  [status |-> "pending", referrer |-> referrer, old |-> FALSE]

\* The INSERT of a referral waits for a transaction that has locked its
\* referrer (foreign key) and fails if the referrer is gone.
MayRefer(u, r) == <<u, r>> \in Invites /\ IsActive(r) /\ u # r

\* /auth/register and first sign-ins with a provider.
Register(u) ==
  /\ user[u] = "absent"
  /\ user' = [user EXCEPT ![u] = "new"]
  /\ \/ UNCHANGED referral
     \/ \E r \in Users :
          /\ MayRefer(u, r) /\ \A w \in Workers : AccountFree(w, r)
          /\ referral' = [referral EXCEPT ![u] = Pending(r)]
  /\ UNCHANGED <<reward, job>>

\* /user/referral-code, within a day of the registration: any user that was
\* not referred may still be in that window.
Apply(u) ==
  /\ Exists(u) /\ IsActive(u)
  /\ referral[u] = NoReferral
  /\ \E r \in Users :
       /\ MayRefer(u, r)
       /\ \A w \in Workers : AccountFree(w, r) /\ AccountFree(w, u)
       /\ referral' = [referral EXCEPT ![u] = Pending(r)]
  /\ UNCHANGED <<user, reward, job>>

Verify(u) ==
  /\ user[u] = "new"
  /\ \A w \in Workers : AccountFree(w, u)
  /\ user' = [user EXCEPT ![u] = "verified"]
  /\ UNCHANGED <<referral, reward, job>>

Deactivate(u) ==
  /\ u \in Leavers /\ IsActive(u)
  /\ \A w \in Workers : AccountFree(w, u)
  /\ user' = [user EXCEPT ![u] = "inactive"]
  /\ UNCHANGED <<referral, reward, job>>

\* The seven days of a pending referral pass.
Ripen(u) ==
  /\ referral[u].status = "pending" /\ ~referral[u].old
  /\ referral' = [referral EXCEPT ![u].old = TRUE]
  /\ UNCHANGED <<user, reward, job>>

\* A month of Europe/Rome ends.  A batch does not last a month.
NewMonth ==
  /\ \A w \in Batches : job[w].month = 0
  /\ reward' = [u \in Users |-> IF reward[u] \in {0, 1} THEN reward[u] + 1
                                ELSE reward[u]]
  /\ job' = [w \in Workers |-> IF w \in Batches
                                 THEN [job[w] EXCEPT !.month = 1]
                                 ELSE job[w]]
  /\ UNCHANGED <<user, referral>>

-----------------------------------------------------------------------------
(***************************************************************************)
(* process_pending_referrals                                               *)
(***************************************************************************)
Eligible ==
  {u \in Users : /\ referral[u].status = "pending" /\ referral[u].old
                 /\ user[u] = "verified"}

\* SELECT ... FOR UPDATE OF r SKIP LOCKED: a page of the eligible referrals
\* nobody holds.
TakePage(w, page) ==
  /\ job[w] = Idle
  /\ page # {} /\ page \subseteq Eligible /\ \A u \in page : RowFree(u)
  /\ job' = [job EXCEPT ![w] =
       [kind |-> "batch", month |-> 0, rows |-> page, todo |-> page,
        granted |-> {}, accounts |-> {}]]
  /\ UNCHANGED <<user, referral, reward>>

Take(w)    == \E page \in SUBSET Users : TakePage(w, page)
TakeAll(w) == TakePage(w, {u \in Eligible : RowFree(u)})

\* Mutated: the page is not sorted.
AnyItem(w, u) == u \in job[w].todo

\* The page is sorted by referrer.
NextItem(w, u) ==
  /\ u \in job[w].todo
  /\ \A v \in job[w].todo : referral[u].referrer <= referral[v].referrer

\* Mutated: rewards are counted without the lock on the referrer, so those
\* of open transactions are not seen and not waited for.
LockNothing(w, r) == TRUE

\* SELECT ... FROM users WHERE id = referrer FOR UPDATE
Lockable(w, r) == AccountFree(w, r)

\* Rewards of r dated in a month, those of the transaction itself included.
RewardsIn(r, month) ==
  {u \in Users : referral[u].status = "valid" /\ referral[u].referrer = r
                 /\ reward[u] = month}
GrantedTo(w, r) == {u \in job[w].granted : referral[u].referrer = r}

\* Mutated: the rewards of all months are counted.
WithinLimitEver(w, r) ==
  Cardinality({u \in Users : /\ referral[u].status = "valid"
                             /\ referral[u].referrer = r})
    + Cardinality(GrantedTo(w, r)) < Limit

WithinLimit(w, r) ==
  Cardinality(RewardsIn(r, job[w].month))
    + Cardinality(GrantedTo(w, r)) < Limit

\* process_pending_referral, which skips a referral whose referrer is not
\* verified or has reached the limit.
ProcessItem(w) ==
  \E u \in Users :
    LET r == referral[u].referrer
        granted == user[r] = "verified" /\ WithinLimit(w, r)
    IN /\ w \in Batches /\ NextItem(w, u)
       /\ Lockable(w, r)
       /\ job' = [job EXCEPT
            ![w].todo = @ \ {u}, ![w].accounts = @ \cup {r},
            ![w].granted = IF granted THEN @ \cup {u} ELSE @]
       /\ UNCHANGED <<user, referral, reward>>

\* An item fails and is rolled back to its savepoint.
FailItem(w) ==
  \E u \in Users :
    /\ w \in Batches /\ NextItem(w, u)
    /\ job' = [job EXCEPT ![w].todo = @ \ {u}]
    /\ UNCHANGED <<user, referral, reward>>

\* Mutated: the page is marked valid although some of it was skipped.
CommitWholePage(w) ==
  /\ w \in Batches /\ job[w].todo = {}
  /\ referral' = [u \in Users |-> IF u \in job[w].rows
       THEN [referral[u] EXCEPT !.status = "valid"] ELSE referral[u]]
  /\ reward' = [u \in Users |-> IF u \in job[w].granted
                                  THEN job[w].month ELSE reward[u]]
  /\ job' = [job EXCEPT ![w] = Idle]
  /\ UNCHANGED user

CommitBatch(w) ==
  /\ w \in Batches /\ job[w].todo = {}
  /\ referral' = [u \in Users |-> IF u \in job[w].granted
       THEN [referral[u] EXCEPT !.status = "valid"] ELSE referral[u]]
  /\ reward' = [u \in Users |-> IF u \in job[w].granted
                                  THEN job[w].month ELSE reward[u]]
  /\ job' = [job EXCEPT ![w] = Idle]
  /\ UNCHANGED user

-----------------------------------------------------------------------------
(***************************************************************************)
(* The deleting transaction of delete_current_account.                     *)
(***************************************************************************)
StartDelete(w, u) ==
  /\ job[w] = Idle
  /\ u \in Leavers /\ IsActive(u)
  /\ AccountFree(w, u)
  /\ job' = [job EXCEPT ![w] = [kind |-> "delete", accounts |-> {u}]]
  /\ UNCHANGED <<user, referral, reward>>

\* The referral of u, and those u is the referrer of.
Touched(u) ==
  {v \in Users : v = u \/ (referral[v] # NoReferral
                           /\ referral[v].referrer = u)}

\* preserve_valid_referral_history_on_user_delete keeps a valid one.
DeletedReferral(u) == IF referral[u].status = "valid" THEN {} ELSE {u}

\* The trigger, DELETE FROM users, and the cascades.
FinishDelete(w) ==
  \E u \in Users :
    LET gone == DeletedReferral(u) \cup (Touched(u) \ {u})
    IN /\ w \in Deletions /\ job[w].accounts = {u}
       /\ \A v \in Touched(u) : RowFree(v)
       /\ user' = [user EXCEPT ![u] = "deleted"]
       /\ referral' = [v \in Users |-> IF v \in gone THEN NoReferral
                                       ELSE referral[v]]
       /\ reward' = [v \in Users |-> IF v \in gone THEN None ELSE reward[v]]
       /\ job' = [job EXCEPT ![w] = Idle]

\* A transaction fails and is rolled back: an error, a lost connection.
Crash(w) ==
  /\ job[w] # Idle
  /\ job' = [job EXCEPT ![w] = Idle]
  /\ UNCHANGED <<user, referral, reward>>

-----------------------------------------------------------------------------
\* Who waits for whom: a batch for the account of its next item, a deletion
\* for the rows it touches.
WaitsFor(w, v) ==
  \/ /\ w \in Batches /\ job[v] # Idle
     /\ \A u \in Users :
          NextItem(w, u) => referral[u].referrer \in job[v].accounts
     /\ job[w].todo # {}
  \/ /\ w \in Deletions /\ v \in Batches
     /\ \E u \in job[w].accounts : Touched(u) \cap job[v].rows # {}

\* The detector of PostgreSQL ends a deadlock of a batch and a deletion: the
\* item fails, or the deletion.
BreakDeadlock ==
  \E w \in Batches, v \in Deletions :
    /\ WaitsFor(w, v) /\ WaitsFor(v, w)
    /\ FailItem(w) \/ Crash(v)

Work(w) == ProcessItem(w) \/ CommitBatch(w) \/ FinishDelete(w)

Next ==
  \/ \E u \in Users :
       \/ Register(u) \/ Apply(u) \/ Verify(u) \/ Deactivate(u) \/ Ripen(u)
       \/ \E w \in Workers : StartDelete(w, u)
  \/ NewMonth
  \/ \E w \in Workers : Take(w) \/ Work(w) \/ FailItem(w) \/ Crash(w)
  \/ BreakDeadlock

Spec == Init /\ [][Next]_vars

\* Cron keeps running, months pass and PostgreSQL serves the waiters of a
\* lock in turn.  In the end nothing fails but the victims of deadlocks, and
\* users no longer repeat deletions.
Calm(w) ==
  /\ FailItem(w) \/ Crash(w) => Work(w) \/ BreakDeadlock
  /\ \A u \in Users : ~StartDelete(w, u)

FairSpec ==
  /\ Spec
  /\ \A w \in Workers : SF_vars(TakeAll(w)) /\ SF_vars(Work(w))
  /\ WF_vars(NewMonth) /\ WF_vars(BreakDeadlock)
  /\ <>[][\A w \in Workers : Calm(w)]_vars

-----------------------------------------------------------------------------
(***************************************************************************)
(* Properties.                                                             *)
(***************************************************************************)

\* No referrer gets more than Limit rewards in a calendar month, whatever
\* batches run at once, across the turn of the month, and whoever among the
\* referred users deletes the account (test_34).
MonthlyLimit ==
  \A r \in Users, month \in {0, 1} :
    Cardinality(RewardsIn(r, month)) <= Limit

\* A referral is valid exactly if its reward was granted, though items of
\* one batch fail, are skipped or succeed (test_45, test_46).
ValidIsRewarded ==
  \A u \in Users : (referral[u].status = "valid") <=> (reward[u] # None)

\* A reward counts until its owner is deleted: deleting the referred account
\* neither takes it back nor makes room under the monthly limit (test_39).
RewardsKept ==
  [][\A u \in Users :
       reward[u] # None /\ reward'[u] = None
         => user'[referral[u].referrer] = "deleted"]_vars

\* Batches never wait for each other in a circle: they lock the referrers in
\* one order.
BatchesNeverDeadlock ==
  ~ \E w, v \in Batches : w # v /\ WaitsFor(w, v) /\ WaitsFor(v, w)

\* An old enough referral between two verified users is settled in the end:
\* neither the monthly limit, nor other batches that hold it, nor deadlocks
\* with deletions leave it pending for ever.  Stated of the users that
\* register; the others only were there before.
Rewardable(u) == u \in Eligible /\ user[referral[u].referrer] = "verified"

EligibleSettles == \A u \in Newcomers : Rewardable(u) ~> ~Rewardable(u)
=============================================================================
