# Formal models of the FuelNear backend

TLA+ models of the backend in `src/app` (a FastAPI service over PostgreSQL,
deployed with several cron scripts), model-checked with TLC and, for the parts
that carry money and ownership, proved with TLAPS.

## 1. The system

One process (or several: nothing is shared but the database) answers HTTP
requests in a thread pool. Every handler takes a connection from a bounded pool
(`db.py`), runs one or more transactions at READ COMMITTED and returns it. All
state lives in PostgreSQL. Apple sends App Store notifications, cron scripts
call admin endpoints, background threads run the price import and the
revocation queue.

| component | state | operations | hard because |
|---|---|---|---|
| Apple transaction ledger (`apple_subscriptions.py`) | `apple_transactions` | save a verified transaction, reduce adjustments | notifications and client payloads are repeated, late and reordered |
| Entitlement (`apple_subscription_service.py`, `apple_subscription_reconciler.py`, `apple_purchase_processor.py`, `plus_entitlements.py`) | `user_subscriptions` | active row, reconcile, project referral days | saved and reconciled in one transaction that may have to be refused |
| Guests (`guest_subscriptions.py`) | `guest_identities`, `guest_sessions` | session, claim, resolve a token | claims race verifications and notifications |
| Notifications (`apple_notification_processor.py`) | none of its own | resolve the owner, process | owner resolved in earlier transactions than the one that uses it |
| Verification of signatures (`apple_jws_verifier.py`, `apple_notification_verifier.py`) | none | verify, normalise | - |
| Accounts and sessions (`main.py`) | `users`, `user_sessions`, `email_verification_tokens`, ... | register, verify, resend, login, refresh, logout, delete | rotation of tokens, concurrent resends, deletion |
| Apple token revocation (`apple_auth_service.py`) | `apple_token_revocations` | queue, retry | HTTP call between transactions, two runners |
| Referrals (`main.py`) | `referrals`, `rewards` | register, qualify in batches | monthly limit, savepoints, concurrent batches |
| Creator attribution (`creator_attribution.py`) | campaigns, attributions, conversions | apply a code, record conversions and milestones | events arrive in any order and are repeated |
| Price import (`import_mimit.py`, `main.py`) | stations, prices, run records, advisory lock | lock, import, record | session lock on a pooled connection, replacement of the prices |
| National averages (`mimit_national_averages.py`) | snapshots | refresh, read | refreshes out of order |
| Price notifications (`main.py`) | notification records | claim, send, finalize, recover | workers that come back late |
| Connection pool (`db.py`) | pool, slots | first use, acquire, release | race on creation, slot given back once |
| Rate limits (`main.py`) | counters | check | window boundaries |

What is left out, and why, is in section 5.

## 2. Modules

| module | models | state and actions |
|---|---|---|
| `AppleEconomics` | the pure part of `apple_subscriptions.py` | operators `Reduce`, `SaveExisting`, `SaveNew`, `EconomicStatus`, `Entitled` ...; `AppleLedger` and `RewardedAccount` save with them |
| `AppleLedger` | one Apple transaction, its payloads and its row | `Save` is `_save_apple_transaction`; `Refund`, `ReverseRefund`, `Revoke`, `OpenGrace`, `Inform`, `DeviceFetch` are Apple and the device (external); `sent` keeps every payload, so a payload is delivered late, again, in another order or never |
| `OwnershipPromise` | abstract: who owns a subscription | `Record`, `Claim`, `Delete` |
| `SubscriptionOwnership` | accounts, guests, claims, verifications, deletion and notifications, one action per database transaction | `request[c]` and `delivery[t]` hold what a handler read in one transaction and uses in a later one |
| `OwnershipLocking` | the same transactions statement by statement with the locks they take | `txn[w]` is the open transaction of a connection, `held[w]` its locks; `Fail` ends any of them |
| `PlusEntitlement` | `plus_entitlements.py`: one entitlement from Apple rows and reward days | operators for the merged periods, the balance, its projection, and a day-by-day reference |
| `CreatorAttribution` | `creator_attribution.py`: an attribution and its conversion events | operators, one per call, on a `ledger` of both |
| `RewardedAccount` | one account with a subscription, referral rewards and a creator's promotion: composes the two modules above and `AppleEconomics` | `Save`, `Claim`, `ReferralReward`, `ApplyCode`, `Delete`, `Cleanup`, and `Tick`, during which nobody reconciles; one action per transaction |
| `Referrals` | referrals, the batches that reward them, the deletion of users | `job[w]` is the open transaction of a worker: a batch with the rows it holds, the items to do and the accounts it has locked, or a deletion; one action per item |
| `EmailVerification` | the codes of one e-mail address | `BeginResend`, `Invalidate`, `CommitResend` are the three instants of a resend's transaction (read, snapshot of its UPDATE, commit); `Verify`, `WrongAttempt`, `Register`, `ProviderSignIn`, `Deactivate`, `Delete` are one action each because they lock what they decide on |
| `AppleRevocation` | the queue of Apple refresh tokens to revoke | `batch[p]` is the transaction of a processor with the answers it got; `Take`, `Ask`, `CommitBatch`, `CrashBatch` |
| `AccountSessions` | sign-in, rotation, logout, deletion; fills the queue of `AppleRevocation`, which it extends | `request[w]` is a request between its steps: a refresh that holds its session, a sign-in after the exchange with Apple, a deletion between lookup, revocation and delete; `Crash` ends any of them |
| `MimitImport` | the price import, its lock, its run records and the averages refreshed under it | `phase[s]` is where a server is, `connected[s]` whether the session with the advisory lock lives, `draft`, `writer` the open transaction; `LoseConnection`, `Crash`, `Probe` (an administrator's check) |
| `PriceNotifications` | the price alerts of one user for one fuel | `record[r]` is the row of `sent_price_notifications` for run `r`; `worker[w]` is a run of `process_price_notifications_for_run`, one action per transaction: `Recover`, `ReadDevicesAndBest`, `ReadLast`, `Claim`, `Push`, `Deactivate`, `Finalize`; `Import` and `Administer` start workers, `Stop` ends one anywhere, `Age` lets a record become stale |
| `...Proofs` | - | theorems about `AppleLedger`, `SubscriptionOwnership`, `OwnershipLocking`, `PriceNotifications`, `EmailVerification`, `AccountSessions`, `MimitImport`; `RewardsProofs` is about `Referrals`, `RewardedAccount` and `PlusEntitlement` |
| `MC...` | instances for TLC | which transactions are of one subscription, who invites whom, the files MIMIT publishes, symmetry |

How the modules fit. `OwnershipLocking` justifies the atomic actions of
`SubscriptionOwnership` for saves, claims and deletions (both implement
`OwnershipPromise`, through `INSTANCE ... WITH` and a refinement mapping);
`SubscriptionOwnership` adds what happens between the transactions of one
request. It keeps of a row its owner and whether it is revoked, and lets a save
change the latter freely; `AppleLedger` says how. `RewardedAccount` takes those
rows further, to the entitlement and the creator's conversions: it saves any
message Apple may sign with the operators of `AppleEconomics`, records a
conversion after each save and, at a claim, one for everything that moves, in
the order of the purchases; its referral rewards arrive as `Referrals` grants
them, with the time at which the batch began. `EmailVerification` says how an account becomes verified, which
`AccountSessions` takes as one step; `AccountSessions` and `AppleRevocation`
share the tokens: a deletion puts them into the queue that processors empty.

Definitions whose comment begins with "Mutated:" are plausible mistakes in the
code next to which they stand. No specification uses them; putting one in the
place of its original makes the property named in `PROJECT.json` fail.

Abstractions worth knowing:

- Instants are small naturals, 0 is NULL. `revocation_date` is a Boolean in
  `AppleLedger` and an instant in `RewardedAccount`.
- The signed date of a notification and that of the transaction inside are
  taken to be equal.
- One notification per transaction is in flight at a time in
  `SubscriptionOwnership`; notifications of different transactions of one
  subscription do run concurrently.
- A handler that crashes between its transactions is one that never continues
  (its `request` or `delivery` stays as it is), a crash inside a transaction is
  a rollback (`Fail` in `OwnershipLocking`, `Crash` in the other modules).
- `is_active` of accounts, and what saves and claims do to creator attributions
  beyond locking them, are left out of the ownership modules.
- In `OwnershipLocking` the writes of a transaction appear at its commit, and
  the locks are exclusive.
- In `PriceNotifications` the best price nearby is any price at every read (the
  next import and the user's moves change it), so the devices and the best price
  are read in one step; the age of a record is whether it is `stale`; the
  reasons of a skip are one. `accepted` holds the alerts Apple has accepted
  with an answer the worker got: when the answer is lost the code takes the push
  for a temporary failure and repeats it, and nobody knows what the device
  showed. `FOR UPDATE SKIP LOCKED` is left out: a record locked by a claim or a
  finalize is about to leave the stale ones anyway.
- In `PlusEntitlement` the unit of time is a day; the seconds of the code only
  make the unit finer. The interval of grace is part of `until`; `AppleLedger`
  says how it gets there. The lists that the code sorts are sets here, and a
  loop over one is a fold that takes its elements in the order of the sort
  (equal periods make no difference to a merge).
- In `RewardedAccount` the two dates that decide a save, the watermark of the
  adjustment and `signed_date`, are the fixed instants 2 and 3 of a row; a message
  is signed at 1 to 4, so it is older than both, equal to either, between them
  or newer (`Dated`). This allows more than Apple does: any message may come at
  any time. The purchase date of a transaction does not change between messages;
  `until` includes the grace period; a message shows no revocation or one of the
  present day. Prices are there or not. Campaigns are open, and the events have
  the statuses unknown, confirmed and refunded, which also stands for revoked. A
  guest that keeps its subscription is not followed after the account is deleted.
- In `Referrals` months are "this", "the previous" and "older"; an item that is
  skipped and one that fails differ only in what they leave locked.
- In `EmailVerification` a row stands for a link token and its six-digit code,
  which the code invalidates and counts together.
- In `AccountSessions` one person has one account at a time; the expiry of a
  session is a refresh that does not happen (the code's UPDATE that revokes an
  expired session is rolled back by the exception raised after it), hashes are
  numbers, and encryption is abstract. A client presents any refresh token its
  session was ever given, in any number of requests; `answered[k]` counts the
  ones that presented token `k` and got a new one.
- In `MimitImport` a report is a key (station, fuel, service), its age, the rank of the
  fuel's name and a tie-break; parsing is abstract. A page of averages is its reference date and the
  start of the refresh that read it; `answers` keeps them all for the property.

## 3. Properties and runs

| run | bounds | states | properties |
|---|---|---|---|
| `apple_ledger` | 4 instants after 0, 4 payloads, two prices | 2.4 M | `RevokeDecides`, `RefundHolds`, `ReversalRestores`, `NewestContextWins`, `EvidenceWrittenOnce` |
| `apple_ledger_grace` | the same with 3 payloads, no prices | - | `GraceKept`, which fails (below) |
| `subscription_ownership` | 2 accounts, 1 guest, 2 renewals of one subscription, 2 clients, 2 notifications | 1.1 M | `SingleOwner`, `OwnerHoldsToken`, `AuthorisationsHold`, `Implements` |
| `ownership_settles` | 2 accounts, 1 guest, 2 subscriptions (one undated), 1 client, fairness | 119 k | `AccountsReconcile`, `ClaimedGuestIsEmpty`, `NotificationsSettle` |
| `ownership_locking` | 3 connections, 2 attributed accounts, 1 guest, 2 subscriptions with 3 transactions | 646 k | `SavesAndClaimsNeverDeadlock`, `Implements` |
| `price_notifications` | 2 workers, 2 imports, 1 device, 2 prices, 2 attempts | 4.7 M | `PushesBounded`, `AcceptedOnce`, `AlertsImprove`, `SentUnlessRecovered` |
| `price_alert_sent` | the same with 1 import | - | `SentStaysSent`, which fails (below) |
| `email_verification` | 2 concurrent resends, 4 codes, 2 attempts, 2 accounts one after the other | 2.0 M | `ResendInvalidates`, `GuessesBounded`, `NoOrphanCodes` |
| `account_sessions` | 2 requests, 2 processors, 2 tokens, 2 sessions with 3 refresh tokens each, 1 account, fairness | 442 k | `ExchangedOnce`, `NoOrphanSessions`, `TokensAccountedFor`, `QueueSparesAccounts`, `LogoutIsFinal`, `QueueSettles` |
| `referrals` | 4 users that refer each other, one of whom leaves, 2 transactions, limit 1, fairness | 145 k | `MonthlyLimit`, `ValidIsRewarded`, `BatchesNeverDeadlock`, `EligibleSettles` |
| `rewarded_account` | a purchase, a renewal, a referral reward, a promotion; 3 days, periods and rewards of 2 days, prices, refunds and reversals of the purchase | 143 k | `ExpiryIsDayByDay`, `StoredStaysRight`, `EventsFollowAttribution`, `PaidIsEarliest`, `PurchasesCounted` |
| `mimit_import` | 2 servers, 3 runs, 3 files, 2 dates, fairness | 153 k | `DatasetWhole`, `LatestAverages`, `RunsDecidedOnce`, `RunsEnd` |

Each property is stated with its comment at the end of its module. Two
are proved and not in a run: `CodesConsumed` of `EmailVerification` (a
verification uses up every code there is) and `RewardsKept` of `Referrals` (only
the deletion of the referrer takes a reward away). The type
invariants are not checked by a run of their own: where a proof module exists
they are proved for every instance.

Why the bounds are enough.

- Four payloads hold a refund, its reversal, a second refund and a revoke, in
  every order and at equal or different instants; deciding a step needs the
  row and one payload.
- Two renewals of one subscription are what siblings can conflict with; two
  accounts and one guest give every pair of owners; two requests and two
  notifications in flight give a claim, a deletion and two stale resolutions at
  once. A cycle of waits needs at least two transactions, three leave room for
  an indirect one.
- Two workers are one that is late and one that took over; two attempts are
  one that a recovery counts in advance and one that is the last; two imports
  and two prices give an improvement by the threshold, none, and a change for
  the worse between reads.
- Two resends that overlap leave two codes alive; the second account shows a code or a resend
  that outlives the first. The attempts of the code are five, the argument
  only counts them.
- Two requests give every race the code has to settle: two refreshes of one
  session with one token, a sign-in or a second deletion during a deletion; the third
  refresh token leaves two old ones to be presented again. TLC's instance has
  one account, because two exceed what can be explored in reasonable time;
  what a deletion leaves for the next account is covered by the proofs.
- Two users that refer each other make every deletion touch referrals that a
  batch holds; with a limit of one the second referral of a referrer must wait
  for the next month, also when two batches meet it at once.
- Rewards and periods of two days within three days overlap and touch in every
  way two intervals can; with one transaction more nothing new is compared,
  since `Join` sees two at a time. Three days are one before an attribution, its
  own and one after. The purchase and the renewal come with and without a price,
  before or after the attribution, for the guest or the account; the purchase
  (`Taken`) is also refunded and restored, and a revocation comes with its
  notification (`Silent`). Renewals that are taken back, revocations that only a
  client's message shows, and `revoke`, which counts as a refund, are left to the
  proofs, which hold without these bounds.
- Two servers and three runs: one that hangs or loses its session, one that
  takes over, and one more so that the first two must be settled. The files have
  rivals of every rank, in two orders, and one file too short.

Fairness. `SubscriptionOwnership`: weak fairness of each notification's own
steps, because Apple repeats a notification until it gets a success status and
the server answers each request; none of clients, sessions or deletions.
`AccountSessions`: weak fairness of the processors (the cron job and the thread
of every server start), of the retention of a row, and in the end no batch is
interrupted for ever; none of users. `Referrals`: strong fairness of taking
every eligible referral nobody holds and of a batch's steps (the cron job keeps
coming, and PostgreSQL serves the waiters of a lock in turn, but whether a
referral is free comes and goes), weak fairness of the months and of the
deadlock detector, and from some point on only victims of deadlocks fail and
users no longer start deletions; without this an endless sequence of failures
may keep a referral pending, as it may in the code. `MimitImport`: weak fairness of a
server's steps (its thread goes on unless it stops), strong fairness of starting
an update (the lock may come and go, the cron job calls again), and weak fairness
of ending an administrator's check.

The findings. `GraceKept` says what the tests
`test_expired_transaction_remains_active_during_grace_period`
(`src/tests/test_apple_subscription_reconciler.py:423`) and
`test_guest_subscription_remains_active_during_grace_period`
(`src/tests/test_guest_subscriptions.py:459`) say: an expired transaction stays
active during its grace period. TLC's counterexample: Apple opens a grace
period and its notification is saved; the device then fetches a signed
transaction with a newer date and verifies it; client payloads carry no grace
period (`src/app/main.py:7524`), the column is overwritten with NULL
(`src/app/apple_subscriptions.py:713`), and the entitlement is gone.

`SentStaysSent` says what `test_sent_record_is_never_recovered`
(`src/tests/test_price_notification_recovery.py:315`) asserts: a sent record stays
sent. `finalize_price_notification_record` updates `WHERE id` only
(`src/app/main.py:4456`). TLC's counterexample: a worker claims a record and
stays away until the record is stale; a second worker recovers and claims it,
pushes the alert and finalizes it as sent; the first one comes back with a
temporary failure and overwrites `sent` with `failed` and `sent_at` with NULL.
The price no longer counts as the last one sent, so a later run may alert the
user of it again. `SentUnlessRecovered` shows that this is the only way.

Behaviours the models show and no text of the repository judges:

- A reversal processed before its refund leaves `revocation_unknown`.
- A notification of a refund or a reversal that comes too late to be accepted
  may still bring the first price of its transaction. It is stored, but no
  conversion is recorded (`should_record_creator`,
  `src/app/apple_purchase_processor.py:59`): the event stays unknown until the
  next save, so `PurchasesCounted` speaks of refunds and not of prices.
- Deleting an account un-claims its guest, whose session is dead, and later
  notifications of the subscription are recorded for that guest.
- Two resends that overlap leave both new codes valid; a verification uses up
  both (`CodesConsumed`), and the wrong guesses both bear stay bounded
  (`GuessesBounded`).
- A refresh that finds a reused or expired session revokes it and raises inside
  the same transaction (`src/app/main.py:2394`): the client gets the error, the
  session stays as it was. `test_22` (`src/tests/test_auth_email_sessions.py:601`)
  asserts the error only.
- A token stored by a sign-in between the lookup and the delete of an account
  (`src/app/main.py:2932`) goes with its row, neither revoked nor queued.
  `TokensAccountedFor` is therefore about the token the deletion has read.
- A batch and a deletion lock referrals and accounts in opposite orders; the
  detector of PostgreSQL ends one of them, and `EligibleSettles` shows that the
  referral is still settled.

## 4. Proofs

Every theorem holds for all values of the constants that satisfy the
assumptions of the modules (the bounds are natural numbers, sets that name
different things are disjoint, `Nobody` is nobody). Three assumptions say more.
`FilesAssumption` of `MimitImport`: the last comparison of `_candidate_wins`
(`src/app/import_mimit.py:605-625`) is of the name and the price themselves, so two
reports that tie in it are equal. `EmailAssumption`: there is a resender, since
the bound of `GuessesBounded` counts the first one apart. `TransactionsAssumption`
of `CreatorAttribution`: events of different providers have different keys.

`AppleLedgerProofs`:
`IInv` strengthens the properties with: payloads are consistent with their kind
(`PayloadsConsistent`: a refund or revoke shows a revocation), a row is made of
payloads that were sent (`RowFromPayload`), a row whose adjustment is adverse is
revoked (`AdverseRevoked`), and the adjustment watermark is the newest signature
accepted (`WatermarkIsNewest`). The last is what makes `RefundHolds` inductive:
a stale reversal is rejected because the watermark is not older than the refund.
`Invariant` proves `Spec => []IInv` with one step per action; Apple's actions
only add payloads, so the work is in `Save`, split on the four cases of
`Reduce`. `RevokesDecide`, `RefundsHold`, `WatermarksOnlyGrow`
(`WatermarksGrow`) and `OnlyReversalsClear` (`RevocationClearedByReversalOnly`)
follow. `ContextInv` (signed date and grace period of a row come from one payload,
and no context processed is newer) gives `ContextsNewest`. `ReversalsRestore`
needs what Apple signs: `SentInv` says that a payload which shows a revocation
after a reversal was signed means that Apple took the purchase away again, and
`ReversedRow` that a row recorded as reversed has a context as new as the
reversal, so a payload signed while the refund stood comes too late to be
accepted.

`SubscriptionOwnershipProofs`: `TablesInv` (one owner per subscription, a
claimed guest is empty and its session dead, owners exist, accounts reconcile)
is inductive by itself; `AuthorisationsHold` needs it, and `OwnerHoldsToken`
needs both, because a save uses an authorisation given earlier.
`OnlyClaimsMove` (`MovesOnlyByClaim`) and `PromiseKept` (every step is a step of
`OwnershipPromise` or changes none of its variables) follow from the invariant.

`OwnershipLockingProofs`: `LockingInv` says of every open transaction, statement
by statement, which locks it holds and that what it has read under them is
still so: a save past its owner's row holds it and the owner may still own; past
the advisory lock of the original transaction no stranger owns a row of that
original; a claim past the guest holds it, and every original the guest owns is
locked or still to be locked. It is inductive because locks are exclusive
(`Exclusive`) and every step that could falsify what another transaction has read
needs a lock that one holds. From it, a commit is a step of the
abstract module and every other statement a stutter (`PromiseKept`), and the
rows of a subscription have one owner between any two statements
(`SubscriptionsUndivided`). `SavesAndClaimsProgress` gives each waiting
transaction a rank, that of the lock it asks for: accounts, then guests, then
the advisory locks by original id (row locks and the attribution are free by
then). Whoever holds the lock that another waits for has a higher rank, so the one
of the highest rank in a group waits for nobody in it. That there is a highest one needs
that finitely many transactions are open, which is part of the invariant. Deletions are left out as
in the property: `src/app/main.py:2984` takes its locks in another order.

`PriceNotificationsProofs`: `TypedStep` keeps the types together with
`RetriesCounted` (what can be claimed again has an attempt left or counted
already), without which a claim could exceed `MaxAttempts`. `KnownStep` keeps
`OneHolder` (a record no recovery has touched is processing and has one holder)
and `AcceptedIsKnown` (what was accepted is processing or sent, and the holder
knows it); both are needed for each other: a claim is refused while somebody
holds the record, and a holder finalizes what it knows. `AlertsAcceptedOnce`
and `SentIsKept` follow. The second half goes on from there: `PushesCounted`
adds to the pushes made the workers about to push and the attempt a recovery
has counted in advance, since after a recovery two workers may be about to
push the same alert; `Sequential` says that while workers do not overlap the
last alert is the price of the newest sent record, or its worker is about
to record it, so that what `ReadLast` compares with is the last alert.

`EmailVerificationProofs`: `ResendInvalidates` is not inductive, because what
kills a code is the snapshot of an UPDATE that commits later. `UpdatedInv` says
that a resend between the two has in its snapshot every code that was there
when it began and is not used, `SeenInv` that what a transaction has seen are ids
given out before (so a new row is never among them), and `NobodyInv`
that without an account there is no code. `ResendsInvalidate`, `NoOrphans`
and `CodesAreConsumed` follow. `GuessesAreBounded` is an accounting argument.
For every code in use, its wrong guesses, the attempts left of all codes in use
and `MaxAttempts` for each late resend, one whose UPDATE does not see the code, stay
within the bound of the property (`BudgetInv`): a guess moves one attempt from
left to made, an insertion turns a late resend into `MaxAttempts` attempts left,
and an UPDATE that begins sees every code in use. For a new code the bound has to hold from the start, so the codes
in use that its resend has not seen must be few: `MakerInv` assigns to each
resender the last code it inserted, and says that every code in use and not seen
is the last one of some other resender.

`AccountSessionsProofs`: the invariant has three parts. `SessionInv`: sessions
belong to the account there is, a request that refreshes holds its session
alone, which therefore has the token it read and is not revoked (so the
condition of the UPDATE holds when it runs), and of a session the tokens before
the present one were answered once, the others never. `TokensExchangedOnce`
follows. The row lock and the condition of the UPDATE each exclude the second
answer; the mistake put in for the property drops the token from the condition
both statements share, so that a session is found by a token it no longer has. `QueueInv`: rows are for tokens
that were issued, no row is held twice, and an answer "revoked" is true.
`TokenInv`: a token is in one sign-in before it is stored, then it belongs to the
account, and a deletion that found nothing to do or got the answer "revoked"
has no valid token; only so is `QueueSparesAccounts` inductive, since a queued
token can never come back by a sign-in. `RevocationNext` shows what the queue
does to a token in general (`QueueStep`), and the actions of the requests are
proved without looking into it. The five properties follow; `LogoutsStick` (an
action property) uses `SessionInv` only for the ids of new sessions.

`MimitImportProofs`: a live session has the lock and its run is the latest
(`LockedInv`), the run of a live session that has still to report is recorded as
running (`RunningInv`), so whoever gets the lock finds only runs of dead
sessions; `DecidedOnce` follows, because a result is written on the session of
the lock and by run id. A server whose session died works on without the lock,
beside the next one; that is what `OnlyLatestReports` says of the live session.
`AveragesAreLatest` is inductive by itself: the condition of the upsert compares
with the snapshot found, whoever refreshes and in whatever order.
`SelectionIgnoresOrder` is about the data: the fold over the rows of a file
gives what `Reference` says of their set, for every file in which ties are
decided. The induction over the length of the file is by a least
counterexample (well-foundedness of the naturals): the prefixes of a file
are selected one row after the other, and the shortest prefix for which the
fold differs would have a shorter one. `DatasetStaysWhole` carries from the
choice of a file to its commit that the draft is `Prepared` of that file
(`FileInv`), and that readers see one whole file or, before the first success,
nothing (`PricesInv`).

`RewardsProofs`: `TablesInv` says that the rows of a batch are pending and of
no other batch, that the referrers of what it granted are locked and those to
come are not before them, that a lock on an account is held once, and that a
newcomer was not referred. `LimitInv` is what makes `MonthlyLimit` inductive: for
a referrer a batch has locked, the rewards of the month and the grants still
uncommitted are within the limit; it survives a commit of another batch because
that one holds other locks. `OrderPreventsDeadlock` takes the least referrer of
each batch (by well-foundedness): if each waited for the other's, both would be
the same account, locked twice. The deletions are left to the deadlock detector
and are no part of that theorem. The second part is about `RewardedAccount`.
`AccountInv` says that the ledger is typed, that without an attribution there are
no events and no milestone, that the attribution is not after the clock, and
that a row that was saved keeps its purchase; the last is what lets the witness
of a renewal outlive later payloads, so `EventsFollowAttribution` is inductive
beside it (`EventsStayBehind`). A claim is a fold of conversions over the
transactions that move; what each of them keeps, the fold keeps (`FoldExists`,
below). `MilestoneOf` says that the milestone is one of the
events ever confirmed and not after any of them, and that a refund leaves the
time of its event; `EarliestIsKept` follows. `PurchasesAreCounted` needs that a
message which is refused for the creator leaves the adjustment and the
revocation of the row, and with it what the event has to say, as they were, and
that the conversion of one transaction leaves the events of the others alone, so
that in a claim's fold each purchase is counted when its turn comes and not
changed after it.

The third part of `RewardsProofs` is about `PlusEntitlement`, and is the longest
argument of the project. The prover cannot apply induction theorems, so a fold
over a set is first shown to obey its equations (`FoldExists`, for any next
element and any step), and what holds of it is then shown by a smallest set for
which it fails (`Smallest`). On this rest, one loop after the other:
`MergeFacts` (merged periods are apart and cover the days of the rows),
`CoveredCounts` (the sum of the overlaps is the number of days covered, because
the periods are apart), `ProjectExpires` (the answer is an instant with as many
free days before it as there are left, the last of them the day before it; in
`Projected` the cursor is `now` or the end of a period passed, so that a period
already behind it covers nothing that counts), and `BalanceProjected` (spending
the balance from grant to grant is spending it day by day, since nothing is
granted in between). There is one such instant (`ExpiresFirst`) and it is within
the horizon of the reference (`ExpiresBounded`, `BalanceBounded`), which gives
`ExpiryByDay`. `StoredIsRight` then needs what a day changes: `LastsAges` and
`AppleAges` show that tomorrow's answer is today's unless it has come, in which
case there is none. Its invariant `PlusInv` adds that no reward is of a later time
than the clock; with a reward of tomorrow, a stored entitlement would be too
short the next day. The balance and the periods are arbitrary in these lemmas;
that rows and rewards are finitely many is an assumption on the tables.

Only model-checked: liveness (`NotificationsSettle`, `QueueSettles`,
`EligibleSettles`, `RunsEnd`), which is out of the prover's reach.

## 5. Not modelled, and plan

Not modelled:

- The verification of signatures and the normalisation of payloads
  (`apple_jws_verifier.py`, `apple_notification_verifier.py`): no state; a
  verified payload is an input of the models.
- The connection pool (`db.py`): a slot is taken and given back around one
  critical section of psycopg2. Connections appear in the other models, where they
  live or break.
- Rate limits: one upsert per request. Telemetry and e-mail: output only.
- Devices, locations and community prices: single statements on independent
  rows, but for the devices that notifications deactivate.
- `src/scripts`: read-only diagnosis and command lines around the components
  above; the cron scripts' repetitions are in `Referrals` and `AppleRevocation`.
- Of `plus_entitlements.py` the backfill of old rows (238-262, 425-444), which
  runs once; of `creator_attribution.py` the campaigns and their administration
  and the milestones of verification and qualification, on which nothing
  depends; of guests the renewal of their sessions.
- Of the import: the quality of station coordinates, and an unlock that fails
  on a session that stays alive (`src/app/main.py:3119`); of the averages the
  parsing of the page. An older file committed after a newer one
  (`src/app/import_mimit.py:1294`) is in the model, and no property forbids it.
- Of price notifications: the geometry behind the best price, the cleanup of
  locations, preferences.

Left to do: deletions in the deadlock argument of `Referrals`; an instance of
`AccountSessions` with two accounts if its state space can be cut; the
campaigns of creators.
