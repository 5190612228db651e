-------------------------- MODULE OwnershipLocking --------------------------
(***************************************************************************)
(* The database transactions of SubscriptionOwnership, statement by        *)
(* statement: the locks each of them takes, in the order of the code, and  *)
(* what it reads under them.  PostgreSQL runs them at READ COMMITTED, so a *)
(* statement sees what is committed when it runs (and, if it waited for a  *)
(* row lock, what was committed meanwhile); the writes of a transaction    *)
(* appear to the others when it commits, and are one step here.            *)
(*                                                                         *)
(*   save    process_apple_transaction for a resolved owner                *)
(*   claim   claim_guest_subscription                                      *)
(*   delete  the deleting transaction of delete_current_account            *)
(***************************************************************************)
EXTENDS Naturals, FiniteSets

CONSTANTS Users, Guests, Tx, Nobody,
          Original,   \* Original[t] \in Nat: original ids have an order
          Attributed, \* accounts with an active creator attribution
          Workers     \* database connections

ASSUME LockingAssumption ==
  /\ Users \cap Guests = {} /\ Nobody \notin Users \cup Guests
  /\ Original \in [Tx -> Nat]
  /\ Attributed \subseteq Users

VARIABLES live, claimedBy, owner, session,  \* committed tables
          txn,   \* txn[w]: the open transaction of w
          held   \* held[w]: the locks w holds until it ends

tables == <<live, claimedBy, owner, session>>
vars   == <<tables, txn, held>>

Owners    == Users \cup Guests
Originals == {Original[t] : t \in Tx}
None      == [kind |-> "none"]

\* Lockable things: rows of users, guest_identities, apple_transactions and
\* creator_attributions, and the advisory lock of an original transaction.
Account(u)     == <<"account", u>>
Guest(g)       == <<"guest", g>>
Row(t)         == <<"row", t>>
Advisory(o)    == <<"advisory", o>>
Attribution(u) == <<"attribution", u>>

Locks == {Account(u) : u \in Users} \cup {Guest(g) : g \in Guests}
         \cup {Row(t) : t \in Tx} \cup {Advisory(o) : o \in Originals}
         \cup {Attribution(u) : u \in Users}

Txn ==
  [kind: {"save"}, owner: Owners, tx: Tx,
   at: {"owner", "advisory", "row", "siblings", "attribution", "commit"}]
  \cup
  [kind: {"claim"}, owner: Users, guest: Guests, todo: SUBSET Originals,
   at: {"account", "guest", "originals", "advisory", "conflict", "rows",
        "attribution", "commit"}]
  \cup
  [kind: {"delete"}, owner: Users,
   at: {"attribution", "account", "cascade"}]
  \cup {None}

TypeOK ==
  /\ live \subseteq Users
  /\ claimedBy \in [Guests -> Users \cup {Nobody}]
  /\ owner \in [Tx -> Owners \cup {Nobody}]
  /\ session \subseteq Guests
  /\ txn \in [Workers -> Txn]
  /\ held \in [Workers -> SUBSET Locks]

Init ==
  /\ live = Users
  /\ claimedBy = [g \in Guests |-> Nobody]
  /\ owner = [t \in Tx |-> Nobody]
  /\ session = Guests
  /\ txn = [w \in Workers |-> None]
  /\ held = [w \in Workers |-> {}]

Siblings(t) == {s \in Tx : Original[s] = Original[t]}
OwnedBy(o)  == {t \in Tx : owner[t] = o}
Strangers(o, mine) ==
  {t \in Tx : Original[t] = o /\ owner[t] \notin mine \cup {Nobody}}

-----------------------------------------------------------------------------
Free(w, lock) == \A v \in Workers \ {w} : lock \notin held[v]

\* Take the locks of one statement and go to the next one.
Lock(w, locks, next) ==
  /\ \A l \in locks : Free(w, l)
  /\ held' = [held EXCEPT ![w] = @ \cup locks]
  /\ txn' = [txn EXCEPT ![w] = next]
  /\ UNCHANGED tables

Go(w, next) == Lock(w, {}, next)

\* Mutated: the connection returns to its pool with the transaction open.
EndWithoutRelease(w) == txn' = [txn EXCEPT ![w] = None] /\ UNCHANGED held

\* COMMIT or ROLLBACK: every lock is released.
End(w) ==
  /\ txn' = [txn EXCEPT ![w] = None]
  /\ held' = [held EXCEPT ![w] = {}]

Rollback(w) == End(w) /\ UNCHANGED tables

\* A statement that locks one row and refuses what it finds there.
LockOrRefuse(w, locks, acceptable, next) ==
  /\ \A l \in locks : Free(w, l)
  /\ IF acceptable THEN Lock(w, locks, next) ELSE Rollback(w)

Begin(w) ==
  /\ txn[w] = None
  /\ \E transaction \in
       [kind: {"save"}, owner: Owners, tx: Tx, at: {"owner"}]
       \cup [kind: {"claim"}, owner: Users, guest: Guests,
             todo: {{}}, at: {"account"}]
       \cup [kind: {"delete"}, owner: Users, at: {"attribution"}] :
       txn' = [txn EXCEPT ![w] = transaction]
  /\ UNCHANGED <<tables, held>>

\* An error, a lost connection or the deadlock detector ends a transaction.
Fail(w) == txn[w] # None /\ Rollback(w)

-----------------------------------------------------------------------------
(***************************************************************************)
(* save                                                                    *)
(***************************************************************************)
Step(w, at) == [txn[w] EXCEPT !.at = at]

LockOwner(w) ==
  LET o == txn[w].owner
  IN /\ txn[w].kind = "save" /\ txn[w].at = "owner"
     /\ \/ o \in Users
           /\ LockOrRefuse(w, {Account(o)}, o \in live, Step(w, "advisory"))
        \/ o \in Guests
           /\ LockOrRefuse(w, {Guest(o)}, claimedBy[o] = Nobody,
                           Step(w, "advisory"))

\* Mutated: the advisory lock is not taken.
SkipLockOriginal(w) ==
  /\ txn[w].kind = "save" /\ txn[w].at = "advisory"
  /\ Go(w, Step(w, "row"))

LockOriginal(w) ==
  /\ txn[w].kind = "save" /\ txn[w].at = "advisory"
  /\ Lock(w, {Advisory(Original[txn[w].tx])}, Step(w, "row"))

AfterOwnership(w) ==
  Step(w, IF txn[w].owner \in Users THEN "attribution" ELSE "commit")

\* SELECT ... WHERE transaction_id = ... FOR UPDATE
LockRow(w) ==
  LET t == txn[w].tx
  IN /\ txn[w].kind = "save" /\ txn[w].at = "row"
     /\ IF owner[t] = Nobody
          THEN Go(w, Step(w, "siblings"))
          ELSE LockOrRefuse(w, {Row(t)}, owner[t] = txn[w].owner,
                            AfterOwnership(w))

\* SELECT ... a row of the same original transaction and another owner
CheckSiblings(w) ==
  LET strangers == Strangers(Original[txn[w].tx], {txn[w].owner})
  IN /\ txn[w].kind = "save" /\ txn[w].at = "siblings"
     /\ IF strangers = {}
          THEN Go(w, AfterOwnership(w))
          ELSE (\E s \in strangers : Free(w, Row(s))) /\ Rollback(w)

\* record_creator_apple_conversion; it returns early for some rows.
LockAttribution(w) ==
  /\ txn[w].kind \in {"save", "claim"} /\ txn[w].at = "attribution"
  /\ \/ Go(w, Step(w, "commit"))
     \/ /\ txn[w].owner \in Attributed
        /\ Lock(w, {Attribution(txn[w].owner)}, Step(w, "commit"))

CommitSave(w) ==
  /\ txn[w].kind = "save" /\ txn[w].at = "commit"
  /\ owner' = [owner EXCEPT ![txn[w].tx] = txn[w].owner]
  /\ End(w)
  /\ UNCHANGED <<live, claimedBy, session>>

-----------------------------------------------------------------------------
(***************************************************************************)
(* claim                                                                   *)
(***************************************************************************)
LockClaimant(w) ==
  /\ txn[w].kind = "claim" /\ txn[w].at = "account"
  /\ LockOrRefuse(w, {Account(txn[w].owner)}, txn[w].owner \in live,
                  Step(w, "guest"))

LockGuest(w) ==
  LET g == txn[w].guest
  IN /\ txn[w].kind = "claim" /\ txn[w].at = "guest"
     /\ LockOrRefuse(w, {Guest(g)}, claimedBy[g] = Nobody /\ g \in session,
                     Step(w, "originals"))

ReadOriginals(w) ==
  LET todo == {Original[t] : t \in OwnedBy(txn[w].guest)}
  IN /\ txn[w].kind = "claim" /\ txn[w].at = "originals"
     /\ IF todo = {} THEN Rollback(w)
        ELSE Go(w, [txn[w] EXCEPT !.at = "advisory", !.todo = todo])

\* The advisory locks are taken in the order of the original ids.
First(todo) == CHOOSE o \in todo : \A p \in todo : o <= p

LockNextOriginal(w) ==
  /\ txn[w].kind = "claim" /\ txn[w].at = "advisory"
  /\ IF txn[w].todo = {}
       THEN Go(w, Step(w, "rows"))
       ELSE Lock(w, {Advisory(First(txn[w].todo))}, Step(w, "conflict"))

CheckConflict(w) ==
  LET o == First(txn[w].todo)
      strangers == Strangers(o, {txn[w].guest, txn[w].owner})
  IN /\ txn[w].kind = "claim" /\ txn[w].at = "conflict"
     /\ IF strangers = {}
          THEN Go(w, [txn[w] EXCEPT !.at = "advisory", !.todo = @ \ {o}])
          ELSE (\E s \in strangers : Free(w, Row(s))) /\ Rollback(w)

LockGuestRows(w) ==
  /\ txn[w].kind = "claim" /\ txn[w].at = "rows"
  /\ Lock(w, {Row(t) : t \in OwnedBy(txn[w].guest)}, Step(w, "attribution"))

CommitClaim(w) ==
  LET g == txn[w].guest
      u == txn[w].owner
  IN /\ txn[w].kind = "claim" /\ txn[w].at = "commit"
     /\ owner' = [t \in Tx |-> IF owner[t] = g THEN u ELSE owner[t]]
     /\ claimedBy' = [claimedBy EXCEPT ![g] = u]
     /\ session' = session \ {g}
     /\ End(w)
     /\ UNCHANGED live

-----------------------------------------------------------------------------
(***************************************************************************)
(* delete                                                                  *)
(***************************************************************************)

\* UPDATE creator_attributions SET user_id = NULL ...
AnonymizeAttribution(w) ==
  LET u == txn[w].owner
  IN /\ txn[w].kind = "delete" /\ txn[w].at = "attribution"
     /\ Lock(w, IF u \in Attributed THEN {Attribution(u)} ELSE {},
             Step(w, "account"))

\* DELETE FROM users
LockDeleted(w) ==
  /\ txn[w].kind = "delete" /\ txn[w].at = "account"
  /\ LockOrRefuse(w, {Account(txn[w].owner)}, txn[w].owner \in live,
                  Step(w, "cascade"))

\* The foreign keys of apple_transactions and guest_identities.
Cascades(u) == {Row(t) : t \in OwnedBy(u)}
               \cup {Guest(g) : g \in {h \in Guests : claimedBy[h] = u}}

CommitDelete(w) ==
  LET u == txn[w].owner
  IN /\ txn[w].kind = "delete" /\ txn[w].at = "cascade"
     /\ \A l \in Cascades(u) : Free(w, l)
     /\ live' = live \ {u}
     /\ owner' = [t \in Tx |-> IF owner[t] = u THEN Nobody ELSE owner[t]]
     /\ claimedBy' = [g \in Guests |-> IF claimedBy[g] = u
                                         THEN Nobody ELSE claimedBy[g]]
     /\ End(w)
     /\ UNCHANGED session

-----------------------------------------------------------------------------
WorkerStep(w) ==
  \/ LockOwner(w) \/ LockOriginal(w) \/ LockRow(w) \/ CheckSiblings(w)
  \/ LockAttribution(w) \/ CommitSave(w)
  \/ LockClaimant(w) \/ LockGuest(w) \/ ReadOriginals(w)
  \/ LockNextOriginal(w) \/ CheckConflict(w) \/ LockGuestRows(w)
  \/ CommitClaim(w)
  \/ AnonymizeAttribution(w) \/ LockDeleted(w) \/ CommitDelete(w)

Next == \E w \in Workers : Begin(w) \/ Fail(w) \/ WorkerStep(w)

Spec == Init /\ [][Next]_vars

-----------------------------------------------------------------------------
(***************************************************************************)
(* Properties.                                                             *)
(***************************************************************************)

\* Interleaved statement by statement, the transactions keep the promise
\* SubscriptionOwnership keeps with atomic ones.
Promise == INSTANCE OwnershipPromise
  WITH live <- live, claimedBy <- claimedBy, owner <- owner
Implements == Promise!Spec

\* What w asks for in its next statement.
Asks(w) ==
  LET x == txn[w]
  IN CASE x.at = "owner" -> {Account(x.owner), Guest(x.owner)}
       [] x.at = "account" -> {Account(x.owner)}
       [] x.at = "guest" -> {Guest(x.guest)}
       [] x.at = "attribution" -> {Attribution(x.owner)}
       [] x.at = "advisory" /\ x.kind = "save" -> {Advisory(Original[x.tx])}
       [] x.at = "advisory" /\ x.kind = "claim" /\ x.todo # {}
            -> {Advisory(First(x.todo))}
       [] x.at = "row" -> {Row(x.tx)}
       [] x.at = "siblings" ->
            {Row(s) : s \in Strangers(Original[x.tx], {x.owner})}
       [] x.at = "conflict" ->
            {Row(s) : s \in Strangers(First(x.todo), {x.owner, x.guest})}
       [] x.at = "rows" -> {Row(t) : t \in OwnedBy(x.guest)}
       [] x.at = "cascade" -> Cascades(x.owner)
       [] OTHER -> {}

WaitsFor(w, v) == w # v /\ Asks(w) \cap held[v] # {}

\* tests/test_guest_subscriptions.py: verifications and notifications racing
\* a claim do not deadlock.  Every group of them has a member that waits for
\* nobody in the group.  (A deletion locks the attribution before the
\* account, the others the account first: PostgreSQL has to break that one.)
SavesAndClaimsNeverDeadlock ==
  LET open == {w \in Workers : txn[w].kind \in {"save", "claim"}}
  IN \A group \in (SUBSET open) \ {{}} :
       \E w \in group : \A v \in group : ~WaitsFor(w, v)
=============================================================================
