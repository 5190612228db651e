------------------------ MODULE OwnershipLockingProofs ------------------------
(***************************************************************************)
(* Theorems about OwnershipLocking: the locks each transaction holds at    *)
(* each statement, that the statement-by-statement transactions implement  *)
(* OwnershipPromise, and that saves and claims never wait in a circle.     *)
(***************************************************************************)
EXTENDS OwnershipLocking, FiniteSetTheorems, WellFoundedInduction, TLAPS

(***************************************************************************)
(* The inductive invariant, part by part.                                  *)
(***************************************************************************)
Open == {w \in Workers : txn[w] # None}

\* A lock is held by one connection.
Exclusive == \A v, w \in Workers : v # w => held[v] \cap held[w] = {}

\* A save past its owner's row holds it, and the owner may still own.
SaveHoldsOwner(w) ==
  txn[w].kind = "save" /\ txn[w].at # "owner" =>
    /\ txn[w].owner \in Users =>
         Account(txn[w].owner) \in held[w] /\ txn[w].owner \in live
    /\ txn[w].owner \in Guests =>
         /\ Guest(txn[w].owner) \in held[w]
         /\ claimedBy[txn[w].owner] = Nobody

\* A save past the advisory lock of its original transaction holds it, and
\* what it has read of the rows of that original is still so.
SaveHoldsOriginal(w) ==
  txn[w].kind = "save" /\ txn[w].at \notin {"owner", "advisory"} =>
    Advisory(Original[txn[w].tx]) \in held[w]

SaveHasChecked(w) ==
  txn[w].kind = "save" =>
    /\ txn[w].at = "siblings" => owner[txn[w].tx] = Nobody
    /\ txn[w].at \in {"attribution", "commit"} =>
         \/ owner[txn[w].tx] = txn[w].owner
         \/ /\ owner[txn[w].tx] = Nobody
            /\ Strangers(Original[txn[w].tx], {txn[w].owner}) = {}

\* A claim past the account and the guest holds both, and both may go on.
ClaimHoldsAccount(w) ==
  txn[w].kind = "claim" /\ txn[w].at # "account" =>
    Account(txn[w].owner) \in held[w] /\ txn[w].owner \in live

ClaimHoldsGuest(w) ==
  txn[w].kind = "claim" /\ txn[w].at \notin {"account", "guest"} =>
    Guest(txn[w].guest) \in held[w] /\ claimedBy[txn[w].guest] = Nobody

\* What the guest owns is what the claim has read: the originals it still
\* has to lock or has locked.
ClaimHoldsOriginals(w) ==
  txn[w].kind = "claim"
  /\ txn[w].at \notin {"account", "guest", "originals"} =>
    /\ OwnedBy(txn[w].guest) # {}
    /\ \A t \in OwnedBy(txn[w].guest) :
         \/ Original[t] \in txn[w].todo
         \/ Advisory(Original[t]) \in held[w]
    /\ txn[w].at = "conflict" =>
         txn[w].todo # {} /\ Advisory(First(txn[w].todo)) \in held[w]
    /\ txn[w].at \notin {"advisory", "conflict"} => txn[w].todo = {}

DeleteHoldsAccount(w) ==
  txn[w].kind = "delete" /\ txn[w].at = "cascade" =>
    Account(txn[w].owner) \in held[w] /\ txn[w].owner \in live

\* What a save or a claim holds, it holds for the statements behind it.
AccountHeld(w) ==
  \A u \in Users : Account(u) \in held[w] =>
    u = txn[w].owner /\ txn[w].at \notin {"owner", "account"}

GuestHeld(w) ==
  \A g \in Guests : Guest(g) \in held[w] =>
    txn[w].at \notin {"owner", "account", "guest"}

AdvisoryHeld(w) ==
  \A o \in Originals : Advisory(o) \in held[w] =>
    /\ txn[w].at \notin {"owner", "account", "guest", "originals"}
    /\ txn[w].kind = "save" => txn[w].at # "advisory"
    /\ txn[w].kind = "claim" =>
         /\ \A p \in txn[w].todo : o <= p
         /\ txn[w].at = "advisory" => o \notin txn[w].todo

RowHeld(w) ==
  \A t \in Tx : Row(t) \in held[w] => Advisory(Original[t]) \in held[w]

AttributionHeld(w) ==
  \A u \in Users : Attribution(u) \in held[w] =>
    u = txn[w].owner /\ txn[w].at = "commit"

HeldBehind(w) ==
  txn[w].kind \in {"save", "claim"} =>
    /\ AccountHeld(w) /\ GuestHeld(w) /\ AdvisoryHeld(w)
    /\ RowHeld(w) /\ AttributionHeld(w)

WorkerInv(w) ==
  /\ txn[w] = None => held[w] = {}
  /\ SaveHoldsOwner(w) /\ SaveHoldsOriginal(w) /\ SaveHasChecked(w)
  /\ ClaimHoldsAccount(w) /\ ClaimHoldsGuest(w) /\ ClaimHoldsOriginals(w)
  /\ DeleteHoldsAccount(w)
  /\ HeldBehind(w)

LockingInv ==
  /\ TypeOK
  /\ IsFiniteSet(Open)
  /\ Exclusive
  /\ \A w \in Workers : WorkerInv(w)

-----------------------------------------------------------------------------
(***************************************************************************)
(* Facts about locks and transactions.                                     *)
(***************************************************************************)

\* Locks of different kinds, or of different rows, are different.
LEMMA LocksDiffer ==
  ASSUME NEW a, NEW b
  PROVE  /\ Account(a) = Account(b) => a = b
         /\ Guest(a) = Guest(b) => a = b
         /\ Row(a) = Row(b) => a = b
         /\ Advisory(a) = Advisory(b) => a = b
         /\ Attribution(a) = Attribution(b) => a = b
         /\ Account(a) \notin {Guest(b), Row(b), Advisory(b), Attribution(b)}
         /\ Guest(a) \notin {Row(b), Advisory(b), Attribution(b)}
         /\ Row(a) \notin {Advisory(b), Attribution(b)}
         /\ Advisory(a) # Attribution(b)
BY DEF Account, Guest, Row, Advisory, Attribution

\* The transactions by kind.
SaveTxn ==
  [kind: {"save"}, owner: Owners, tx: Tx,
   at: {"owner", "advisory", "row", "siblings", "attribution", "commit"}]
ClaimTxn ==
  [kind: {"claim"}, owner: Users, guest: Guests, todo: SUBSET Originals,
   at: {"account", "guest", "originals", "advisory", "conflict", "rows",
        "attribution", "commit"}]
DeleteTxn ==
  [kind: {"delete"}, owner: Users, at: {"attribution", "account", "cascade"}]

LEMMA Kinds ==
  ASSUME TypeOK, NEW w \in Workers
  PROVE  /\ txn[w].kind = "save" => txn[w] \in SaveTxn
         /\ txn[w].kind = "claim" => txn[w] \in ClaimTxn
         /\ txn[w].kind = "delete" => txn[w] \in DeleteTxn
         /\ txn[w].kind \notin {"save", "claim", "delete"} => txn[w] = None
         /\ txn[w] = None => txn[w].kind = "none"
<1>1. txn[w] \in Txn
  BY DEF TypeOK
<1> QED
  BY <1>1 DEF Txn, SaveTxn, ClaimTxn, DeleteTxn, None

LEMMA TxnKinds == /\ SaveTxn \subseteq Txn /\ ClaimTxn \subseteq Txn
                  /\ DeleteTxn \subseteq Txn /\ None \in Txn
BY DEF Txn, SaveTxn, ClaimTxn, DeleteTxn

\* A set of natural numbers with a member has a least one.
LEMMA FirstIsLeast ==
  ASSUME NEW todo \in SUBSET Originals, todo # {}
  PROVE  First(todo) \in todo /\ \A p \in todo : First(todo) <= p
<1>1. todo \subseteq Nat
  BY LockingAssumption DEF Originals
<1>2. \E o \in todo : \A p \in todo : <<p, o>> \notin OpToRel(<, Nat)
  BY <1>1, NatLessThanWellFounded, WFMin
<1>3. PICK o \in todo : \A p \in todo : ~(p < o)
  BY <1>1, <1>2 DEF OpToRel
<1>4. \A p \in todo : o <= p
  <2> SUFFICES ASSUME NEW p \in todo PROVE o <= p
    OBVIOUS
  <2>1. p \in Nat /\ o \in Nat /\ ~(p < o)
    BY <1>1, <1>3
  <2> QED
    BY <2>1
<1> QED
  BY <1>4 DEF First

-----------------------------------------------------------------------------
(***************************************************************************)
(* Steps that change one transaction and its locks only.                   *)
(***************************************************************************)

\* The parts of the invariant that other connections' locks keep.
LEMMA LockKeeps ==
  ASSUME LockingInv, NEW w \in Workers, NEW x \in Txn,
         NEW locks \in SUBSET Locks,
         \A l \in locks : Free(w, l),
         held' = [held EXCEPT ![w] = @ \cup locks],
         txn' = [txn EXCEPT ![w] = x],
         UNCHANGED tables,
         WorkerInv(w)'
  PROVE  LockingInv'
<1> USE DEF LockingInv
<1>1. TypeOK'
  BY DEF TypeOK, tables
<1>2. IsFiniteSet(Open')
  <2>1. Open' \subseteq Open \cup {w}
    BY DEF Open, TypeOK
  <2>2. IsFiniteSet(Open \cup {w})
    BY FS_AddElement
  <2> QED
    BY <2>1, <2>2, FS_Subset
<1>3. Exclusive'
  BY DEF Exclusive, Free, TypeOK
<1>4. ASSUME NEW v \in Workers, v # w PROVE WorkerInv(v)'
  <2>1. txn'[v] = txn[v] /\ held'[v] = held[v] /\ UNCHANGED tables
    BY <1>4 DEF TypeOK
  <2> QED
    BY <2>1 DEF WorkerInv, SaveHoldsOwner, SaveHoldsOriginal, SaveHasChecked,
      ClaimHoldsAccount, ClaimHoldsGuest, ClaimHoldsOriginals,
      DeleteHoldsAccount, HeldBehind, AccountHeld, GuestHeld, AdvisoryHeld,
      RowHeld, AttributionHeld, Strangers, OwnedBy, tables
<1> QED
  BY <1>1, <1>2, <1>3, <1>4

\* A connection without a transaction satisfies its part.
LEMMA IdleInv ==
  ASSUME NEW w \in Workers, txn[w] = None, held[w] = {}
  PROVE  WorkerInv(w)
<1>1. txn[w].kind = "none"
  BY DEF None
<1> QED
  BY <1>1 DEF WorkerInv, SaveHoldsOwner, SaveHoldsOriginal, SaveHasChecked,
    ClaimHoldsAccount, ClaimHoldsGuest, ClaimHoldsOriginals,
    DeleteHoldsAccount, HeldBehind

\* COMMIT and ROLLBACK: the other connections keep their parts.
LEMMA EndKeeps ==
  ASSUME LockingInv, NEW w \in Workers, End(w),
         live' \subseteq Users,
         claimedBy' \in [Guests -> Users \cup {Nobody}],
         owner' \in [Tx -> Owners \cup {Nobody}],
         session' \subseteq Guests,
         \A v \in Workers \ {w} : WorkerInv(v)'
  PROVE  LockingInv'
<1> USE DEF LockingInv, End
<1>1. TypeOK'
  BY TxnKinds DEF TypeOK
<1>2. IsFiniteSet(Open')
  <2>1. Open' \subseteq Open
    BY DEF Open, TypeOK
  <2> QED
    BY <2>1, FS_Subset
<1>3. Exclusive'
  BY DEF Exclusive, TypeOK
<1>4. WorkerInv(w)'
  <2>1. txn'[w] = None /\ held'[w] = {}
    BY DEF TypeOK
  <2>2. txn'[w].kind = "none"
    BY <2>1 DEF None
  <2> QED
    BY <2>1, <2>2 DEF WorkerInv, SaveHoldsOwner, SaveHoldsOriginal,
      SaveHasChecked, ClaimHoldsAccount, ClaimHoldsGuest,
      ClaimHoldsOriginals, DeleteHoldsAccount, HeldBehind
<1> QED
  BY <1>1, <1>2, <1>3, <1>4

LEMMA OthersStay ==
  ASSUME LockingInv, NEW w \in Workers, End(w), NEW v \in Workers \ {w}
  PROVE  txn'[v] = txn[v] /\ held'[v] = held[v]
BY DEF LockingInv, TypeOK, End

LEMMA RollbackKeeps ==
  ASSUME LockingInv, NEW w \in Workers, Rollback(w)
  PROVE  LockingInv'
<1>1. /\ End(w) /\ UNCHANGED tables
      /\ UNCHANGED <<live, claimedBy, owner, session>>
  BY DEF Rollback, tables
<1>2. ASSUME NEW v \in Workers \ {w} PROVE WorkerInv(v)'
  <2>1. txn'[v] = txn[v] /\ held'[v] = held[v]
    BY <1>1, OthersStay
  <2> QED
    BY <1>1, <2>1 DEF WorkerInv, SaveHoldsOwner, SaveHoldsOriginal,
      SaveHasChecked, ClaimHoldsAccount, ClaimHoldsGuest,
      ClaimHoldsOriginals, DeleteHoldsAccount, HeldBehind, AccountHeld,
      GuestHeld, AdvisoryHeld, RowHeld, AttributionHeld, Strangers, OwnedBy,
      LockingInv
<1>3. /\ live' \subseteq Users
      /\ claimedBy' \in [Guests -> Users \cup {Nobody}]
      /\ owner' \in [Tx -> Owners \cup {Nobody}]
      /\ session' \subseteq Guests
  BY <1>1 DEF LockingInv, TypeOK
<1> QED
  BY <1>1, <1>2, <1>3, EndKeeps

LEMMA FailKeeps ==
  ASSUME LockingInv, NEW w \in Workers, Fail(w)
  PROVE  LockingInv'
BY RollbackKeeps DEF Fail

LEMMA BeginKeeps ==
  ASSUME LockingInv, NEW w \in Workers, Begin(w)
  PROVE  LockingInv'
<1>1. PICK x \in [kind: {"save"}, owner: Owners, tx: Tx, at: {"owner"}]
                 \cup [kind: {"claim"}, owner: Users, guest: Guests,
                       todo: {{}}, at: {"account"}]
                 \cup [kind: {"delete"}, owner: Users, at: {"attribution"}] :
        txn' = [txn EXCEPT ![w] = x]
  BY DEF Begin
<1>2. /\ x \in Txn
      /\ \/ x.kind = "save" /\ x.at = "owner"
         \/ x.kind = "claim" /\ x.at = "account"
         \/ x.kind = "delete" /\ x.at = "attribution"
  BY <1>1 DEF Txn
<1>3. held[w] = {} /\ held \in [Workers -> SUBSET Locks]
  BY DEF LockingInv, WorkerInv, Begin, TypeOK
<1>4. /\ held' = [held EXCEPT ![w] = @ \cup {}]
      /\ UNCHANGED tables
      /\ \A l \in {} : Free(w, l)
      /\ {} \in SUBSET Locks
  BY <1>3 DEF Begin
<1>5. txn'[w] = x /\ held'[w] = {}
  BY <1>1, <1>3 DEF LockingInv, TypeOK, Begin
<1>6. WorkerInv(w)'
  BY <1>2, <1>5 DEF WorkerInv, SaveHoldsOwner, SaveHoldsOriginal,
    SaveHasChecked, ClaimHoldsAccount, ClaimHoldsGuest, ClaimHoldsOriginals,
    DeleteHoldsAccount, HeldBehind, AccountHeld, GuestHeld, AdvisoryHeld,
    RowHeld, AttributionHeld
<1>7. LockingInv'
  BY <1>1, <1>2, <1>4, <1>6, LockKeeps
<1> QED
  BY <1>7

-----------------------------------------------------------------------------
(***************************************************************************)
(* save, statement by statement.                                           *)
(***************************************************************************)

SavePart(w) == /\ SaveHoldsOwner(w) /\ SaveHoldsOriginal(w)
               /\ SaveHasChecked(w) /\ HeldBehind(w)

\* What a statement of a save changes.
LEMMA SaveMove ==
  ASSUME TypeOK, NEW w \in Workers, txn[w].kind = "save",
         NEW locks \in SUBSET Locks,
         NEW a \in {"owner", "advisory", "row", "siblings", "attribution",
                    "commit"},
         Lock(w, locks, Step(w, a))
  PROVE  /\ txn[w] \in SaveTxn
         /\ Step(w, a) \in Txn
         /\ txn'[w].kind = "save"
         /\ txn'[w].owner = txn[w].owner
         /\ txn'[w].tx = txn[w].tx
         /\ txn'[w].at = a
         /\ txn'[w] # None
         /\ held'[w] = held[w] \cup locks
         /\ UNCHANGED <<live, claimedBy, owner, session>>
<1>1. txn[w] \in SaveTxn
  BY Kinds
<1>2. Step(w, a) \in SaveTxn
  BY <1>1 DEF Step, SaveTxn
<1>3. txn'[w] = Step(w, a) /\ held'[w] = held[w] \cup locks
  BY DEF Lock, TypeOK
<1>4. /\ txn'[w].kind = "save"
      /\ txn'[w].owner = txn[w].owner
      /\ txn'[w].tx = txn[w].tx
      /\ txn'[w].at = a
  BY <1>1, <1>3 DEF Step, SaveTxn
<1> QED
  BY <1>1, <1>2, <1>3, <1>4, TxnKinds DEF None, Lock, tables

LEMMA SaveKeeps ==
  ASSUME LockingInv, NEW w \in Workers, txn[w].kind = "save",
         NEW locks \in SUBSET Locks,
         NEW a \in {"owner", "advisory", "row", "siblings", "attribution",
                    "commit"},
         Lock(w, locks, Step(w, a)),
         SavePart(w)'
  PROVE  LockingInv'
<1>1. TypeOK
  BY DEF LockingInv
<1>2. txn'[w].kind = "save" /\ txn'[w] # None /\ Step(w, a) \in Txn
  BY <1>1, SaveMove
<1>3. WorkerInv(w)'
  BY <1>2 DEF WorkerInv, SavePart, ClaimHoldsAccount, ClaimHoldsGuest,
    ClaimHoldsOriginals, DeleteHoldsAccount
<1> QED
  BY <1>2, <1>3, LockKeeps DEF Lock

LEMMA LockOwnerKeeps ==
  ASSUME LockingInv, NEW w \in Workers, LockOwner(w)
  PROVE  LockingInv'
<1> DEFINE o == txn[w].owner
<1>1. TypeOK /\ WorkerInv(w)
  BY DEF LockingInv
<1>2. txn[w].kind = "save" /\ txn[w].at = "owner" /\ txn[w] \in SaveTxn
  BY <1>1, Kinds DEF LockOwner
<1>3. CASE Rollback(w)
  BY <1>3, RollbackKeeps
<1>4. CASE /\ o \in Users /\ o \in live
           /\ Lock(w, {Account(o)}, Step(w, "advisory"))
  <2>1. {Account(o)} \in SUBSET Locks
    BY <1>4 DEF Locks
  <2>2. /\ txn'[w].kind = "save" /\ txn'[w].at = "advisory"
        /\ txn'[w].owner = o
        /\ held'[w] = held[w] \cup {Account(o)}
        /\ UNCHANGED <<live, claimedBy, owner>>
    BY <1>1, <1>2, <1>4, <2>1, SaveMove
  <2>3. SaveHoldsOwner(w)'
    BY <1>4, <2>2, LockingAssumption DEF SaveHoldsOwner
  <2>4. AccountHeld(w) /\ GuestHeld(w) /\ AdvisoryHeld(w) /\ RowHeld(w)
        /\ AttributionHeld(w)
    BY <1>1, <1>2 DEF WorkerInv, HeldBehind
  <2>5. HeldBehind(w)'
    BY <1>2, <2>2, <2>4, LocksDiffer DEF HeldBehind, AccountHeld,
      GuestHeld, AdvisoryHeld, RowHeld, AttributionHeld
  <2>6. SavePart(w)'
    BY <2>2, <2>3, <2>5 DEF SavePart, SaveHoldsOriginal, SaveHasChecked
  <2> QED
    BY <1>2, <1>4, <2>1, <2>6, SaveKeeps
<1>5. CASE /\ o \in Guests /\ claimedBy[o] = Nobody
           /\ Lock(w, {Guest(o)}, Step(w, "advisory"))
  <2>1. {Guest(o)} \in SUBSET Locks
    BY <1>5 DEF Locks
  <2>2. /\ txn'[w].kind = "save" /\ txn'[w].at = "advisory"
        /\ txn'[w].owner = o
        /\ held'[w] = held[w] \cup {Guest(o)}
        /\ UNCHANGED <<live, claimedBy, owner>>
    BY <1>1, <1>2, <1>5, <2>1, SaveMove
  <2>3. SaveHoldsOwner(w)'
    BY <1>5, <2>2, LockingAssumption DEF SaveHoldsOwner
  <2>4. AccountHeld(w) /\ GuestHeld(w) /\ AdvisoryHeld(w) /\ RowHeld(w)
        /\ AttributionHeld(w)
    BY <1>1, <1>2 DEF WorkerInv, HeldBehind
  <2>5. HeldBehind(w)'
    BY <1>2, <2>2, <2>4, LocksDiffer DEF HeldBehind, AccountHeld,
      GuestHeld, AdvisoryHeld, RowHeld, AttributionHeld
  <2>6. SavePart(w)'
    BY <2>2, <2>3, <2>5 DEF SavePart, SaveHoldsOriginal, SaveHasChecked
  <2> QED
    BY <1>2, <1>5, <2>1, <2>6, SaveKeeps
<1> QED
  BY <1>3, <1>4, <1>5 DEF LockOwner, LockOrRefuse

LEMMA LockOriginalKeeps ==
  ASSUME LockingInv, NEW w \in Workers, LockOriginal(w)
  PROVE  LockingInv'
<1> DEFINE o == Original[txn[w].tx]
<1>1. TypeOK /\ WorkerInv(w)
  BY DEF LockingInv
<1>2. /\ txn[w].kind = "save" /\ txn[w].at = "advisory"
      /\ txn[w] \in SaveTxn
      /\ Lock(w, {Advisory(o)}, Step(w, "row"))
  BY <1>1, Kinds DEF LockOriginal
<1>3. {Advisory(o)} \in SUBSET Locks
  BY <1>2 DEF Locks, Originals, SaveTxn
<1>4. /\ txn'[w].kind = "save" /\ txn'[w].at = "row"
      /\ txn'[w].owner = txn[w].owner /\ txn'[w].tx = txn[w].tx
      /\ held'[w] = held[w] \cup {Advisory(o)}
      /\ UNCHANGED <<live, claimedBy, owner>>
  BY <1>1, <1>2, <1>3, SaveMove
<1>5. SaveHoldsOwner(w)'
  BY <1>1, <1>2, <1>4 DEF WorkerInv, SaveHoldsOwner
<1>6. SaveHoldsOriginal(w)'
  BY <1>4 DEF SaveHoldsOriginal
<1>7. AccountHeld(w) /\ GuestHeld(w) /\ AdvisoryHeld(w) /\ RowHeld(w)
      /\ AttributionHeld(w)
  BY <1>1, <1>2 DEF WorkerInv, HeldBehind
<1>8. HeldBehind(w)'
  BY <1>2, <1>4, <1>7, LocksDiffer DEF HeldBehind, AccountHeld,
    GuestHeld, AdvisoryHeld, RowHeld, AttributionHeld
<1>9. SavePart(w)'
  BY <1>4, <1>5, <1>6, <1>8 DEF SavePart, SaveHasChecked
<1> QED
  BY <1>2, <1>3, <1>9, SaveKeeps

\* A save that holds its advisory lock goes on, perhaps with the lock of the
\* transaction's row, to a statement whose reading holds.
LEMMA CheckedKeeps ==
  ASSUME LockingInv, NEW w \in Workers, txn[w].kind = "save",
         txn[w].at \in {"row", "siblings"},
         NEW a \in {"siblings", "attribution", "commit"},
         NEW locks \in SUBSET {Row(txn[w].tx)},
         Lock(w, locks, Step(w, a)),
         a = "siblings" => owner[txn[w].tx] = Nobody,
         a # "siblings" =>
           \/ owner[txn[w].tx] = txn[w].owner
           \/ /\ owner[txn[w].tx] = Nobody
              /\ Strangers(Original[txn[w].tx], {txn[w].owner}) = {}
  PROVE  LockingInv'
<1>1. TypeOK /\ WorkerInv(w)
  BY DEF LockingInv
<1>2. txn[w] \in SaveTxn
  BY <1>1, Kinds
<1>3. locks \in SUBSET Locks
  BY <1>2 DEF Locks, SaveTxn
<1>4. /\ txn'[w].kind = "save" /\ txn'[w].at = a
      /\ txn'[w].owner = txn[w].owner /\ txn'[w].tx = txn[w].tx
      /\ held'[w] = held[w] \cup locks
      /\ UNCHANGED <<live, claimedBy, owner>>
  BY <1>1, <1>3, SaveMove
<1>5. SaveHoldsOwner(w)'
  BY <1>1, <1>4 DEF WorkerInv, SaveHoldsOwner
<1>6. Advisory(Original[txn[w].tx]) \in held[w]
  BY <1>1 DEF WorkerInv, SaveHoldsOriginal
<1>7. SaveHoldsOriginal(w)'
  BY <1>4, <1>6 DEF SaveHoldsOriginal
<1>8. SaveHasChecked(w)'
  BY <1>4 DEF SaveHasChecked, Strangers
<1>9. AccountHeld(w) /\ GuestHeld(w) /\ AdvisoryHeld(w) /\ RowHeld(w)
      /\ AttributionHeld(w)
  BY <1>1 DEF WorkerInv, HeldBehind
<1>10. HeldBehind(w)'
  BY <1>4, <1>6, <1>9, LocksDiffer DEF HeldBehind, AccountHeld,
    GuestHeld, AdvisoryHeld, RowHeld, AttributionHeld
<1>11. SavePart(w)'
  BY <1>5, <1>7, <1>8, <1>10 DEF SavePart
<1> QED
  BY <1>3, <1>11, SaveKeeps

LEMMA LockRowKeeps ==
  ASSUME LockingInv, NEW w \in Workers, LockRow(w)
  PROVE  LockingInv'
<1> DEFINE t == txn[w].tx
           after == IF txn[w].owner \in Users THEN "attribution" ELSE "commit"
<1>1. txn[w].kind = "save" /\ txn[w].at = "row"
  BY DEF LockRow
<1>2. CASE Rollback(w)
  BY <1>2, RollbackKeeps
<1>3. CASE owner[t] = Nobody /\ Lock(w, {}, Step(w, "siblings"))
  BY <1>1, <1>3, CheckedKeeps
<1>4. CASE owner[t] = txn[w].owner /\ Lock(w, {Row(t)}, Step(w, after))
  BY <1>1, <1>4, CheckedKeeps
<1> QED
  BY <1>2, <1>3, <1>4 DEF LockRow, LockOrRefuse, Go, AfterOwnership

LEMMA CheckSiblingsKeeps ==
  ASSUME LockingInv, NEW w \in Workers, CheckSiblings(w)
  PROVE  LockingInv'
<1> DEFINE strangers == Strangers(Original[txn[w].tx], {txn[w].owner})
           after == IF txn[w].owner \in Users THEN "attribution" ELSE "commit"
<1>1. txn[w].kind = "save" /\ txn[w].at = "siblings"
  BY DEF CheckSiblings
<1>2. CASE Rollback(w)
  BY <1>2, RollbackKeeps
<1>3. CASE strangers = {} /\ Lock(w, {}, Step(w, after))
  <2>1. owner[txn[w].tx] = Nobody
    BY <1>1 DEF LockingInv, WorkerInv, SaveHasChecked
  <2> QED
    BY <1>1, <1>3, <2>1, CheckedKeeps
<1> QED
  BY <1>2, <1>3 DEF CheckSiblings, Go, AfterOwnership

LEMMA SaveAttributionKeeps ==
  ASSUME LockingInv, NEW w \in Workers, txn[w].kind = "save",
         LockAttribution(w)
  PROVE  LockingInv'
<1>1. TypeOK /\ WorkerInv(w)
  BY DEF LockingInv
<1>2. PICK locks \in SUBSET {Attribution(txn[w].owner)} :
        /\ locks # {} => txn[w].owner \in Attributed
        /\ Lock(w, locks, Step(w, "commit"))
  BY DEF LockAttribution, Go
<1>3. locks \in SUBSET Locks
  BY <1>2, LockingAssumption DEF Locks
<1>4. /\ txn'[w].kind = "save" /\ txn'[w].at = "commit"
      /\ txn'[w].owner = txn[w].owner /\ txn'[w].tx = txn[w].tx
      /\ held'[w] = held[w] \cup locks
      /\ UNCHANGED <<live, claimedBy, owner>>
  BY <1>1, <1>2, <1>3, SaveMove
<1>5. txn[w].at = "attribution"
  BY DEF LockAttribution
<1>6. SaveHoldsOwner(w)' /\ SaveHoldsOriginal(w)' /\ SaveHasChecked(w)'
  BY <1>1, <1>4, <1>5 DEF WorkerInv, SaveHoldsOwner, SaveHoldsOriginal,
    SaveHasChecked, Strangers
<1>7. AccountHeld(w) /\ GuestHeld(w) /\ AdvisoryHeld(w) /\ RowHeld(w)
      /\ AttributionHeld(w)
  BY <1>1 DEF WorkerInv, HeldBehind
<1>8. HeldBehind(w)'
  BY <1>2, <1>4, <1>5, <1>7, LocksDiffer DEF HeldBehind, AccountHeld,
    GuestHeld, AdvisoryHeld, RowHeld, AttributionHeld
<1>9. SavePart(w)'
  BY <1>6, <1>8 DEF SavePart
<1> QED
  BY <1>2, <1>3, <1>9, SaveKeeps

-----------------------------------------------------------------------------
(***************************************************************************)
(* The commits: what another connection has read under its locks stays.    *)
(***************************************************************************)

\* The parts of v's invariant that speak of the tables.
Reads(v) == /\ SaveHoldsOwner(v) /\ SaveHasChecked(v)
            /\ ClaimHoldsAccount(v) /\ ClaimHoldsGuest(v)
            /\ ClaimHoldsOriginals(v) /\ DeleteHoldsAccount(v)

LEMMA ReadsSuffice ==
  ASSUME LockingInv, NEW w \in Workers, End(w),
         NEW v \in Workers \ {w}, Reads(v)'
  PROVE  WorkerInv(v)'
<1>1. txn'[v] = txn[v] /\ held'[v] = held[v]
  BY OthersStay
<1>2. WorkerInv(v)
  BY DEF LockingInv
<1> QED
  BY <1>1, <1>2 DEF WorkerInv, Reads, SaveHoldsOriginal, HeldBehind,
    AccountHeld, GuestHeld, AdvisoryHeld, RowHeld, AttributionHeld

\* A lock held by w is not held by another connection.
LEMMA OneHolder ==
  ASSUME LockingInv, NEW w \in Workers, NEW v \in Workers \ {w},
         NEW l \in held[w]
  PROVE  l \notin held[v]
BY DEF LockingInv, Exclusive

LEMMA CommitSaveKeeps ==
  ASSUME LockingInv, NEW w \in Workers, CommitSave(w)
  PROVE  LockingInv'
<1> DEFINE t == txn[w].tx
           o == txn[w].owner
<1>1. TypeOK /\ WorkerInv(w)
  BY DEF LockingInv
<1>2. /\ txn[w].kind = "save" /\ txn[w].at = "commit"
      /\ owner' = [owner EXCEPT ![t] = o]
      /\ UNCHANGED <<live, claimedBy, session>>
      /\ End(w)
  BY DEF CommitSave
<1>3. t \in Tx /\ o \in Owners
  BY <1>1, <1>2, Kinds DEF SaveTxn
<1>4. /\ Advisory(Original[t]) \in held[w]
      /\ o \in Guests => Guest(o) \in held[w]
      /\ owner[t] \in {o, Nobody}
  BY <1>1, <1>2 DEF WorkerInv, SaveHoldsOwner, SaveHoldsOriginal,
    SaveHasChecked
<1>5. /\ live' \subseteq Users
      /\ claimedBy' \in [Guests -> Users \cup {Nobody}]
      /\ owner' \in [Tx -> Owners \cup {Nobody}]
      /\ session' \subseteq Guests
  BY <1>1, <1>2, <1>3 DEF TypeOK
<1>6. ASSUME NEW v \in Workers \ {w} PROVE Reads(v)'
  <2>1. WorkerInv(v) /\ v \in Workers
    BY DEF LockingInv
  <2>2. txn'[v] = txn[v] /\ held'[v] = held[v]
    BY <1>2, OthersStay
  <2>3. SaveHoldsOwner(v)' /\ ClaimHoldsAccount(v)' /\ ClaimHoldsGuest(v)'
        /\ DeleteHoldsAccount(v)'
    BY <1>2, <2>1, <2>2 DEF WorkerInv, SaveHoldsOwner, ClaimHoldsAccount,
      ClaimHoldsGuest, DeleteHoldsAccount
  <2>4. SaveHasChecked(v)'
    <3>1. CASE txn[v].kind = "save"
               /\ txn[v].at \in {"siblings", "attribution", "commit"}
      <4>1. txn[v].tx \in Tx
        BY <2>1, <3>1, <1>1, Kinds DEF SaveTxn
      <4>2. Original[txn[v].tx] # Original[t]
        BY <1>4, <2>1, <3>1, OneHolder DEF WorkerInv, SaveHoldsOriginal
      <4>3. owner'[txn[v].tx] = owner[txn[v].tx]
        BY <1>1, <1>2, <4>1, <4>2 DEF TypeOK
      <4>4. Strangers(Original[txn[v].tx], {txn[v].owner})'
              = Strangers(Original[txn[v].tx], {txn[v].owner})
        BY <1>1, <1>2, <2>2, <4>2 DEF Strangers, TypeOK
      <4> QED
        BY <2>1, <2>2, <4>3, <4>4 DEF WorkerInv, SaveHasChecked
    <3> QED
      BY <2>2, <3>1 DEF SaveHasChecked
  <2>5. ClaimHoldsOriginals(v)'
    <3>1. CASE txn[v].kind = "claim"
               /\ txn[v].at \notin {"account", "guest", "originals"}
      <4>1. txn[v].guest \in Guests
        BY <2>1, <3>1, <1>1, Kinds DEF ClaimTxn
      <4>2. Guest(txn[v].guest) \in held[v]
        BY <2>1, <3>1 DEF WorkerInv, ClaimHoldsGuest
      <4>3. txn[v].guest # o
        BY <1>4, <4>1, <4>2, OneHolder
      <4>4. txn[v].guest # Nobody
        BY <4>1, LockingAssumption
      <4>5. OwnedBy(txn[v].guest)' = OwnedBy(txn[v].guest)
        BY <1>1, <1>2, <1>4, <2>2, <4>3, <4>4 DEF OwnedBy, TypeOK
      <4> QED
        BY <2>1, <2>2, <4>5 DEF WorkerInv, ClaimHoldsOriginals
    <3> QED
      BY <2>2, <3>1 DEF ClaimHoldsOriginals
  <2> QED
    BY <2>3, <2>4, <2>5 DEF Reads
<1>7. \A v \in Workers \ {w} : WorkerInv(v)'
  BY <1>2, <1>6, ReadsSuffice
<1> QED
  BY <1>2, <1>5, <1>7, EndKeeps

LEMMA CommitClaimKeeps ==
  ASSUME LockingInv, NEW w \in Workers, CommitClaim(w)
  PROVE  LockingInv'
<1> DEFINE g == txn[w].guest
           u == txn[w].owner
<1>1. TypeOK /\ WorkerInv(w)
  BY DEF LockingInv
<1>2. /\ txn[w].kind = "claim" /\ txn[w].at = "commit"
      /\ owner' = [t \in Tx |-> IF owner[t] = g THEN u ELSE owner[t]]
      /\ claimedBy' = [claimedBy EXCEPT ![g] = u]
      /\ session' = session \ {g}
      /\ live' = live
      /\ End(w)
  BY DEF CommitClaim
<1>3. g \in Guests /\ u \in Users /\ g # Nobody
  BY <1>1, <1>2, Kinds, LockingAssumption DEF ClaimTxn
<1>4. Guest(g) \in held[w]
  BY <1>1, <1>2 DEF WorkerInv, ClaimHoldsGuest
<1>5. /\ live' \subseteq Users
      /\ claimedBy' \in [Guests -> Users \cup {Nobody}]
      /\ owner' \in [Tx -> Owners \cup {Nobody}]
      /\ session' \subseteq Guests
  BY <1>1, <1>2, <1>3 DEF TypeOK, Owners
<1>6. ASSUME NEW v \in Workers \ {w} PROVE Reads(v)'
  <2>1. WorkerInv(v) /\ v \in Workers
    BY DEF LockingInv
  <2>2. txn'[v] = txn[v] /\ held'[v] = held[v]
    BY <1>2, OthersStay
  <2>3. ClaimHoldsAccount(v)' /\ DeleteHoldsAccount(v)'
    BY <1>2, <2>1, <2>2 DEF WorkerInv, ClaimHoldsAccount, DeleteHoldsAccount
  <2>4. SaveHoldsOwner(v)' /\ SaveHasChecked(v)'
    <3>1. CASE txn[v].kind = "save" /\ txn[v].at # "owner"
      <4>1. txn[v].tx \in Tx /\ txn[v].owner \in Owners
        BY <2>1, <3>1, <1>1, Kinds DEF SaveTxn
      <4>2. txn[v].owner # g
        BY <1>3, <1>4, <2>1, <3>1, OneHolder DEF WorkerInv, SaveHoldsOwner
      <4>3. SaveHoldsOwner(v)'
        BY <1>1, <1>2, <2>1, <2>2, <4>2
        DEF WorkerInv, SaveHoldsOwner, TypeOK
      <4>4. owner[txn[v].tx] # g => owner'[txn[v].tx] = owner[txn[v].tx]
        BY <1>2, <4>1
      <4>5. Strangers(Original[txn[v].tx], {txn[v].owner}) = {}
              => Strangers(Original[txn[v].tx], {txn[v].owner})' = {}
        BY <1>2, <1>3, <2>2, <4>2 DEF Strangers
      <4>6. SaveHasChecked(v)'
        BY <1>3, <2>1, <2>2, <4>2, <4>4, <4>5 DEF WorkerInv, SaveHasChecked
      <4> QED
        BY <4>3, <4>6
    <3> QED
      BY <2>2, <3>1 DEF SaveHoldsOwner, SaveHasChecked
  <2>5. ClaimHoldsGuest(v)' /\ ClaimHoldsOriginals(v)'
    <3>1. CASE txn[v].kind = "claim" /\ txn[v].at \notin {"account", "guest"}
      <4>1. txn[v].guest \in Guests
        BY <2>1, <3>1, <1>1, Kinds DEF ClaimTxn
      <4>2. Guest(txn[v].guest) \in held[v] /\ txn[v].guest # g
        BY <1>4, <2>1, <3>1, OneHolder DEF WorkerInv, ClaimHoldsGuest
      <4>3. ClaimHoldsGuest(v)'
        BY <1>1, <1>2, <2>1, <2>2, <4>1, <4>2
        DEF WorkerInv, ClaimHoldsGuest, TypeOK
      <4>4. txn[v].guest # u
        BY <1>3, <4>1, LockingAssumption
      <4>5. OwnedBy(txn[v].guest)' = OwnedBy(txn[v].guest)
        BY <1>2, <2>2, <4>2, <4>4 DEF OwnedBy
      <4>6. ClaimHoldsOriginals(v)'
        BY <2>1, <2>2, <4>5 DEF WorkerInv, ClaimHoldsOriginals
      <4> QED
        BY <4>3, <4>6
    <3> QED
      BY <2>2, <3>1 DEF ClaimHoldsGuest, ClaimHoldsOriginals
  <2> QED
    BY <2>3, <2>4, <2>5 DEF Reads
<1>7. \A v \in Workers \ {w} : WorkerInv(v)'
  BY <1>2, <1>6, ReadsSuffice
<1> QED
  BY <1>2, <1>5, <1>7, EndKeeps

LEMMA CommitDeleteKeeps ==
  ASSUME LockingInv, NEW w \in Workers, CommitDelete(w)
  PROVE  LockingInv'
<1> DEFINE u == txn[w].owner
<1>1. TypeOK /\ WorkerInv(w)
  BY DEF LockingInv
<1>2. /\ txn[w].kind = "delete" /\ txn[w].at = "cascade"
      /\ live' = live \ {u}
      /\ owner' = [t \in Tx |-> IF owner[t] = u THEN Nobody ELSE owner[t]]
      /\ claimedBy' = [g \in Guests |-> IF claimedBy[g] = u
                                          THEN Nobody ELSE claimedBy[g]]
      /\ session' = session
      /\ End(w)
  BY DEF CommitDelete
<1>3. u \in Users /\ u # Nobody
  BY <1>1, <1>2, Kinds, LockingAssumption DEF DeleteTxn
<1>4. Account(u) \in held[w]
  BY <1>1, <1>2 DEF WorkerInv, DeleteHoldsAccount
<1>5. /\ live' \subseteq Users
      /\ claimedBy' \in [Guests -> Users \cup {Nobody}]
      /\ owner' \in [Tx -> Owners \cup {Nobody}]
      /\ session' \subseteq Guests
  BY <1>1, <1>2, <1>3 DEF TypeOK
<1>6. ASSUME NEW v \in Workers \ {w} PROVE Reads(v)'
  <2>1. WorkerInv(v) /\ v \in Workers
    BY DEF LockingInv
  <2>2. txn'[v] = txn[v] /\ held'[v] = held[v]
    BY <1>2, OthersStay
  <2>3. Account(u) \notin held[v]
    BY <1>4, OneHolder
  <2>4. ClaimHoldsAccount(v)' /\ DeleteHoldsAccount(v)'
    BY <1>2, <2>1, <2>2, <2>3
    DEF WorkerInv, ClaimHoldsAccount, DeleteHoldsAccount
  <2>5. SaveHoldsOwner(v)' /\ SaveHasChecked(v)'
    <3>1. CASE txn[v].kind = "save" /\ txn[v].at # "owner"
      <4>1. txn[v].tx \in Tx /\ txn[v].owner \in Owners
        BY <2>1, <3>1, <1>1, Kinds DEF SaveTxn
      <4>2. txn[v].owner # u
        BY <1>3, <2>1, <2>3, <3>1 DEF WorkerInv, SaveHoldsOwner
      <4>3. SaveHoldsOwner(v)'
        BY <1>2, <1>3, <2>1, <2>2, <4>2 DEF WorkerInv, SaveHoldsOwner
      <4>4. owner[txn[v].tx] # u => owner'[txn[v].tx] = owner[txn[v].tx]
        BY <1>2, <4>1
      <4>5. Strangers(Original[txn[v].tx], {txn[v].owner}) = {}
              => Strangers(Original[txn[v].tx], {txn[v].owner})' = {}
        BY <1>2, <2>2 DEF Strangers
      <4>6. SaveHasChecked(v)'
        BY <1>3, <2>1, <2>2, <4>2, <4>4, <4>5 DEF WorkerInv, SaveHasChecked
      <4> QED
        BY <4>3, <4>6
    <3> QED
      BY <2>2, <3>1 DEF SaveHoldsOwner, SaveHasChecked
  <2>6. ClaimHoldsGuest(v)' /\ ClaimHoldsOriginals(v)'
    <3>1. CASE txn[v].kind = "claim"
      <4>1. txn[v].guest \in Guests
        BY <2>1, <3>1, <1>1, Kinds DEF ClaimTxn
      <4>2. txn[v].guest \notin {u, Nobody}
        BY <1>3, <4>1, LockingAssumption
      <4>3. ClaimHoldsGuest(v)'
        BY <1>2, <1>3, <2>1, <2>2, <4>1 DEF WorkerInv, ClaimHoldsGuest
      <4>4. OwnedBy(txn[v].guest)' = OwnedBy(txn[v].guest)
        BY <1>2, <2>2, <4>2 DEF OwnedBy
      <4>5. ClaimHoldsOriginals(v)'
        BY <2>1, <2>2, <4>4 DEF WorkerInv, ClaimHoldsOriginals
      <4> QED
        BY <4>3, <4>5
    <3> QED
      BY <2>2, <3>1 DEF ClaimHoldsGuest, ClaimHoldsOriginals
  <2> QED
    BY <2>4, <2>5, <2>6 DEF Reads
<1>7. \A v \in Workers \ {w} : WorkerInv(v)'
  BY <1>2, <1>6, ReadsSuffice
<1> QED
  BY <1>2, <1>5, <1>7, EndKeeps

-----------------------------------------------------------------------------
(***************************************************************************)
(* claim, statement by statement.                                          *)
(***************************************************************************)

ClaimPart(w) == /\ ClaimHoldsAccount(w) /\ ClaimHoldsGuest(w)
                /\ ClaimHoldsOriginals(w) /\ HeldBehind(w)

\* A claim goes on as x.
LEMMA ClaimKeeps ==
  ASSUME LockingInv, NEW w \in Workers, NEW x \in ClaimTxn,
         NEW locks \in SUBSET Locks, Lock(w, locks, x), ClaimPart(w)'
  PROVE  LockingInv'
<1>1. x \in Txn
  BY TxnKinds
<1>2. txn'[w] = x /\ x.kind = "claim"
  BY DEF LockingInv, TypeOK, Lock, ClaimTxn
<1>3. txn'[w].kind = "claim" /\ txn'[w] # None
  BY <1>2 DEF None
<1>4. WorkerInv(w)'
  BY <1>3 DEF WorkerInv, ClaimPart, SaveHoldsOwner, SaveHoldsOriginal,
    SaveHasChecked, DeleteHoldsAccount
<1> QED
  BY <1>1, <1>4, LockKeeps DEF Lock

\* The parts of HeldBehind, for a claim.
LEMMA ClaimHeld ==
  ASSUME NEW w, WorkerInv(w), txn[w].kind = "claim"
  PROVE  /\ AccountHeld(w) /\ GuestHeld(w) /\ AdvisoryHeld(w)
         /\ RowHeld(w) /\ AttributionHeld(w)
BY DEF WorkerInv, HeldBehind

LEMMA LockClaimantKeeps ==
  ASSUME LockingInv, NEW w \in Workers, LockClaimant(w)
  PROVE  LockingInv'
<1> DEFINE u == txn[w].owner
<1>1. TypeOK /\ WorkerInv(w)
  BY DEF LockingInv
<1>2. txn[w].kind = "claim" /\ txn[w].at = "account" /\ txn[w] \in ClaimTxn
  BY <1>1, Kinds DEF LockClaimant
<1>3. CASE Rollback(w)
  BY <1>3, RollbackKeeps
<1>4. CASE u \in live /\ Lock(w, {Account(u)}, Step(w, "guest"))
  <2>1. {Account(u)} \in SUBSET Locks
    BY <1>2 DEF Locks, ClaimTxn
  <2>2. Step(w, "guest") \in ClaimTxn
    BY <1>2 DEF ClaimTxn, Step
  <2>3. /\ txn'[w].kind = "claim" /\ txn'[w].at = "guest"
        /\ txn'[w].owner = u
        /\ txn'[w].todo = txn[w].todo
        /\ held'[w] = held[w] \cup {Account(u)}
        /\ live' = live /\ claimedBy' = claimedBy /\ owner' = owner
    BY <1>1, <1>2, <1>4 DEF Lock, tables, Step, ClaimTxn, TypeOK
  <2>4. ClaimHoldsAccount(w)' /\ ClaimHoldsGuest(w)' /\ ClaimHoldsOriginals(w)'
    BY <1>4, <2>3 DEF ClaimHoldsAccount, ClaimHoldsGuest, ClaimHoldsOriginals
  <2>5. HeldBehind(w)'
    <3>1. /\ AccountHeld(w) /\ GuestHeld(w) /\ AdvisoryHeld(w)
          /\ RowHeld(w) /\ AttributionHeld(w)
      BY <1>1, <1>2, ClaimHeld
    <3>2. AccountHeld(w)'
      BY <1>2, <2>3, <3>1, LocksDiffer DEF AccountHeld
    <3>3. GuestHeld(w)'
      BY <1>2, <2>3, <3>1, LocksDiffer DEF GuestHeld
    <3>4. AdvisoryHeld(w)'
      BY <1>2, <2>3, <3>1, LocksDiffer DEF AdvisoryHeld
    <3>5. RowHeld(w)'
      BY <1>2, <2>3, <3>1, LocksDiffer DEF RowHeld
    <3>6. AttributionHeld(w)'
      BY <1>2, <2>3, <3>1, LocksDiffer DEF AttributionHeld
    <3> QED
      BY <3>2, <3>3, <3>4, <3>5, <3>6 DEF HeldBehind
  <2>6. ClaimPart(w)'
    BY <2>4, <2>5 DEF ClaimPart
  <2> QED
    BY <1>4, <2>1, <2>2, <2>6, ClaimKeeps
<1> QED
  BY <1>3, <1>4 DEF LockClaimant, LockOrRefuse

LEMMA LockGuestKeeps ==
  ASSUME LockingInv, NEW w \in Workers, LockGuest(w)
  PROVE  LockingInv'
<1> DEFINE g == txn[w].guest
<1>1. TypeOK /\ WorkerInv(w)
  BY DEF LockingInv
<1>2. txn[w].kind = "claim" /\ txn[w].at = "guest" /\ txn[w] \in ClaimTxn
  BY <1>1, Kinds DEF LockGuest
<1>3. CASE Rollback(w)
  BY <1>3, RollbackKeeps
<1>4. CASE claimedBy[g] = Nobody /\ Lock(w, {Guest(g)}, Step(w, "originals"))
  <2>1. {Guest(g)} \in SUBSET Locks
    BY <1>2 DEF Locks, ClaimTxn
  <2>2. Step(w, "originals") \in ClaimTxn
    BY <1>2 DEF ClaimTxn, Step
  <2>3. /\ txn'[w].kind = "claim" /\ txn'[w].at = "originals"
        /\ txn'[w].owner = txn[w].owner /\ txn'[w].guest = g
        /\ txn'[w].todo = txn[w].todo
        /\ held'[w] = held[w] \cup {Guest(g)}
        /\ live' = live /\ claimedBy' = claimedBy /\ owner' = owner
    BY <1>1, <1>2, <1>4 DEF Lock, tables, Step, ClaimTxn, TypeOK
  <2>4. ClaimHoldsAccount(w)'
    BY <1>1, <1>2, <2>3 DEF WorkerInv, ClaimHoldsAccount
  <2>5. ClaimHoldsGuest(w)' /\ ClaimHoldsOriginals(w)'
    BY <1>4, <2>3 DEF ClaimHoldsGuest, ClaimHoldsOriginals
  <2>6. HeldBehind(w)'
    <3>1. /\ AccountHeld(w) /\ GuestHeld(w) /\ AdvisoryHeld(w)
          /\ RowHeld(w) /\ AttributionHeld(w)
      BY <1>1, <1>2, ClaimHeld
    <3>2. AccountHeld(w)'
      BY <1>2, <2>3, <3>1, LocksDiffer DEF AccountHeld
    <3>3. GuestHeld(w)'
      BY <1>2, <2>3, <3>1, LocksDiffer DEF GuestHeld
    <3>4. AdvisoryHeld(w)'
      BY <1>2, <2>3, <3>1, LocksDiffer DEF AdvisoryHeld
    <3>5. RowHeld(w)'
      BY <1>2, <2>3, <3>1, LocksDiffer DEF RowHeld
    <3>6. AttributionHeld(w)'
      BY <1>2, <2>3, <3>1, LocksDiffer DEF AttributionHeld
    <3> QED
      BY <3>2, <3>3, <3>4, <3>5, <3>6 DEF HeldBehind
  <2>7. ClaimPart(w)'
    BY <2>4, <2>5, <2>6 DEF ClaimPart
  <2> QED
    BY <1>4, <2>1, <2>2, <2>7, ClaimKeeps
<1> QED
  BY <1>3, <1>4 DEF LockGuest, LockOrRefuse

LEMMA ReadOriginalsKeeps ==
  ASSUME LockingInv, NEW w \in Workers, ReadOriginals(w)
  PROVE  LockingInv'
<1> DEFINE g == txn[w].guest
           todo == {Original[t] : t \in OwnedBy(g)}
<1>1. TypeOK /\ WorkerInv(w)
  BY DEF LockingInv
<1>2. txn[w].kind = "claim" /\ txn[w].at = "originals" /\ txn[w] \in ClaimTxn
  BY <1>1, Kinds DEF ReadOriginals
<1>3. CASE Rollback(w)
  BY <1>3, RollbackKeeps
<1>4. CASE /\ todo # {}
           /\ Lock(w, {}, [txn[w] EXCEPT !.at = "advisory", !.todo = todo])
  <2>1. [txn[w] EXCEPT !.at = "advisory", !.todo = todo] \in ClaimTxn
    BY <1>2 DEF OwnedBy, Originals, ClaimTxn
  <2>2. /\ txn'[w].kind = "claim" /\ txn'[w].at = "advisory"
        /\ txn'[w].owner = txn[w].owner /\ txn'[w].guest = g
        /\ txn'[w].todo = todo
        /\ held'[w] = held[w]
        /\ live' = live /\ claimedBy' = claimedBy /\ owner' = owner
    BY <1>1, <1>2, <1>4 DEF Lock, tables, ClaimTxn, TypeOK
  <2>3. ClaimHoldsAccount(w)' /\ ClaimHoldsGuest(w)'
    BY <1>1, <1>2, <2>2 DEF WorkerInv, ClaimHoldsAccount, ClaimHoldsGuest
  <2>4. OwnedBy(g) # {} /\ OwnedBy(txn[w].guest)' = OwnedBy(g)
    BY <1>4, <2>2 DEF OwnedBy
  <2>5. ClaimHoldsOriginals(w)'
    BY <2>2, <2>4 DEF ClaimHoldsOriginals
  <2>6. \A o \in Originals : Advisory(o) \notin held[w]
    BY <1>1, <1>2, ClaimHeld DEF AdvisoryHeld
  <2>7. HeldBehind(w)'
    <3>1. /\ AccountHeld(w) /\ GuestHeld(w) /\ AdvisoryHeld(w)
          /\ RowHeld(w) /\ AttributionHeld(w)
      BY <1>1, <1>2, ClaimHeld
    <3>2. AccountHeld(w)'
      BY <1>2, <2>2, <3>1, <2>6 DEF AccountHeld
    <3>3. GuestHeld(w)'
      BY <1>2, <2>2, <3>1, <2>6 DEF GuestHeld
    <3>4. AdvisoryHeld(w)'
      BY <1>2, <2>2, <3>1, <2>6 DEF AdvisoryHeld
    <3>5. RowHeld(w)'
      BY <1>2, <2>2, <3>1, <2>6 DEF RowHeld
    <3>6. AttributionHeld(w)'
      BY <1>2, <2>2, <3>1, <2>6 DEF AttributionHeld
    <3> QED
      BY <3>2, <3>3, <3>4, <3>5, <3>6 DEF HeldBehind
  <2>8. ClaimPart(w)'
    BY <2>3, <2>5, <2>7 DEF ClaimPart
  <2> QED
    BY <1>4, <2>1, <2>8, ClaimKeeps
<1> QED
  BY <1>3, <1>4 DEF ReadOriginals, Go

\* A claim that leaves its account, its guest and what they own alone.
LEMMA ClaimGoesOn ==
  ASSUME LockingInv, NEW w \in Workers, NEW x \in ClaimTxn,
         txn[w].kind = "claim",
         txn[w].at \notin {"account", "guest", "originals"},
         x.owner = txn[w].owner, x.guest = txn[w].guest,
         x.at \notin {"account", "guest", "originals"},
         NEW locks \in SUBSET Locks, Lock(w, locks, x),
         \A t \in OwnedBy(x.guest) : Original[t] \in x.todo
                                     \/ Advisory(Original[t])
                                          \in held[w] \cup locks,
         x.at = "conflict" => /\ x.todo # {}
                              /\ Advisory(First(x.todo)) \in held[w] \cup locks,
         x.at \notin {"advisory", "conflict"} => x.todo = {},
         HeldBehind(w)'
  PROVE  LockingInv'
<1>1. TypeOK /\ WorkerInv(w)
  BY DEF LockingInv
<1>2. /\ txn'[w] = x /\ held'[w] = held[w] \cup locks
      /\ live' = live /\ claimedBy' = claimedBy /\ owner' = owner
  BY <1>1 DEF Lock, tables, TypeOK
<1>3. ClaimHoldsAccount(w)' /\ ClaimHoldsGuest(w)'
  BY <1>1, <1>2 DEF WorkerInv, ClaimHoldsAccount, ClaimHoldsGuest
<1>4. OwnedBy(x.guest) # {} /\ OwnedBy(txn[w].guest)' = OwnedBy(x.guest)
  BY <1>1, <1>2 DEF WorkerInv, ClaimHoldsOriginals, OwnedBy
<1>5. ClaimHoldsOriginals(w)'
  BY <1>2, <1>4 DEF ClaimHoldsOriginals
<1>6. ClaimPart(w)'
  BY <1>3, <1>5 DEF ClaimPart
<1> QED
  BY <1>6, ClaimKeeps

LEMMA LockNextOriginalKeeps ==
  ASSUME LockingInv, NEW w \in Workers, LockNextOriginal(w)
  PROVE  LockingInv'
<1> DEFINE todo == txn[w].todo
<1>1. TypeOK /\ WorkerInv(w)
  BY DEF LockingInv
<1>2. /\ txn[w].kind = "claim" /\ txn[w].at = "advisory"
      /\ txn[w] \in ClaimTxn /\ todo \in SUBSET Originals
  BY <1>1, Kinds DEF LockNextOriginal, ClaimTxn
<1>3. \A t \in OwnedBy(txn[w].guest) :
        Original[t] \in todo \/ Advisory(Original[t]) \in held[w]
  BY <1>1, <1>2 DEF WorkerInv, ClaimHoldsOriginals
<1>4. CASE todo = {} /\ Lock(w, {}, Step(w, "rows"))
  <2>1. /\ Step(w, "rows") \in ClaimTxn
        /\ Step(w, "rows").owner = txn[w].owner
        /\ Step(w, "rows").guest = txn[w].guest
        /\ Step(w, "rows").todo = {}
        /\ Step(w, "rows").at = "rows"
    BY <1>2, <1>4 DEF ClaimTxn, Step
  <2>2. txn'[w] = Step(w, "rows") /\ held'[w] = held[w]
    BY <1>1, <1>4 DEF Lock, TypeOK
  <2>3. HeldBehind(w)'
    BY <1>1, <1>2, <2>1, <2>2, ClaimHeld DEF HeldBehind,
      AccountHeld, GuestHeld, AdvisoryHeld, RowHeld, AttributionHeld
  <2> QED
    BY <1>2, <1>3, <1>4, <2>1, <2>3, ClaimGoesOn
<1>5. CASE /\ todo # {}
           /\ Lock(w, {Advisory(First(todo))}, Step(w, "conflict"))
  <2>1. /\ Step(w, "conflict") \in ClaimTxn
        /\ Step(w, "conflict").owner = txn[w].owner
        /\ Step(w, "conflict").guest = txn[w].guest
        /\ Step(w, "conflict").todo = todo
        /\ Step(w, "conflict").at = "conflict"
        /\ Step(w, "conflict").kind = "claim"
    BY <1>2, <1>5 DEF ClaimTxn, Step
  <2>2. First(todo) \in todo /\ \A p \in todo : First(todo) <= p
    BY <1>2, <1>5, FirstIsLeast
  <2>3. /\ txn'[w] = Step(w, "conflict")
        /\ held'[w] = held[w] \cup {Advisory(First(todo))}
    BY <1>1, <1>5 DEF Lock, TypeOK
  <2>4. /\ AccountHeld(w) /\ GuestHeld(w) /\ AdvisoryHeld(w)
        /\ RowHeld(w) /\ AttributionHeld(w)
    BY <1>1, <1>2, ClaimHeld
  <2>5. /\ txn'[w].kind = "claim" /\ txn'[w].at = "conflict"
        /\ txn'[w].owner = txn[w].owner /\ txn'[w].todo = todo
    BY <2>1, <2>3
  <2>6. \A o : Advisory(o) \in held'[w] =>
                 Advisory(o) \in held[w] \/ o = First(todo)
    BY <2>3, LocksDiffer
  <2>7. AdvisoryHeld(w)'
    <3> SUFFICES ASSUME NEW o \in Originals, Advisory(o) \in held'[w]
                 PROVE  \A p \in todo : o <= p
      BY <2>5 DEF AdvisoryHeld
    <3>1. CASE Advisory(o) \in held[w]
      BY <1>2, <2>4, <3>1 DEF AdvisoryHeld
    <3>2. CASE o = First(todo)
      BY <2>2, <3>2
    <3> QED
      BY <2>6, <3>1, <3>2
  <2>8. AccountHeld(w)' /\ GuestHeld(w)' /\ RowHeld(w)' /\ AttributionHeld(w)'
    BY <1>2, <2>3, <2>4, <2>5, LocksDiffer DEF AccountHeld,
      GuestHeld, RowHeld, AttributionHeld
  <2>9. HeldBehind(w)'
    BY <2>7, <2>8 DEF HeldBehind
  <2>10. {Advisory(First(todo))} \in SUBSET Locks
    BY <1>2, <2>2 DEF Locks
  <2> QED
    BY <1>2, <1>3, <1>5, <2>1, <2>9, <2>10, ClaimGoesOn
<1> QED
  BY <1>4, <1>5 DEF LockNextOriginal, Go

LEMMA CheckConflictKeeps ==
  ASSUME LockingInv, NEW w \in Workers, CheckConflict(w)
  PROVE  LockingInv'
<1> DEFINE todo == txn[w].todo
           o == First(todo)
           x == [txn[w] EXCEPT !.at = "advisory", !.todo = @ \ {o}]
<1>1. TypeOK /\ WorkerInv(w)
  BY DEF LockingInv
<1>2. /\ txn[w].kind = "claim" /\ txn[w].at = "conflict"
      /\ txn[w] \in ClaimTxn /\ todo \in SUBSET Originals
  BY <1>1, Kinds DEF CheckConflict, ClaimTxn
<1>3. CASE Rollback(w)
  BY <1>3, RollbackKeeps
<1>4. CASE Lock(w, {}, x)
  <2>1. /\ x \in ClaimTxn
        /\ x.owner = txn[w].owner
        /\ x.guest = txn[w].guest
        /\ x.todo = todo \ {o}
        /\ x.at = "advisory"
        /\ x.kind = "claim"
    BY <1>2 DEF ClaimTxn
  <2>2. /\ todo # {} /\ Advisory(o) \in held[w]
        /\ \A t \in OwnedBy(txn[w].guest) :
             Original[t] \in todo \/ Advisory(Original[t]) \in held[w]
    BY <1>1, <1>2 DEF WorkerInv, ClaimHoldsOriginals
  <2>3. o \in todo /\ (\A p \in todo : o <= p) /\ todo \subseteq Nat
    BY <1>2, <2>2, FirstIsLeast, LockingAssumption DEF Originals
  <2>4. txn'[w] = x /\ held'[w] = held[w]
    BY <1>1, <1>4 DEF Lock, TypeOK
  <2>5. AdvisoryHeld(w)'
    <3> SUFFICES ASSUME NEW p \in Originals, Advisory(p) \in held[w]
                 PROVE  (\A q \in todo \ {o} : p <= q) /\ p \notin todo \ {o}
      BY <2>1, <2>4 DEF AdvisoryHeld
    <3>1. \A q \in todo : p <= q
      BY <1>1, <1>2, ClaimHeld DEF AdvisoryHeld
    <3>2. p \in todo => p = o
      <4> SUFFICES ASSUME p \in todo PROVE p = o
        OBVIOUS
      <4>1. p <= o /\ o <= p /\ p \in Nat /\ o \in Nat
        BY <2>3, <3>1
      <4> QED
        BY <4>1
    <3> QED
      BY <3>1, <3>2
  <2>6. HeldBehind(w)'
    BY <1>1, <1>2, <2>1, <2>4, <2>5, ClaimHeld DEF HeldBehind,
      AccountHeld, GuestHeld, RowHeld, AttributionHeld
  <2>7. \A t \in OwnedBy(x.guest) :
          Original[t] \in x.todo \/ Advisory(Original[t]) \in held[w] \cup {}
    BY <2>1, <2>2
  <2> HIDE DEF x
  <2> QED
    BY <1>2, <1>4, <2>1, <2>6, <2>7, ClaimGoesOn
<1> QED
  BY <1>3, <1>4 DEF CheckConflict, Go

LEMMA LockGuestRowsKeeps ==
  ASSUME LockingInv, NEW w \in Workers, LockGuestRows(w)
  PROVE  LockingInv'
<1> DEFINE x == Step(w, "attribution")
           locks == {Row(t) : t \in OwnedBy(txn[w].guest)}
<1>1. TypeOK /\ WorkerInv(w)
  BY DEF LockingInv
<1>2. /\ txn[w].kind = "claim" /\ txn[w].at = "rows"
      /\ txn[w] \in ClaimTxn /\ Lock(w, locks, x)
  BY <1>1, Kinds DEF LockGuestRows
<1>3. /\ txn[w].todo = {}
      /\ \A t \in OwnedBy(txn[w].guest) : Advisory(Original[t]) \in held[w]
  BY <1>1, <1>2 DEF WorkerInv, ClaimHoldsOriginals
<1>4. /\ x \in ClaimTxn
      /\ x.owner = txn[w].owner
      /\ x.guest = txn[w].guest
      /\ x.todo = {}
      /\ x.at = "attribution"
      /\ x.kind = "claim"
  BY <1>2, <1>3 DEF ClaimTxn, Step
<1>5. txn'[w] = x /\ held'[w] = held[w] \cup locks
  BY <1>1, <1>2 DEF Lock, TypeOK
<1>6. locks \in SUBSET Locks
  BY DEF Locks, OwnedBy
<1>7. RowHeld(w)'
  BY <1>1, <1>2, <1>3, <1>5, ClaimHeld, LocksDiffer DEF RowHeld
<1>8. HeldBehind(w)'
  BY <1>1, <1>2, <1>4, <1>5, <1>7, ClaimHeld, LocksDiffer DEF HeldBehind,
    AccountHeld, GuestHeld, AdvisoryHeld, AttributionHeld
<1> QED
  BY <1>2, <1>3, <1>4, <1>6, <1>8, ClaimGoesOn

LEMMA ClaimAttributionKeeps ==
  ASSUME LockingInv, NEW w \in Workers, txn[w].kind = "claim",
         LockAttribution(w)
  PROVE  LockingInv'
<1> DEFINE x == Step(w, "commit")
<1>1. TypeOK /\ WorkerInv(w)
  BY DEF LockingInv
<1>2. PICK locks \in SUBSET {Attribution(txn[w].owner)} :
        /\ locks # {} => txn[w].owner \in Attributed
        /\ Lock(w, locks, x)
  BY DEF LockAttribution, Go
<1>3. txn[w].at = "attribution" /\ txn[w] \in ClaimTxn
  BY <1>1, Kinds DEF LockAttribution
<1>4. /\ txn[w].todo = {}
      /\ \A t \in OwnedBy(txn[w].guest) : Advisory(Original[t]) \in held[w]
  BY <1>1, <1>3 DEF WorkerInv, ClaimHoldsOriginals
<1>5. /\ x \in ClaimTxn
      /\ x.owner = txn[w].owner
      /\ x.guest = txn[w].guest
      /\ x.todo = {}
      /\ x.at = "commit"
      /\ x.kind = "claim"
  BY <1>3, <1>4 DEF ClaimTxn, Step
<1>6. txn'[w] = x /\ held'[w] = held[w] \cup locks
  BY <1>1, <1>2 DEF Lock, TypeOK
<1>7. locks \in SUBSET Locks
  BY <1>2, LockingAssumption DEF Locks
<1>8. /\ AccountHeld(w) /\ GuestHeld(w) /\ AdvisoryHeld(w)
      /\ RowHeld(w) /\ AttributionHeld(w)
  BY <1>1, <1>2, ClaimHeld DEF LockAttribution
<1>9. /\ txn'[w].kind = "claim" /\ txn'[w].at = "commit"
      /\ txn'[w].owner = txn[w].owner /\ txn'[w].todo = {}
  BY <1>5, <1>6
<1>10. \A l \in held'[w] : l \in held[w] \/ l = Attribution(txn[w].owner)
  BY <1>2, <1>6
<1>11. AccountHeld(w)' /\ GuestHeld(w)' /\ RowHeld(w)'
  BY <1>3, <1>6, <1>8, <1>9, <1>10, LocksDiffer DEF AccountHeld,
    GuestHeld, RowHeld
<1>12. AdvisoryHeld(w)'
  BY <1>3, <1>8, <1>9, <1>10, LocksDiffer DEF AdvisoryHeld
<1>13. AttributionHeld(w)'
  BY <1>8, <1>9, <1>10, LocksDiffer DEF AttributionHeld
<1>14. HeldBehind(w)'
  BY <1>11, <1>12, <1>13 DEF HeldBehind
<1> QED
  BY <1>2, <1>3, <1>4, <1>5, <1>7, <1>14, ClaimGoesOn

-----------------------------------------------------------------------------
(***************************************************************************)
(* delete, statement by statement.                                         *)
(***************************************************************************)

\* A deletion goes on as x.
LEMMA DeleteKeeps ==
  ASSUME LockingInv, NEW w \in Workers, NEW x \in DeleteTxn,
         NEW locks \in SUBSET Locks, Lock(w, locks, x),
         DeleteHoldsAccount(w)'
  PROVE  LockingInv'
<1>1. x \in Txn
  BY TxnKinds
<1>2. txn'[w] = x /\ x.kind = "delete"
  BY DEF LockingInv, TypeOK, Lock, DeleteTxn
<1>3. txn'[w].kind = "delete" /\ txn'[w] # None
  BY <1>2 DEF None
<1>4. WorkerInv(w)'
  BY <1>3 DEF WorkerInv, SaveHoldsOwner, SaveHoldsOriginal, SaveHasChecked,
    ClaimHoldsAccount, ClaimHoldsGuest, ClaimHoldsOriginals, HeldBehind
<1> QED
  BY <1>1, <1>4, LockKeeps DEF Lock

LEMMA AnonymizeAttributionKeeps ==
  ASSUME LockingInv, NEW w \in Workers, AnonymizeAttribution(w)
  PROVE  LockingInv'
<1> DEFINE locks == IF txn[w].owner \in Attributed
                      THEN {Attribution(txn[w].owner)} ELSE {}
<1>1. TypeOK
  BY DEF LockingInv
<1>2. txn[w] \in DeleteTxn /\ Lock(w, locks, Step(w, "account"))
  BY <1>1, Kinds DEF AnonymizeAttribution
<1>3. Step(w, "account") \in DeleteTxn /\ Step(w, "account").at = "account"
  BY <1>2 DEF DeleteTxn, Step
<1>4. locks \in SUBSET Locks
  BY LockingAssumption DEF Locks
<1>5. DeleteHoldsAccount(w)'
  BY <1>1, <1>2, <1>3 DEF Lock, TypeOK, DeleteHoldsAccount
<1> QED
  BY <1>2, <1>3, <1>4, <1>5, DeleteKeeps

LEMMA LockDeletedKeeps ==
  ASSUME LockingInv, NEW w \in Workers, LockDeleted(w)
  PROVE  LockingInv'
<1> DEFINE u == txn[w].owner
<1>1. TypeOK
  BY DEF LockingInv
<1>2. txn[w] \in DeleteTxn
  BY <1>1, Kinds DEF LockDeleted
<1>3. CASE Rollback(w)
  BY <1>3, RollbackKeeps
<1>4. CASE u \in live /\ Lock(w, {Account(u)}, Step(w, "cascade"))
  <2>1. Step(w, "cascade") \in DeleteTxn /\ Step(w, "cascade").owner = u
    BY <1>2 DEF DeleteTxn, Step
  <2>2. {Account(u)} \in SUBSET Locks
    BY <1>2 DEF Locks, DeleteTxn
  <2>3. DeleteHoldsAccount(w)'
    BY <1>1, <1>4, <2>1 DEF Lock, tables, TypeOK, DeleteHoldsAccount
  <2> QED
    BY <1>4, <2>1, <2>2, <2>3, DeleteKeeps
<1> QED
  BY <1>3, <1>4 DEF LockDeleted, LockOrRefuse

-----------------------------------------------------------------------------
LEMMA LockingInvInit == Init => LockingInv
<1> SUFFICES ASSUME Init PROVE LockingInv
  OBVIOUS
<1>1. TypeOK
  BY TxnKinds DEF Init, TypeOK
<1>2. \A w \in Workers : WorkerInv(w)
  BY IdleInv DEF Init
<1>3. Open = {}
  BY DEF Init, Open
<1> QED
  BY <1>1, <1>2, <1>3, FS_EmptySet DEF LockingInv, Init, Exclusive

LEMMA LockingInvNext == LockingInv /\ [Next]_vars => LockingInv'
<1> SUFFICES ASSUME LockingInv, [Next]_vars PROVE LockingInv'
  OBVIOUS
<1>1. ASSUME NEW w \in Workers, LockAttribution(w) PROVE LockingInv'
  BY <1>1, SaveAttributionKeeps, ClaimAttributionKeeps DEF LockAttribution
<1>2. ASSUME NEW w \in Workers, WorkerStep(w) PROVE LockingInv'
  BY <1>1, <1>2, LockOwnerKeeps, LockOriginalKeeps, LockRowKeeps,
    CheckSiblingsKeeps, CommitSaveKeeps, LockClaimantKeeps, LockGuestKeeps,
    ReadOriginalsKeeps, LockNextOriginalKeeps, CheckConflictKeeps,
    LockGuestRowsKeeps, CommitClaimKeeps, AnonymizeAttributionKeeps,
    LockDeletedKeeps, CommitDeleteKeeps DEF WorkerStep
<1>3. CASE UNCHANGED vars
  <2>1. /\ live' = live /\ claimedBy' = claimedBy /\ owner' = owner
        /\ session' = session /\ txn' = txn /\ held' = held
    BY <1>3 DEF vars, tables
  <2> QED
    BY <2>1 DEF LockingInv, TypeOK, Open, Exclusive, WorkerInv,
      SaveHoldsOwner, SaveHoldsOriginal, SaveHasChecked, ClaimHoldsAccount,
      ClaimHoldsGuest, ClaimHoldsOriginals, DeleteHoldsAccount, HeldBehind,
      AccountHeld, GuestHeld, AdvisoryHeld, RowHeld, AttributionHeld,
      Strangers, OwnedBy
<1> QED
  BY <1>2, <1>3, BeginKeeps, FailKeeps DEF Next

\* Between two statements every connection holds the locks of the statements
\* behind it, no other connection holds one of them, and what it has read
\* under them still holds.
THEOREM LocksProtect == Spec => []LockingInv
BY LockingInvInit, LockingInvNext, PTL DEF Spec

\* TypeOK: the tables, the open transactions and their locks stay in their
\* domains.
THEOREM TypeCorrect == Spec => []TypeOK
<1>1. LockingInv => TypeOK
  BY DEF LockingInv
<1> QED
  BY <1>1, LocksProtect, PTL

-----------------------------------------------------------------------------
(***************************************************************************)
(* The transactions implement the promise.                                 *)
(***************************************************************************)

LEMMA PromiseInit == Init => Promise!Init
BY DEF Init, Promise!Init

\* A commit is the promised step, or changes nothing.
LEMMA SaveIsRecord ==
  ASSUME LockingInv, NEW w \in Workers, CommitSave(w)
  PROVE  \/ UNCHANGED Promise!vars
         \/ \E t \in Tx, o \in Owners : Promise!Record(t, o)
<1> DEFINE t == txn[w].tx
           o == txn[w].owner
<1>1. TypeOK /\ WorkerInv(w)
  BY DEF LockingInv
<1>2. /\ txn[w].kind = "save" /\ txn[w].at = "commit"
      /\ owner' = [owner EXCEPT ![t] = o]
      /\ live' = live /\ claimedBy' = claimedBy
  BY DEF CommitSave
<1>3. t \in Tx /\ o \in Owners
  BY <1>1, <1>2, Kinds DEF SaveTxn
<1>4. CASE owner[t] = o
  <2>1. owner' = owner
    BY <1>1, <1>2, <1>3, <1>4 DEF TypeOK
  <2> QED
    BY <1>2, <2>1 DEF Promise!vars
<1>5. CASE owner[t] = Nobody /\ Strangers(Original[t], {o}) = {}
  <2>1. Promise!MayOwn(o)
    BY <1>1, <1>2, <1>3
    DEF WorkerInv, SaveHoldsOwner, Owners, Promise!MayOwn
  <2>2. \A s \in Promise!Siblings(t) : owner[s] \in {o, Nobody}
    BY <1>5 DEF Strangers, Promise!Siblings
  <2>3. Promise!Record(t, o)
    BY <1>2, <1>5, <2>1, <2>2 DEF Promise!Record
  <2> QED
    BY <1>3, <2>3
<1> QED
  BY <1>1, <1>2, <1>4, <1>5 DEF WorkerInv, SaveHasChecked

LEMMA ClaimIsClaim ==
  ASSUME LockingInv, NEW w \in Workers, CommitClaim(w)
  PROVE  \E g \in Guests, u \in Users : Promise!Claim(g, u)
<1> DEFINE g == txn[w].guest
           u == txn[w].owner
<1>1. TypeOK /\ WorkerInv(w)
  BY DEF LockingInv
<1>2. /\ txn[w].kind = "claim" /\ txn[w].at = "commit"
      /\ owner' = [t \in Tx |-> IF owner[t] = g THEN u ELSE owner[t]]
      /\ claimedBy' = [claimedBy EXCEPT ![g] = u]
      /\ live' = live
  BY DEF CommitClaim
<1>3. g \in Guests /\ u \in Users
  BY <1>1, <1>2, Kinds DEF ClaimTxn
<1>4. u \in live /\ claimedBy[g] = Nobody /\ OwnedBy(g) # {}
  BY <1>1, <1>2 DEF WorkerInv, ClaimHoldsAccount, ClaimHoldsGuest,
    ClaimHoldsOriginals
<1>5. Promise!Claim(g, u)
  BY <1>2, <1>4 DEF Promise!Claim, Promise!OwnedBy, OwnedBy
<1> QED
  BY <1>3, <1>5

LEMMA DeleteIsDelete ==
  ASSUME LockingInv, NEW w \in Workers, CommitDelete(w)
  PROVE  \E u \in Users : Promise!Delete(u)
<1> DEFINE u == txn[w].owner
<1>1. TypeOK /\ WorkerInv(w)
  BY DEF LockingInv
<1>2. txn[w].kind = "delete" /\ txn[w].at = "cascade"
  BY DEF CommitDelete
<1>3. u \in Users /\ u \in live
  BY <1>1, <1>2, Kinds DEF DeleteTxn, WorkerInv, DeleteHoldsAccount
<1>4. Promise!Delete(u)
  BY <1>3 DEF CommitDelete, Promise!Delete
<1> QED
  BY <1>3, <1>4

\* No other statement changes what the promise speaks of.
LEMMA StatementsStutter ==
  ASSUME NEW w \in Workers,
         \/ Begin(w) \/ Fail(w)
         \/ /\ WorkerStep(w)
            /\ ~CommitSave(w) /\ ~CommitClaim(w) /\ ~CommitDelete(w)
  PROVE  UNCHANGED Promise!vars
<1>1. UNCHANGED tables
  BY DEF Begin, Fail, WorkerStep, LockOwner, LockOriginal, LockRow,
    CheckSiblings, LockAttribution, LockClaimant, LockGuest, ReadOriginals,
    LockNextOriginal, CheckConflict, LockGuestRows, AnonymizeAttribution,
    LockDeleted, LockOrRefuse, Rollback, Go, Lock, tables
<1> QED
  BY <1>1 DEF tables, Promise!vars

LEMMA StepsKeepPromise ==
  ASSUME LockingInv, [Next]_vars
  PROVE  [Promise!Next]_(Promise!vars)
<1>1. ASSUME NEW w \in Workers, Begin(w) \/ Fail(w) \/ WorkerStep(w)
      PROVE  [Promise!Next]_(Promise!vars)
  BY <1>1, SaveIsRecord, ClaimIsClaim, DeleteIsDelete, StatementsStutter
  DEF Promise!Next, Promise!Owners, Owners
<1>2. CASE UNCHANGED vars
  BY <1>2 DEF vars, tables, Promise!vars
<1> QED
  BY <1>1, <1>2 DEF Next

\* Implements: interleaved statement by statement, with failures and
\* rollbacks anywhere, the transactions record, move and delete ownership
\* only as OwnershipPromise allows.
THEOREM PromiseKept == Spec => Implements
<1>1. Spec => Promise!Init /\ [][Promise!Next]_(Promise!vars)
  BY PromiseInit, StepsKeepPromise, LocksProtect, PTL DEF Spec
<1> QED
  BY <1>1 DEF Implements, Promise!Spec

\* All the recorded transactions of a subscription belong to one owner.
OneOwner ==
  \A t, s \in Tx : Original[t] = Original[s] =>
    owner[t] = owner[s] \/ Nobody \in {owner[t], owner[s]}

LEMMA PromiseKeepsOneOwner ==
  ASSUME TypeOK, OneOwner, [Promise!Next]_(Promise!vars)
  PROVE  OneOwner'
<1>1. ASSUME NEW t \in Tx, NEW o \in Owners, Promise!Record(t, o)
      PROVE  OneOwner'
  <2>1. owner' = [owner EXCEPT ![t] = o]
    BY <1>1 DEF Promise!Record
  <2>2. \A s \in Tx : Original[s] = Original[t] => owner[s] \in {o, Nobody}
    BY <1>1 DEF Promise!Record, Promise!Siblings
  <2> QED
    BY <2>1, <2>2 DEF OneOwner, TypeOK
<1>2. ASSUME NEW g \in Guests, NEW u \in Users, Promise!Claim(g, u)
      PROVE  OneOwner'
  <2>1. owner' = [t \in Tx |-> IF owner[t] = g THEN u ELSE owner[t]]
    BY <1>2 DEF Promise!Claim
  <2>2. g # Nobody
    BY LockingAssumption
  <2> QED
    BY <2>1, <2>2 DEF OneOwner
<1>3. ASSUME NEW u \in Users, Promise!Delete(u)
      PROVE  OneOwner'
  <2>1. owner' = [t \in Tx |-> IF owner[t] = u THEN Nobody ELSE owner[t]]
    BY <1>3 DEF Promise!Delete
  <2> QED
    BY <2>1 DEF OneOwner
<1>4. CASE UNCHANGED Promise!vars
  BY <1>4 DEF Promise!vars, OneOwner
<1> QED
  BY <1>1, <1>2, <1>3, <1>4 DEF Promise!Next, Promise!Owners, Owners

\* A save and a claim of the same subscription never leave it divided
\* between two owners, however their statements interleave.
THEOREM SubscriptionsUndivided == Spec => []OneOwner
<1>1. Init => OneOwner
  BY DEF Init, OneOwner
<1>2. LockingInv /\ OneOwner /\ [Next]_vars => OneOwner'
  BY StepsKeepPromise, PromiseKeepsOneOwner DEF LockingInv
<1> QED
  BY <1>1, <1>2, LocksProtect, PTL DEF Spec

-----------------------------------------------------------------------------
(***************************************************************************)
(* Saves and claims never deadlock.                                        *)
(***************************************************************************)

\* A finite set of natural numbers with a member has a greatest one: of the
\* subsets without one, a smallest would lose a member and have one.
LEMMA FiniteHasGreatest ==
  ASSUME NEW S \in SUBSET Nat, IsFiniteSet(S), S # {}
  PROVE  \E m \in S : \A n \in S : n <= m
<1> DEFINE Bad(T) == T # {} /\ \A m \in T : \E n \in T : ~(n <= m)
           Sizes == {Cardinality(T) : T \in {U \in SUBSET S : Bad(U)}}
<1>1. SUFFICES ASSUME Bad(S) PROVE FALSE
  OBVIOUS
<1>2. \A T \in SUBSET S : IsFiniteSet(T) /\ Cardinality(T) \in Nat
  BY FS_Subset, FS_CardinalityType
<1>3. Sizes \subseteq Nat /\ Sizes # {}
  BY <1>1, <1>2
<1>4. \E n \in Sizes : \A m \in Sizes : <<m, n>> \notin OpToRel(<, Nat)
  BY <1>3, NatLessThanWellFounded, WFMin
<1>5. PICK n \in Sizes : \A m \in Sizes : ~(m < n)
  BY <1>3, <1>4 DEF OpToRel
<1>6. PICK T \in SUBSET S : Bad(T) /\ Cardinality(T) = n
  BY <1>5
<1>7. PICK x \in T : TRUE
  BY <1>6
<1> DEFINE R == T \ {x}
<1>8. /\ R \in SUBSET S /\ IsFiniteSet(R)
      /\ Cardinality(R) = Cardinality(T) - 1
  BY <1>2, <1>7, FS_RemoveElement
<1>9. Cardinality(R) < n
  BY <1>2, <1>6, <1>8
<1>10. ~Bad(R)
  BY <1>5, <1>8, <1>9
<1>11. PICK m \in T : \A k \in R : k <= m
  <2>1. CASE R = {}
    BY <2>1, <1>7
  <2>2. CASE R # {}
    BY <2>2, <1>10
  <2> QED
    BY <2>1, <2>2
<1>12. m \in Nat /\ x \in Nat
  BY <1>7
<1>13. CASE x <= m
  BY <1>6, <1>11, <1>13
<1>14. CASE m <= x
  <2>1. \A k \in T : k <= x
    <3> SUFFICES ASSUME NEW k \in T PROVE k <= x
      OBVIOUS
    <3>1. CASE k = x
      BY <1>12, <3>1
    <3>2. CASE k # x
      <4>1. k <= m /\ k \in Nat
        BY <1>11, <3>2
      <4> QED
        BY <1>12, <1>14, <4>1
    <3> QED
      BY <3>1, <3>2
  <2> QED
    BY <1>6, <1>7, <2>1
<1> QED
  BY <1>12, <1>13, <1>14

\* How far a save or a claim has come: it asks for locks in this order.
Rank(w) ==
  CASE txn[w].at \in {"owner", "account"} -> 0
    [] txn[w].at = "guest" -> 1
    [] txn[w].at = "advisory" /\ txn[w].kind = "save"
         -> 2 + Original[txn[w].tx]
    [] txn[w].at = "advisory" /\ txn[w].kind = "claim" /\ txn[w].todo # {}
         -> 2 + First(txn[w].todo)
    [] OTHER -> 0

SaveOrClaim == {w \in Workers : txn[w].kind \in {"save", "claim"}}

\* The owner's row is locked first, so the lock on its attribution is free.
LEMMA NobodyWaitsForAttribution ==
  ASSUME LockingInv, NEW w \in SaveOrClaim, NEW v \in SaveOrClaim,
         v # w, txn[w].at = "attribution"
  PROVE  Attribution(txn[w].owner) \notin held[v]
<1> SUFFICES ASSUME Attribution(txn[w].owner) \in held[v] PROVE FALSE
  OBVIOUS
<1> DEFINE u == txn[w].owner
<1>1. /\ TypeOK /\ WorkerInv(w) /\ WorkerInv(v)
      /\ w \in Workers /\ v \in Workers
  BY DEF LockingInv, SaveOrClaim
<1>2. held[v] \subseteq Locks
  BY <1>1 DEF TypeOK
<1>3. u \in Users
  BY <1>2, LocksDiffer DEF Locks
<1>4. u = txn[v].owner /\ txn[v].at = "commit"
  BY <1>1, <1>3 DEF WorkerInv, HeldBehind, AttributionHeld, SaveOrClaim
<1>5. Account(u) \in held[w] /\ Account(u) \in held[v]
  BY <1>1, <1>3, <1>4 DEF WorkerInv, SaveHoldsOwner, ClaimHoldsAccount,
    SaveOrClaim
<1> QED
  BY <1>1, <1>5 DEF LockingInv, Exclusive

\* Rows are asked for under the advisory lock of their original, and held
\* under it.
LEMMA NobodyWaitsForRow ==
  ASSUME LockingInv, NEW w \in SaveOrClaim, NEW v \in SaveOrClaim,
         v # w, NEW t \in Tx, Advisory(Original[t]) \in held[w]
  PROVE  Row(t) \notin held[v]
<1> SUFFICES ASSUME Row(t) \in held[v] PROVE FALSE
  OBVIOUS
<1>1. WorkerInv(v) /\ w \in Workers /\ v \in Workers
  BY DEF LockingInv, SaveOrClaim
<1>2. Advisory(Original[t]) \in held[v]
  BY <1>1 DEF WorkerInv, HeldBehind, RowHeld, SaveOrClaim
<1> QED
  BY <1>1, <1>2 DEF LockingInv, Exclusive

\* What a save or a claim asks for under its advisory locks.
LEMMA RowsAskedLocked ==
  ASSUME LockingInv, NEW w \in SaveOrClaim,
         txn[w].at \in {"row", "siblings", "conflict", "rows"},
         NEW l \in Asks(w)
  PROVE  \E t \in Tx : l = Row(t) /\ Advisory(Original[t]) \in held[w]
<1>1. TypeOK /\ WorkerInv(w) /\ w \in Workers
  BY DEF LockingInv, SaveOrClaim
<1>2. CASE txn[w].kind = "save"
  <2>1. txn[w] \in SaveTxn
    BY <1>1, <1>2, Kinds
  <2>2. /\ txn[w].at \in {"row", "siblings"}
        /\ txn[w].tx \in Tx
        /\ Advisory(Original[txn[w].tx]) \in held[w]
    BY <1>1, <1>2, <2>1 DEF SaveTxn, WorkerInv, SaveHoldsOriginal
  <2>3. CASE txn[w].at = "row"
    BY <2>2, <2>3 DEF Asks
  <2>4. CASE txn[w].at = "siblings"
    <3>1. Asks(w) = {Row(s) : s \in Strangers(Original[txn[w].tx],
                                              {txn[w].owner})}
      BY <2>4 DEF Asks
    <3> QED
      BY <2>2, <3>1 DEF Strangers
  <2> QED
    BY <2>2, <2>3, <2>4
<1>3. CASE txn[w].kind = "claim"
  <2>1. txn[w] \in ClaimTxn
    BY <1>1, <1>3, Kinds
  <2>2. txn[w].at \in {"conflict", "rows"}
    BY <2>1 DEF ClaimTxn
  <2>3. CASE txn[w].at = "conflict"
    <3>1. Asks(w) = {Row(s) : s \in Strangers(First(txn[w].todo),
                                              {txn[w].owner, txn[w].guest})}
      BY <2>3 DEF Asks
    <3>2. Advisory(First(txn[w].todo)) \in held[w]
      BY <1>1, <1>3, <2>3 DEF WorkerInv, ClaimHoldsOriginals
    <3> QED
      BY <3>1, <3>2 DEF Strangers
  <2>4. CASE txn[w].at = "rows"
    <3>1. Asks(w) = {Row(t) : t \in OwnedBy(txn[w].guest)}
      BY <2>4 DEF Asks
    <3>2. \A t \in OwnedBy(txn[w].guest) : Advisory(Original[t]) \in held[w]
      BY <1>1, <1>3, <2>4 DEF WorkerInv, ClaimHoldsOriginals
    <3> QED
      BY <3>1, <3>2 DEF OwnedBy
  <2> QED
    BY <2>2, <2>3, <2>4
<1> QED
  BY <1>2, <1>3 DEF SaveOrClaim

\* A save or a claim waits only for the account, the guest and the advisory
\* locks of others.
LEMMA WhatIsWaitedFor ==
  ASSUME LockingInv, NEW w \in SaveOrClaim, NEW v \in SaveOrClaim,
         WaitsFor(w, v)
  PROVE  \/ /\ txn[w].at \in {"owner", "account"} /\ Rank(w) = 0
            /\ \/ \E u \in Users : Account(u) \in held[v]
               \/ \E g \in Guests : Guest(g) \in held[v]
         \/ /\ txn[w].at = "guest" /\ Rank(w) = 1
            /\ \E g \in Guests : Guest(g) \in held[v]
         \/ /\ txn[w].at = "advisory"
            /\ \E o \in Originals :
                 /\ Rank(w) = 2 + o
                 /\ Advisory(o) \in held[v]
                 /\ txn[w].kind = "claim" => o \in txn[w].todo
<1>1. /\ TypeOK /\ w \in Workers /\ v \in Workers /\ v # w
      /\ held[v] \subseteq Locks
  BY DEF LockingInv, SaveOrClaim, WaitsFor, TypeOK
<1>2. PICK l \in Asks(w) : l \in held[v]
  BY DEF WaitsFor
<1>3. l \in Locks
  BY <1>1, <1>2
<1>4. /\ txn[w].kind \in {"save", "claim"}
      /\ txn[w].kind = "save" => txn[w] \in SaveTxn
      /\ txn[w].kind = "claim" => txn[w] \in ClaimTxn
  BY <1>1, Kinds DEF SaveOrClaim
<1>5. CASE txn[w].at = "owner"
  <2>1. l \in {Account(txn[w].owner), Guest(txn[w].owner)} /\ Rank(w) = 0
    BY <1>2, <1>5 DEF Asks, Rank
  <2>2. \/ \E u \in Users : l = Account(u)
        \/ \E g \in Guests : l = Guest(g)
    BY <1>3, <2>1, LocksDiffer DEF Locks
  <2> QED
    BY <1>2, <1>5, <2>1, <2>2
<1>6. CASE txn[w].at = "account"
  <2>1. l = Account(txn[w].owner) /\ Rank(w) = 0
    BY <1>2, <1>6 DEF Asks, Rank
  <2>2. txn[w].owner \in Users
    BY <1>4, <1>6 DEF SaveTxn, ClaimTxn
  <2> QED
    BY <1>2, <1>6, <2>1, <2>2
<1>7. CASE txn[w].at = "guest"
  <2>1. l = Guest(txn[w].guest) /\ Rank(w) = 1
    BY <1>2, <1>7 DEF Asks, Rank
  <2>2. txn[w].guest \in Guests
    BY <1>4, <1>7 DEF SaveTxn, ClaimTxn
  <2> QED
    BY <1>2, <1>7, <2>1, <2>2
<1>8. CASE txn[w].at = "advisory" /\ txn[w].kind = "save"
  <2>1. /\ l = Advisory(Original[txn[w].tx])
        /\ Rank(w) = 2 + Original[txn[w].tx]
    BY <1>2, <1>8 DEF Asks, Rank
  <2>2. Original[txn[w].tx] \in Originals
    BY <1>4, <1>8 DEF SaveTxn, Originals
  <2> QED
    BY <1>2, <1>8, <2>1, <2>2
<1>9. CASE txn[w].at = "advisory" /\ txn[w].kind = "claim"
  <2>1. txn[w].todo # {}
    BY <1>2, <1>9 DEF Asks
  <2>2. /\ l = Advisory(First(txn[w].todo))
        /\ Rank(w) = 2 + First(txn[w].todo)
    BY <1>2, <1>9, <2>1 DEF Asks, Rank
  <2>3. txn[w].todo \in SUBSET Originals
    BY <1>4, <1>9 DEF ClaimTxn
  <2>4. First(txn[w].todo) \in txn[w].todo
    BY <2>1, <2>3, FirstIsLeast
  <2> QED
    BY <1>2, <1>9, <2>2, <2>3, <2>4
<1>10. CASE txn[w].at \in {"row", "siblings", "conflict", "rows"}
  BY <1>1, <1>2, <1>10, RowsAskedLocked, NobodyWaitsForRow
<1>11. CASE txn[w].at = "attribution"
  <2>1. l = Attribution(txn[w].owner)
    BY <1>2, <1>11 DEF Asks
  <2> QED
    BY <1>1, <1>2, <1>11, <2>1, NobodyWaitsForAttribution
<1>12. CASE txn[w].at \in {"originals", "commit"}
  BY <1>2, <1>12 DEF Asks
<1>13. txn[w].at \in {"owner", "account", "guest", "originals", "advisory",
                      "row", "siblings", "conflict", "rows", "attribution",
                      "commit"}
  BY <1>4 DEF SaveTxn, ClaimTxn
<1> QED
  BY <1>4, <1>5, <1>6, <1>7, <1>8, <1>9, <1>10, <1>11, <1>12, <1>13

\* Who is waited for, and waits itself, waits further on.
LEMMA WaitingRises ==
  ASSUME LockingInv, NEW w \in SaveOrClaim, NEW v \in SaveOrClaim,
         NEW x \in SaveOrClaim, WaitsFor(w, v), WaitsFor(v, x)
  PROVE  Rank(w) \in Nat /\ Rank(v) \in Nat /\ Rank(w) < Rank(v)
<1>1. Originals \subseteq Nat
  BY LockingAssumption DEF Originals
<1>2. /\ AccountHeld(v) /\ GuestHeld(v) /\ AdvisoryHeld(v)
      /\ txn[v].kind \in {"save", "claim"}
  BY DEF LockingInv, WorkerInv, HeldBehind, SaveOrClaim
<1>3. \/ txn[v].at \in {"owner", "account"} /\ Rank(v) = 0
      \/ txn[v].at = "guest" /\ Rank(v) = 1
      \/ /\ txn[v].at = "advisory"
         /\ \E o \in Originals :
              /\ Rank(v) = 2 + o
              /\ txn[v].kind = "claim" => o \in txn[v].todo
  BY WhatIsWaitedFor
<1>4. CASE \E u \in Users : Account(u) \in held[v] /\ Rank(w) = 0
  <2>1. txn[v].at \notin {"owner", "account"}
    BY <1>2, <1>4 DEF AccountHeld
  <2> QED
    BY <1>1, <1>3, <1>4, <2>1
<1>5. CASE \E g \in Guests : Guest(g) \in held[v] /\ Rank(w) \in {0, 1}
  <2>1. txn[v].at \notin {"owner", "account", "guest"}
    BY <1>2, <1>5 DEF GuestHeld
  <2> QED
    BY <1>1, <1>3, <1>5, <2>1
<1>6. CASE \E o \in Originals : Rank(w) = 2 + o /\ Advisory(o) \in held[v]
  <2>1. PICK o \in Originals : Rank(w) = 2 + o /\ Advisory(o) \in held[v]
    BY <1>6
  <2>2. /\ txn[v].at \notin {"owner", "account", "guest"}
        /\ txn[v].kind = "save" => txn[v].at # "advisory"
        /\ txn[v].kind = "claim" =>
             /\ \A p \in txn[v].todo : o <= p
             /\ txn[v].at = "advisory" => o \notin txn[v].todo
    BY <1>2, <2>1 DEF AdvisoryHeld
  <2>3. PICK p \in Originals : Rank(v) = 2 + p /\ p \in txn[v].todo /\ p # o
    BY <1>2, <1>3, <2>2
  <2>4. o <= p
    BY <1>2, <1>3, <2>2, <2>3
  <2> QED
    BY <1>1, <2>1, <2>3, <2>4
<1> QED
  BY <1>4, <1>5, <1>6, WhatIsWaitedFor

\* SavesAndClaimsNeverDeadlock: in every group of open saves and claims one
\* waits for nobody in the group.  Accounts are locked before guests, guests
\* before advisory locks and those in the order of the original ids; rows and
\* attributions are only asked for under the locks of their originals and
\* accounts.
THEOREM SavesAndClaimsProgress == Spec => []SavesAndClaimsNeverDeadlock
<1>1. ASSUME LockingInv, NEW group \in SUBSET SaveOrClaim, group # {},
             \A w \in group : \E v \in group : WaitsFor(w, v)
      PROVE  FALSE
  <2> DEFINE ranks == {Rank(w) : w \in group}
  <2>1. \A w \in group : \E v \in group :
          Rank(w) \in Nat /\ Rank(v) \in Nat /\ Rank(w) < Rank(v)
    BY <1>1, WaitingRises
  <2>2. ranks \subseteq Nat /\ ranks # {}
    BY <1>1, <2>1
  <2>3. IsFiniteSet(ranks)
    <3>1. group \subseteq Open
      BY <1>1, Kinds DEF SaveOrClaim, Open, LockingInv
    <3>2. IsFiniteSet(group)
      BY <1>1, <3>1, FS_Subset DEF LockingInv
    <3>3. [w \in group |-> Rank(w)] \in Surjection(group, ranks)
      BY DEF Surjection
    <3> QED
      BY <3>2, <3>3, FS_Surjection
  <2>4. PICK m \in ranks : \A n \in ranks : n <= m
    BY <2>2, <2>3, FiniteHasGreatest
  <2>5. PICK w \in group : Rank(w) = m
    BY <2>4
  <2>6. PICK v \in group : Rank(v) \in Nat /\ m < Rank(v)
    BY <2>1, <2>5
  <2>7. Rank(v) <= m /\ m \in Nat
    BY <2>2, <2>4
  <2> QED
    BY <2>6, <2>7
<1>2. LockingInv => SavesAndClaimsNeverDeadlock
  <2> SUFFICES ASSUME LockingInv, NEW group \in (SUBSET SaveOrClaim) \ {{}}
               PROVE  \E w \in group : \A v \in group : ~WaitsFor(w, v)
    BY DEF SavesAndClaimsNeverDeadlock, SaveOrClaim
  <2>1. group \in SUBSET SaveOrClaim /\ group # {}
    OBVIOUS
  <2>2. ~\A w \in group : \E v \in group : WaitsFor(w, v)
    BY <1>1, <2>1
  <2> QED
    BY <2>2
<1> QED
  BY <1>2, LocksProtect, PTL
=============================================================================
