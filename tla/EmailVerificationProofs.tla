----------------------- MODULE EmailVerificationProofs -----------------------
(***************************************************************************)
(* Proofs about EmailVerification, for every number of concurrent resends, *)
(* attempts, rows and accounts: a resend invalidates what was there, no    *)
(* code outlives its account, and a code outlives a bounded number of      *)
(* wrong attempts.                                                         *)
(***************************************************************************)
EXTENDS EmailVerification, FiniteSetTheorems, TLAPS

\* Rows that a transaction has seen carry ids of the past, so that a row
\* inserted later is not among them.
SeenInv ==
  /\ \A w \in Resenders : resend[w] # Idle => resend[w].before \subseteq 1 .. lastId
  /\ \A i \in DOMAIN tokens : tokens[i].before \subseteq 1 .. lastId

\* Once a resend has run its UPDATE, the rows that were there when it began
\* are used or among those it will have invalidated.
UpdatedInv ==
  \A w \in Resenders : resend[w].step = "update" =>
    \A i \in resend[w].before \cap DOMAIN tokens :
      tokens[i].used \/ i \in resend[w].seen

\* Without an account there is no row.
NobodyInv == account.id = 0 => account = NoAccount /\ DOMAIN tokens = {}

\* What a step that inserts no row keeps of each row: its account, the rows
\* its transaction had seen, and that it was used.
Kept ==
  /\ DOMAIN tokens' = DOMAIN tokens
  /\ \A i \in DOMAIN tokens :
       /\ tokens'[i].account = tokens[i].account
       /\ tokens'[i].before = tokens[i].before
       /\ tokens[i].used => tokens'[i].used

IInv ==
  TypeOK /\ SeenInv /\ UpdatedInv /\ NobodyInv /\ ResendInvalidates /\ NoOrphanCodes

-----------------------------------------------------------------------------
(***************************************************************************)
(* Type correctness, one lemma per step that writes a row.                 *)
(***************************************************************************)
LEMMA RegisterType == TypeOK /\ Register => TypeOK'
  BY EmailAssumption
     DEF TypeOK, Register, Create, NoAccount, Token, Ids, Resend, Idle

\* A resend under way is not idle: its record has all its fields.
Busy ==
  [step: {"read", "update"}, account: 1 .. MaxAccounts,
   created: 1 .. MaxTokens, seen: SUBSET Ids, before: SUBSET Ids]

LEMMA BusyStep ==
  ASSUME TypeOK, NEW w \in Resenders, resend[w].step \in {"read", "update"}
  PROVE  resend[w] \in Busy /\ resend[w] # Idle
<1>1. Idle.step = "idle"
  BY DEF Idle
<1> QED
  BY <1>1 DEF TypeOK, Resend, Busy

LEMMA RowsInIds == TypeOK => DOMAIN tokens \subseteq Ids
  BY EmailAssumption DEF TypeOK, Ids

LEMMA BeginResendType ==
  ASSUME TypeOK, NobodyInv, NEW w \in Resenders, BeginResend(w)
  PROVE  TypeOK'
<1> DEFINE row == [step |-> "read", account |-> account.id, created |-> now + 1,
                   seen |-> {}, before |-> DOMAIN tokens]
<1>1. row.account \in 1 .. MaxAccounts
  BY DEF TypeOK, BeginResend, NobodyInv, NoAccount
<1>2. row \in Resend
  BY <1>1, RowsInIds, EmailAssumption DEF TypeOK, BeginResend, Resend
<1>3. resend' = [resend EXCEPT ![w] = row]
  BY DEF BeginResend
<1> HIDE DEF row
<1>4. resend' \in [Resenders -> Resend]
  BY <1>2, <1>3 DEF TypeOK
<1> QED
  BY <1>4, EmailAssumption DEF TypeOK, BeginResend

LEMMA InvalidateType ==
  ASSUME TypeOK, NEW w \in Resenders, Invalidate(w)
  PROVE  TypeOK'
<1> DEFINE row == [resend[w] EXCEPT !.step = "update", !.seen = Unused]
<1>1. resend[w] \in Busy
  BY BusyStep DEF Invalidate
<1>2. Unused \in SUBSET Ids
  BY RowsInIds DEF Unused
<1>3. row \in Busy
  BY <1>1, <1>2 DEF Busy
<1>4. resend' = [resend EXCEPT ![w] = row]
  BY DEF Invalidate, TypeOK
<1> HIDE DEF row
<1>5. resend' \in [Resenders -> Resend]
  BY <1>3, <1>4 DEF TypeOK, Busy, Resend
<1> QED
  BY <1>5 DEF TypeOK, Invalidate

\* Inserting a row keeps the types of the rows.
RowsTyped ==
  \A i \in DOMAIN tokens :
    /\ tokens[i] \in Token
    /\ tokens[i].attempts = MaxAttempts => tokens[i].locked
    /\ tokens[i].locked => tokens[i].used

LEMMA InsertType ==
  ASSUME TypeOK, lastId < MaxTokens, account.id \in 1 .. MaxAccounts,
         NEW invalidated, NEW date \in 1 .. MaxTokens, NEW known \in SUBSET Ids,
         Insert(invalidated, date, known)
  PROVE  /\ lastId' \in 0 .. MaxTokens /\ DOMAIN tokens' \subseteq 1 .. lastId'
         /\ RowsTyped'
         /\ DOMAIN tokens' = DOMAIN tokens \cup {lastId + 1} /\ lastId' = lastId + 1
         /\ tokens'[lastId + 1].account = account.id
         /\ tokens'[lastId + 1].before = known
         /\ \A i \in DOMAIN tokens :
              /\ i # lastId + 1
              /\ tokens'[i].account = tokens[i].account
              /\ tokens'[i].before = tokens[i].before
              /\ tokens[i].used \/ i \in invalidated => tokens'[i].used
<1> DEFINE row == [account |-> account.id, created |-> date, attempts |-> 0,
                   used |-> FALSE, locked |-> FALSE, expired |-> FALSE,
                   wrong |-> 0, before |-> known]
           dead(i) == [tokens[i] EXCEPT !.used = TRUE, !.locked = TRUE]
<1>1. /\ row \in Token /\ row.attempts # MaxAttempts /\ ~row.locked
      /\ row.account = account.id /\ row.before = known
  BY EmailAssumption DEF Token
<1>2. \A i \in DOMAIN tokens :
        /\ dead(i) \in Token /\ dead(i).used /\ dead(i).locked
        /\ dead(i).account = tokens[i].account
        /\ dead(i).before = tokens[i].before
  BY DEF TypeOK, Token
<1>3. /\ DOMAIN tokens' = DOMAIN tokens \cup {lastId + 1}
      /\ \A i \in DOMAIN tokens' :
           tokens'[i] = IF i = lastId + 1 THEN row
                        ELSE IF i \in invalidated THEN dead(i) ELSE tokens[i]
  BY Zenon DEF Insert
<1> HIDE DEF row, dead
<1>4. RowsTyped'
  BY <1>1, <1>2, <1>3 DEF TypeOK, RowsTyped
<1>5. lastId' = lastId + 1 /\ lastId \in 0 .. MaxTokens
      /\ DOMAIN tokens \subseteq 1 .. lastId
  BY DEF TypeOK, Insert
<1>6. lastId + 1 \notin DOMAIN tokens
  BY <1>5
<1>7. lastId' \in 0 .. MaxTokens /\ DOMAIN tokens' \subseteq 1 .. lastId'
  BY <1>3, <1>5, EmailAssumption
<1> QED
  BY <1>1, <1>2, <1>3, <1>4, <1>5, <1>6, <1>7

LEMMA CommitResendType ==
  ASSUME TypeOK, NEW w \in Resenders, CommitResend(w)
  PROVE  TypeOK'
<1>1. resend[w] \in Busy
  BY BusyStep DEF CommitResend
<1>2. resend' \in [Resenders -> Resend]
  BY DEF TypeOK, CommitResend, Resend
<1>3. CASE account.id = resend[w].account
  <2>1. Insert(resend[w].seen \cap Unused, resend[w].created, resend[w].before)
    BY <1>3 DEF CommitResend
  <2>2. account.id \in 1 .. MaxAccounts /\ resend[w].created \in 1 .. MaxTokens
        /\ resend[w].before \in SUBSET Ids
    BY <1>1, <1>3 DEF Busy
  <2>3. lastId' \in 0 .. MaxTokens /\ DOMAIN tokens' \subseteq 1 .. lastId'
        /\ RowsTyped'
    BY <2>1, <2>2, InsertType DEF CommitResend
  <2> QED
    BY <1>2, <2>3 DEF TypeOK, CommitResend, RowsTyped
<1>4. CASE account.id # resend[w].account
  BY <1>2, <1>4 DEF TypeOK, CommitResend
<1> QED
  BY <1>3, <1>4

\* Only the newest unused row can lose its last attempt, and then it is locked.
LEMMA CountedType ==
  ASSUME NEW t \in Token, t.attempts # MaxAttempts
  PROVE  /\ Counted(t) \in Token
         /\ Counted(t).attempts = MaxAttempts => Counted(t).locked
         /\ Counted(t).locked => Counted(t).used \/ t.locked
         /\ t.used => Counted(t).used
         /\ Counted(t).account = t.account /\ Counted(t).before = t.before
<1> DEFINE exceeded == t.attempts + 1 >= MaxAttempts
<1>1. Counted(t) = [t EXCEPT !.attempts = @ + 1, !.used = @ \/ exceeded,
                             !.locked = @ \/ exceeded]
  BY Zenon DEF Counted
<1>2. (t.used \/ exceeded) \in BOOLEAN /\ (t.locked \/ exceeded) \in BOOLEAN
  BY Zenon
<1>3. /\ t.attempts + 1 \in 0 .. MaxAttempts
      /\ t.attempts + 1 = MaxAttempts => exceeded
  BY EmailAssumption DEF Token
<1> HIDE DEF exceeded
<1>4. Counted(t) \in Token
  BY <1>1, <1>2, <1>3 DEF Token
<1>5. /\ Counted(t).attempts = t.attempts + 1
      /\ Counted(t).used = (t.used \/ exceeded)
      /\ Counted(t).locked = (t.locked \/ exceeded)
      /\ Counted(t).account = t.account /\ Counted(t).before = t.before
  BY <1>1 DEF Token
<1> QED
  BY <1>3, <1>4, <1>5, Zenon

LEMMA AttemptType ==
  ASSUME TypeOK, WrongAttempt
  PROVE  TypeOK' /\ Kept
<1>1. PICK latest \in DOMAIN tokens :
        /\ Newest(latest)
        /\ tokens' = [i \in DOMAIN tokens |->
             [(IF i = latest THEN Counted(tokens[i]) ELSE tokens[i])
                EXCEPT !.wrong = @ + 1]]
  BY DEF WrongAttempt
<1> DEFINE row(i) == IF i = latest THEN Counted(tokens[i]) ELSE tokens[i]
           more(t) == [t EXCEPT !.wrong = @ + 1]
<1>2. tokens[latest] \in Token /\ tokens[latest].attempts # MaxAttempts
  BY <1>1 DEF TypeOK, Newest, Unused
<1>3. ASSUME NEW i \in DOMAIN tokens
      PROVE  /\ row(i) \in Token
             /\ row(i).attempts = MaxAttempts => row(i).locked
             /\ row(i).locked => row(i).used
             /\ row(i).account = tokens[i].account
             /\ row(i).before = tokens[i].before
             /\ tokens[i].used => row(i).used
  BY <1>2, CountedType DEF TypeOK
<1>4. ASSUME NEW t \in Token
      PROVE  /\ more(t) \in Token /\ more(t).attempts = t.attempts
             /\ more(t).locked = t.locked /\ more(t).used = t.used
             /\ more(t).account = t.account /\ more(t).before = t.before
  BY DEF Token
<1>5. DOMAIN tokens' = DOMAIN tokens /\ \A i \in DOMAIN tokens : tokens'[i] = more(row(i))
  BY <1>1, Zenon
<1> HIDE DEF row, more
<1>6. RowsTyped' /\ Kept
  BY <1>3, <1>4, <1>5 DEF RowsTyped, Kept
<1> QED
  BY <1>5, <1>6 DEF TypeOK, WrongAttempt, RowsTyped

LEMMA VerifyType ==
  ASSUME TypeOK, NEW i \in DOMAIN tokens, Verify(i) \/ Expire(i)
  PROVE  TypeOK' /\ Kept
<1> DEFINE used(t) == [t EXCEPT !.used = TRUE]
           dead(t) == [t EXCEPT !.locked = TRUE, !.used = TRUE]
           old(t) == [t EXCEPT !.expired = TRUE]
<1>1. ASSUME NEW t \in Token
      PROVE  /\ used(t) \in Token /\ used(t).attempts = t.attempts
             /\ used(t).locked = t.locked /\ used(t).used
             /\ dead(t) \in Token /\ dead(t).locked /\ dead(t).used
             /\ old(t) \in Token /\ old(t).attempts = t.attempts
             /\ old(t).locked = t.locked /\ old(t).used = t.used
             /\ used(t).account = t.account /\ used(t).before = t.before
             /\ dead(t).account = t.account /\ dead(t).before = t.before
             /\ old(t).account = t.account /\ old(t).before = t.before
  BY DEF Token
<1>2. \/ tokens' = [tokens EXCEPT ![i] = dead(@)] /\ UNCHANGED account
      \/ /\ tokens' = [j \in DOMAIN tokens |-> used(tokens[j])]
         /\ account' = [account EXCEPT !.verified = TRUE]
      \/ tokens' = [tokens EXCEPT ![i] = old(@)] /\ UNCHANGED account
  BY DEF Verify, Expire, UseAll
<1> HIDE DEF used, dead, old
<1>3. DOMAIN tokens' = DOMAIN tokens
  BY <1>2
<1>4. RowsTyped' /\ Kept
  BY <1>1, <1>2 DEF TypeOK, RowsTyped, Kept
<1>5. account' \in [id: 0 .. MaxAccounts, verified: BOOLEAN, active: BOOLEAN]
  BY <1>2 DEF TypeOK
<1> QED
  BY <1>3, <1>4, <1>5 DEF TypeOK, Verify, Expire, RowsTyped

-----------------------------------------------------------------------------
(***************************************************************************)
(* The inductive invariant.                                                *)
(***************************************************************************)
LEMMA IInvInit == Init => IInv
  BY EmailAssumption
     DEF Init, IInv, TypeOK, SeenInv, UpdatedInv, NobodyInv, ResendInvalidates,
         NoOrphanCodes, NoAccount, Idle, Resend

LEMMA KeptInv ==
  ASSUME IInv, TypeOK', Kept, UNCHANGED <<lastId, resend>>,
         account'.id = account.id, account = NoAccount => account' = NoAccount
  PROVE  IInv'
  BY DEF IInv, Kept, SeenInv, UpdatedInv, NobodyInv, ResendInvalidates,
         NoOrphanCodes

\* A row that is inserted has an id nobody has seen, and every row its
\* transaction has seen is used.
LEMMA CommitResendInv ==
  ASSUME IInv, NEW w \in Resenders, CommitResend(w)
  PROVE  IInv'
<1>0. TypeOK
  BY DEF IInv
<1>1. TypeOK' /\ resend[w] \in Busy /\ resend[w] # Idle
  BY <1>0, CommitResendType, BusyStep DEF CommitResend
<1>2. \A v \in Resenders : resend'[v] = IF v = w THEN Idle ELSE resend[v]
  BY DEF CommitResend, IInv, TypeOK
<1>3. Idle.step # "update"
  BY DEF Idle
<1>4. CASE account.id # resend[w].account
  <2>1. UNCHANGED <<account, tokens, lastId>>
    BY <1>4 DEF CommitResend
  <2>2. SeenInv' /\ UpdatedInv'
    BY <1>2, <1>3, <2>1 DEF IInv, SeenInv, UpdatedInv
  <2> QED
    BY <1>1, <2>1, <2>2 DEF IInv, NobodyInv, ResendInvalidates, NoOrphanCodes
<1>5. CASE account.id = resend[w].account
  <2> DEFINE new == lastId + 1
  <2>1. /\ lastId < MaxTokens
        /\ Insert(resend[w].seen \cap Unused, resend[w].created, resend[w].before)
        /\ UNCHANGED account
    BY <1>5 DEF CommitResend
  <2>4. /\ account.id \in 1 .. MaxAccounts /\ resend[w].created \in 1 .. MaxTokens
        /\ resend[w].before \in SUBSET Ids
    BY <1>1, <1>5 DEF Busy
  <2>2. /\ DOMAIN tokens' = DOMAIN tokens \cup {new} /\ lastId' = new
        /\ tokens'[new].account = account.id
        /\ tokens'[new].before = resend[w].before
        /\ \A i \in DOMAIN tokens :
             /\ i # new
             /\ tokens'[i].account = tokens[i].account
             /\ tokens'[i].before = tokens[i].before
             /\ tokens[i].used \/ i \in resend[w].seen \cap Unused => tokens'[i].used
    BY <1>0, <2>1, <2>4, InsertType
  <2>3. /\ \A i \in DOMAIN tokens :
             tokens[i].used \/ i \in resend[w].seen => tokens'[i].used
        /\ \A i \in 1 .. lastId : i # new /\ i \in 1 .. new
    BY <1>0, <2>2 DEF Unused, TypeOK
  <2> HIDE DEF new
  <2>5. SeenInv'
    BY <1>1, <2>1, <2>2, <2>3, <1>2, <1>3 DEF IInv, SeenInv
  <2>6. UpdatedInv'
    BY <1>1, <2>1, <2>2, <2>3, <1>2, <1>3 DEF IInv, SeenInv, UpdatedInv
  <2>7. ResendInvalidates'
    BY <1>1, <2>1, <2>2, <2>3
       DEF IInv, SeenInv, UpdatedInv, ResendInvalidates, CommitResend
  <2>8. NobodyInv' /\ NoOrphanCodes'
    BY <1>1, <1>5, <2>1, <2>2, <2>3 DEF IInv, NobodyInv, NoOrphanCodes, Busy
  <2> QED
    BY <1>1, <2>5, <2>6, <2>7, <2>8 DEF IInv
<1> QED
  BY <1>4, <1>5

LEMMA IInvNext ==
  ASSUME IInv, [Next]_vars
  PROVE  IInv'
<1> USE DEF IInv
<1>1. CASE Register
  <2>1. TypeOK'
    BY <1>1, RegisterType
  <2>6. lastId \in Nat /\ accounts \in Nat /\ account.id = 0
    BY <1>1, EmailAssumption DEF Register, Create, TypeOK, NoAccount
  <2>2. /\ DOMAIN tokens' = {lastId + 1} /\ lastId' = lastId + 1
        /\ tokens'[lastId + 1].account = accounts + 1
        /\ tokens'[lastId + 1].before = {} /\ account'.id = accounts + 1
        /\ UNCHANGED resend
    BY <1>1 DEF Register, Create
  <2>3. \A w \in Resenders : resend[w] # Idle =>
          lastId + 1 \notin resend[w].before
    BY <2>6 DEF SeenInv
  <2>4. SeenInv'
    BY <2>2, <2>6 DEF SeenInv
  <2>5. UpdatedInv'
    BY <2>2, <2>3, <2>6 DEF UpdatedInv, Idle
  <2> QED
    BY <2>1, <2>2, <2>4, <2>5, <2>6 DEF NobodyInv, ResendInvalidates, NoOrphanCodes
<1>2. ASSUME NEW vouched \in BOOLEAN, ProviderSignIn(vouched)
      PROVE  IInv'
  <2>1. CASE Create(vouched)
    <3>1. TypeOK' /\ DOMAIN tokens = {} /\ accounts + 1 # 0
      BY <1>2, <2>1, EmailAssumption
         DEF ProviderSignIn, Create, TypeOK, NobodyInv, NoAccount
    <3> QED
      BY <1>2, <2>1, <3>1
         DEF ProviderSignIn, Create, SeenInv, UpdatedInv, NobodyInv,
             ResendInvalidates, NoOrphanCodes, Kept
  <2>2. CASE account # NoAccount /\ account' = [account EXCEPT !.verified = TRUE]
             /\ UNCHANGED accounts
    <3>1. TypeOK' /\ account'.id = account.id /\ Kept
      BY <1>2, <2>2 DEF ProviderSignIn, TypeOK, Kept
    <3> QED
      BY <1>2, <2>2, <3>1, KeptInv DEF ProviderSignIn
  <2> QED
    BY <1>2, <2>1, <2>2 DEF ProviderSignIn
<1>3. CASE Deactivate
  <2>1. TypeOK' /\ account'.id = account.id /\ account # NoAccount /\ Kept
    <3>1. account # NoAccount
      BY <1>3 DEF Deactivate, NoAccount
    <3>2. TypeOK' /\ account'.id = account.id
      BY <1>3 DEF Deactivate, TypeOK
    <3> QED
      BY <1>3, <3>1, <3>2 DEF Deactivate, Kept
  <2> QED
    BY <1>3, <2>1, KeptInv DEF Deactivate
<1>4. CASE Delete
  BY <1>4, EmailAssumption
     DEF Delete, TypeOK, SeenInv, UpdatedInv, NobodyInv, ResendInvalidates,
         NoOrphanCodes, NoAccount
<1>5. ASSUME NEW w \in Resenders, BeginResend(w)
      PROVE  IInv'
  <2>1. TypeOK'
    BY <1>5, BeginResendType
  <2>2. /\ \A v \in Resenders \ {w} : resend'[v] = resend[v]
        /\ resend'[w].before = DOMAIN tokens /\ resend'[w].step = "read"
        /\ UNCHANGED <<tokens, lastId>> /\ DOMAIN tokens \subseteq 1 .. lastId
    BY <1>5 DEF BeginResend, TypeOK
  <2>3. SeenInv' /\ UpdatedInv'
    BY <2>2 DEF SeenInv, UpdatedInv
  <2> QED
    BY <1>5, <2>1, <2>3 DEF BeginResend, NobodyInv, ResendInvalidates, NoOrphanCodes
<1>6. ASSUME NEW w \in Resenders, Invalidate(w)
      PROVE  IInv'
  <2>1. TypeOK' /\ resend[w] \in Busy /\ resend[w] # Idle
    BY <1>6, InvalidateType, BusyStep DEF Invalidate
  <2>2. /\ \A v \in Resenders \ {w} : resend'[v] = resend[v]
        /\ resend'[w] = [resend[w] EXCEPT !.step = "update", !.seen = Unused]
    BY <1>6 DEF Invalidate, TypeOK
  <2>5. resend'[w].before = resend[w].before /\ resend'[w].seen = Unused
    BY <2>1, <2>2 DEF Busy
  <2>3. SeenInv'
    BY <1>6, <2>1, <2>2, <2>5 DEF Invalidate, SeenInv
  <2>4. UpdatedInv'
    BY <1>6, <2>1, <2>2, <2>5 DEF Invalidate, UpdatedInv, Unused
  <2> QED
    BY <1>6, <2>1, <2>3, <2>4
       DEF Invalidate, NobodyInv, ResendInvalidates, NoOrphanCodes
<1>7. CASE WrongAttempt
  BY <1>7, AttemptType, KeptInv DEF WrongAttempt
<1>8. ASSUME NEW i \in DOMAIN tokens, Verify(i) \/ Expire(i)
      PROVE  IInv'
  <2>1. account # NoAccount /\ account'.id = account.id
    <3>1. account # NoAccount
      BY <1>8 DEF NobodyInv, NoAccount
    <3>2. account' = account \/ account' = [account EXCEPT !.verified = TRUE]
      BY <1>8 DEF Verify, Expire
    <3> QED
      BY <3>1, <3>2 DEF TypeOK
  <2> QED
    BY <1>8, <2>1, VerifyType, KeptInv DEF Verify, Expire
<1>9. CASE UNCHANGED vars
  BY <1>9 DEF vars, TypeOK, SeenInv, UpdatedInv, NobodyInv, ResendInvalidates,
              NoOrphanCodes
<1> QED
  BY <1>1, <1>2, <1>3, <1>4, <1>5, <1>6, <1>7, <1>8, <1>9, CommitResendInv
     DEF Next

-----------------------------------------------------------------------------
(***************************************************************************)
(* Theorems.                                                               *)
(***************************************************************************)
\* Codes, guesses under way and verifications stay consistent with the clock
\* of the newest code.
THEOREM Inductive == Spec => []IInv
  BY IInvInit, IInvNext, PTL DEF Spec

\* The rows, the account and the requests stay in their domains; a row that
\* lost its last attempt is locked and used.
THEOREM TypeCorrect == Spec => []TypeOK
<1>1. IInv => TypeOK
  BY DEF IInv
<1> QED
  BY <1>1, Inductive, PTL

\* A committed resend leaves no code alive that was there when it began,
\* however many resends, verifications, deletions and new registrations come
\* in between (resend_verification_email).
THEOREM ResendsInvalidate == Spec => []ResendInvalidates
<1>1. IInv => ResendInvalidates
  BY DEF IInv
<1> QED
  BY <1>1, Inductive, PTL

\* No code outlives its account or is handed to its successor.
THEOREM NoOrphans == Spec => []NoOrphanCodes
<1>1. IInv => NoOrphanCodes
  BY DEF IInv
<1> QED
  BY <1>1, Inductive, PTL

LEMMA VerifiedStep ==
  ASSUME IInv, Next, account'.id = account.id, ~account.verified, account'.verified
  PROVE  \/ tokens' = tokens
         \/ /\ \E i \in DOMAIN tokens : Alive(i)
            /\ \A i \in DOMAIN tokens : tokens'[i].used
<1>1. ASSUME NEW i \in DOMAIN tokens, Verify(i)
      PROVE  Alive(i) /\ \A j \in DOMAIN tokens : tokens'[j].used
  <2>1. Alive(i) /\ tokens' = UseAll(i)
    BY <1>1 DEF Verify
  <2>2. \A j \in DOMAIN tokens : [tokens[j] EXCEPT !.used = TRUE].used
    BY DEF IInv, TypeOK, Token
  <2> QED
    BY <2>1, <2>2 DEF UseAll
<1>2. CASE Register
  BY <1>2, EmailAssumption DEF Register, Create, IInv, TypeOK, NoAccount
<1>3. CASE Delete
  BY <1>3 DEF Delete, NoAccount
<1>4. ASSUME NEW i \in DOMAIN tokens, Verify(i) \/ Expire(i)
      PROVE  \/ tokens' = tokens
             \/ /\ \E j \in DOMAIN tokens : Alive(j)
                /\ \A j \in DOMAIN tokens : tokens'[j].used
  BY <1>1, <1>4 DEF Expire
<1> QED
  BY <1>2, <1>3, <1>4
     DEF Next, ProviderSignIn, Deactivate, BeginResend, Invalidate, CommitResend,
         WrongAttempt

\* An account that becomes verified by a code used up every code it has,
\* also those that concurrent resends left alive (verify_email).
THEOREM CodesAreConsumed == Spec => CodesConsumed
<1>1. IInv /\ [Next]_vars
      => [(account'.id = account.id /\ ~account.verified /\ account'.verified)
            => \/ tokens' = tokens
               \/ /\ \E i \in DOMAIN tokens : Alive(i)
                  /\ \A i \in DOMAIN tokens : tokens'[i].used]_vars
  BY VerifiedStep
<1> QED
  BY <1>1, Inductive, PTL DEF Spec, CodesConsumed

-----------------------------------------------------------------------------
(***************************************************************************)
(* How many wrong attempts a code outlives.                                *)
(***************************************************************************)

\* A resend of this account that has run its UPDATE and will insert a row.
Updated(w) == resend[w].step = "update" /\ resend[w].account = account.id

\* The attempts the rows in use still have, and the resends that will insert
\* one more row without invalidating row i.
Left == {p \in Unused \X (1 .. MaxAttempts) : p[2] > tokens[p[1]].attempts}
Late(i) == {w \in Resenders : Updated(w) /\ i \notin resend[w].seen}

\* The ids are those of accounts and rows of the past.
PastInv ==
  /\ account.id <= accounts
  /\ \A w \in Resenders : resend[w] # Idle => resend[w].account <= accounts

\* A row in use that a resend does not see was inserted after its UPDATE,
\* by another resender, and is the last that one inserted: its next resend
\* would see it.
MakerInv ==
  \E made \in [Resenders -> 0 .. lastId] :
    \A w \in Resenders : Updated(w) =>
      \A j \in Unused \ resend[w].seen :
        made[w] # j /\ \E v \in Resenders : made[v] = j

\* Every wrong attempt a row has outlived was counted against a row that was
\* in use then; what is left of those rows, and what the late resends bring,
\* bounds what is to come.
BudgetInv ==
  \A i \in Unused :
    tokens[i].wrong + Cardinality(Left) + MaxAttempts * Cardinality(Late(i))
      <= MaxAttempts * (2 * Cardinality(Resenders) - 1)

GuessInv == IInv /\ PastInv /\ MakerInv /\ BudgetInv


\* What is in use is finite, and so is what is left of it.
LEMMA Countable ==
  ASSUME TypeOK
  PROVE  /\ IsFiniteSet(Left) /\ Cardinality(Left) \in Nat
         /\ IsFiniteSet(Unused)
         /\ \A i : IsFiniteSet(Late(i)) /\ Cardinality(Late(i)) \in Nat
<1>1. IsFiniteSet(1 .. lastId) /\ IsFiniteSet(1 .. MaxAttempts)
  <2>1. 1 \in Int /\ lastId \in Int /\ MaxAttempts \in Int
    BY EmailAssumption DEF TypeOK
  <2> QED
    BY <2>1, FS_Interval
<1>2. Unused \in SUBSET (1 .. lastId)
  BY DEF Unused, TypeOK
<1>3. IsFiniteSet(Unused)
  BY <1>1, <1>2, FS_Subset
<1>4. IsFiniteSet(Unused \X (1 .. MaxAttempts))
  BY <1>1, <1>3, FS_Product
<1>5. Left \in SUBSET (Unused \X (1 .. MaxAttempts))
  BY DEF Left
<1>6. IsFiniteSet(Left)
  BY <1>4, <1>5, FS_Subset
<1>7. ASSUME NEW i PROVE IsFiniteSet(Late(i))
  <2>1. Late(i) \in SUBSET Resenders
    BY DEF Late
  <2> QED
    BY <2>1, EmailAssumption, FS_Subset
<1> QED
  BY <1>3, <1>6, <1>7, FS_CardinalityType

LEMMA Times ==
  /\ MaxAttempts \in Nat \ {0}
  /\ Cardinality(Resenders) \in Nat \ {0}
  /\ 2 * Cardinality(Resenders) - 1 \in Nat
  /\ \A n \in Nat : MaxAttempts * n \in Nat
  /\ \A n \in Nat : MaxAttempts * (n + 1) = MaxAttempts * n + MaxAttempts
<1>1. Cardinality(Resenders) \in Nat \ {0}
  BY EmailAssumption, FS_CardinalityType, FS_EmptySet
<1> QED
  BY <1>1, EmailAssumption

LEMMA TimesGrows ==
  ASSUME NEW n \in Nat, NEW m \in Nat, n <= m
  PROVE  MaxAttempts * n <= MaxAttempts * m
<1>1. m - n \in Nat /\ m = n + (m - n)
  OBVIOUS
<1>2. MaxAttempts * m = MaxAttempts * n + MaxAttempts * (m - n)
  BY <1>1, EmailAssumption
<1>3. MaxAttempts * (m - n) \in Nat /\ MaxAttempts * n \in Nat
  BY <1>1, Times
<1> QED
  BY <1>2, <1>3

\* Steps after which a resend has seen what is in use, or as much as before.
SeesAsMuch ==
  \A w \in Resenders :
    Updated(w)' => \/ Unused' \subseteq resend'[w].seen
                   \/ Updated(w) /\ resend'[w].seen = resend[w].seen

LEMMA MakersStay ==
  ASSUME MakerInv, TypeOK, UNCHANGED lastId, Unused' \subseteq Unused,
         SeesAsMuch
  PROVE  MakerInv'
<1>1. PICK made \in [Resenders -> 0 .. lastId] :
        \A w \in Resenders : Updated(w) =>
          \A j \in Unused \ resend[w].seen :
            made[w] # j /\ \E v \in Resenders : made[v] = j
  BY DEF MakerInv
<1>2. ASSUME NEW w \in Resenders, Updated(w)',
             NEW j \in Unused' \ resend'[w].seen
      PROVE  made[w] # j /\ \E v \in Resenders : made[v] = j
  BY <1>1, <1>2 DEF SeesAsMuch
<1> QED
  BY <1>2 DEF MakerInv

\* Rows in use before and after a step have outlived as much.
Untouched ==
  /\ Unused' \subseteq Unused
  /\ \A i \in Unused' : /\ tokens'[i].wrong = tokens[i].wrong
                        /\ tokens'[i].attempts = tokens[i].attempts

LEMMA LateStay ==
  ASSUME SeesAsMuch, NEW i \in Unused'
  PROVE  Late(i)' \subseteq Late(i)
BY DEF Late, SeesAsMuch

LEMMA BudgetStays ==
  ASSUME BudgetInv, TypeOK, Untouched, SeesAsMuch
  PROVE  BudgetInv'
<1> SUFFICES ASSUME NEW i \in Unused'
             PROVE  tokens'[i].wrong + Cardinality(Left')
                      + MaxAttempts * Cardinality(Late(i)')
                    <= MaxAttempts * (2 * Cardinality(Resenders) - 1)
  BY DEF BudgetInv
<1>1. i \in Unused /\ tokens'[i].wrong = tokens[i].wrong
  BY DEF Untouched
<1>2. tokens[i].wrong + Cardinality(Left)
          + MaxAttempts * Cardinality(Late(i))
        <= MaxAttempts * (2 * Cardinality(Resenders) - 1)
  BY <1>1 DEF BudgetInv
<1>3. Left' \subseteq Left
  BY DEF Left, Untouched
<1>4. Cardinality(Left') \in Nat /\ Cardinality(Left') <= Cardinality(Left)
  BY <1>3, Countable, FS_Subset, FS_CardinalityType
<1>5. Late(i)' \subseteq Late(i)
  BY LateStay
<1>6. /\ Cardinality(Late(i)') \in Nat
      /\ Cardinality(Late(i)') <= Cardinality(Late(i))
  BY <1>5, Countable, FS_Subset, FS_CardinalityType
<1>7. MaxAttempts * Cardinality(Late(i)') <= MaxAttempts * Cardinality(Late(i))
  BY <1>6, Countable, TimesGrows
<1>8. tokens[i].wrong \in Nat
  BY <1>1 DEF TypeOK, Unused, Token
<1>9. /\ MaxAttempts * Cardinality(Late(i)') \in Nat
      /\ MaxAttempts * Cardinality(Late(i)) \in Nat
      /\ MaxAttempts * (2 * Cardinality(Resenders) - 1) \in Nat
      /\ Cardinality(Left) \in Nat
  BY <1>6, Countable, Times
<1> DEFINE bound == MaxAttempts * (2 * Cardinality(Resenders) - 1)
           owed == MaxAttempts * Cardinality(Late(i))
           then == MaxAttempts * Cardinality(Late(i)')
<1> HIDE DEF bound, owed, then
<1>10. tokens[i].wrong + Cardinality(Left') + then <= bound
  BY <1>2, <1>4, <1>7, <1>8, <1>9 DEF bound, owed, then
<1> QED
  BY <1>1, <1>10 DEF bound, then

-----------------------------------------------------------------------------
\* A wrong attempt takes one of what is left.
LEMMA CountedRow ==
  ASSUME NEW t \in Token
  PROVE  /\ Counted(t).attempts = t.attempts + 1
         /\ Counted(t).wrong = t.wrong
         /\ t.used => Counted(t).used
         /\ Counted(t) \in [account: 0 .. MaxAccounts, created: 1 .. MaxTokens,
              attempts: Nat, used: BOOLEAN, locked: BOOLEAN,
              expired: BOOLEAN, wrong: Nat, before: SUBSET Ids]
<1> DEFINE exceeded == t.attempts + 1 >= MaxAttempts
<1>1. Counted(t) = [t EXCEPT !.attempts = @ + 1, !.used = @ \/ exceeded,
                             !.locked = @ \/ exceeded]
  BY Zenon DEF Counted
<1>2. (t.used \/ exceeded) \in BOOLEAN /\ (t.locked \/ exceeded) \in BOOLEAN
  BY Zenon
<1> HIDE DEF exceeded
<1>3. /\ Counted(t).attempts = t.attempts + 1
      /\ Counted(t).wrong = t.wrong
      /\ Counted(t).used = (t.used \/ exceeded)
  BY <1>1 DEF Token
<1>4. t.used => Counted(t).used
  BY <1>3, Zenon
<1>5. t.attempts + 1 \in Nat
  BY EmailAssumption DEF Token
<1>6. Counted(t) \in [account: 0 .. MaxAccounts, created: 1 .. MaxTokens,
        attempts: Nat, used: BOOLEAN, locked: BOOLEAN,
        expired: BOOLEAN, wrong: Nat, before: SUBSET Ids]
  BY <1>1, <1>2, <1>5 DEF Token
<1> QED
  BY <1>3, <1>4, <1>6

LEMMA AttemptCounts ==
  ASSUME TypeOK, WrongAttempt
  PROVE  \E latest \in Unused :
           /\ DOMAIN tokens' = DOMAIN tokens
           /\ Unused' \subseteq Unused
           /\ \A i \in Unused' : tokens'[i].wrong = tokens[i].wrong + 1
           /\ \A i \in Unused' \ {latest} :
                tokens'[i].attempts = tokens[i].attempts
           /\ tokens'[latest].attempts = tokens[latest].attempts + 1
<1>1. PICK latest \in DOMAIN tokens :
        /\ Newest(latest)
        /\ tokens' = [i \in DOMAIN tokens |->
             [(IF i = latest THEN Counted(tokens[i]) ELSE tokens[i])
                EXCEPT !.wrong = @ + 1]]
  BY DEF WrongAttempt
<1> DEFINE row(i) == IF i = latest THEN Counted(tokens[i]) ELSE tokens[i]
           more(t) == [t EXCEPT !.wrong = @ + 1]
           Rows == [account: 0 .. MaxAccounts, created: 1 .. MaxTokens,
                    attempts: Nat, used: BOOLEAN, locked: BOOLEAN,
                    expired: BOOLEAN, wrong: Nat, before: SUBSET Ids]
<1>2. latest \in Unused
  BY <1>1 DEF Newest
<1>3. ASSUME NEW i \in DOMAIN tokens
      PROVE  /\ row(i) \in Rows
             /\ row(i).wrong = tokens[i].wrong
             /\ row(i).attempts = IF i = latest THEN tokens[i].attempts + 1
                                  ELSE tokens[i].attempts
             /\ tokens[i].used => row(i).used
  <2>1. tokens[i] \in Token
    BY DEF TypeOK
  <2>2. CASE i = latest
    BY <2>1, <2>2, CountedRow
  <2>3. CASE i # latest
    BY <2>1, <2>3, EmailAssumption DEF Token
  <2> QED
    BY <2>2, <2>3
<1>4. ASSUME NEW t \in Rows
      PROVE  /\ more(t).wrong = t.wrong + 1 /\ more(t).attempts = t.attempts
             /\ more(t).used = t.used
  OBVIOUS
<1>5. /\ DOMAIN tokens' = DOMAIN tokens
      /\ \A i \in DOMAIN tokens : tokens'[i] = more(row(i))
  BY <1>1, Zenon
<1> HIDE DEF row, more, Rows
<1>6. \A i \in DOMAIN tokens :
        /\ tokens'[i].wrong = tokens[i].wrong + 1
        /\ tokens'[i].attempts = row(i).attempts
        /\ tokens[i].used => tokens'[i].used
  BY <1>3, <1>4, <1>5
<1>7. Unused' \subseteq Unused
  BY <1>5, <1>6 DEF Unused
<1> QED
  BY <1>2, <1>3, <1>5, <1>6, <1>7 DEF Unused

LEMMA AttemptBudget ==
  ASSUME BudgetInv, MakerInv, TypeOK, WrongAttempt
  PROVE  BudgetInv' /\ MakerInv'
<1>1. PICK latest \in Unused :
        /\ DOMAIN tokens' = DOMAIN tokens
        /\ Unused' \subseteq Unused
        /\ \A i \in Unused' : tokens'[i].wrong = tokens[i].wrong + 1
        /\ \A i \in Unused' \ {latest} :
             tokens'[i].attempts = tokens[i].attempts
        /\ tokens'[latest].attempts = tokens[latest].attempts + 1
  BY AttemptCounts
<1>2. UNCHANGED resend /\ UNCHANGED account /\ UNCHANGED lastId
  BY DEF WrongAttempt
<1>3. SeesAsMuch
  BY <1>2 DEF SeesAsMuch, Updated
<1>4. MakerInv'
  BY <1>1, <1>2, <1>3, MakersStay
<1> DEFINE taken == <<latest, tokens[latest].attempts + 1>>
<1>5. /\ \A i \in Unused : tokens[i].attempts \in Nat /\ tokens[i].wrong \in Nat
      /\ tokens[latest].attempts + 1 \in 1 .. MaxAttempts
  BY EmailAssumption DEF TypeOK, Unused, Token
<1>6. taken \in Left
  BY <1>5 DEF Left
<1>7. Left' \subseteq Left \ {taken}
  <2> SUFFICES ASSUME NEW p \in Left' PROVE p \in Left /\ p # taken
    OBVIOUS
  <2>1. /\ p \in Unused' \X (1 .. MaxAttempts)
        /\ p[2] > tokens'[p[1]].attempts
    BY DEF Left
  <2>2. p[1] \in Unused /\ p[1] \in Unused' /\ p[2] \in 1 .. MaxAttempts
        /\ p = <<p[1], p[2]>>
    BY <1>1, <2>1
  <2>3. CASE p[1] = latest
    <3>1. p[2] > tokens[latest].attempts + 1
      BY <1>1, <2>1, <2>3
    <3>2. p[2] > tokens[latest].attempts /\ p[2] # tokens[latest].attempts + 1
      BY <1>5, <2>2, <3>1
    <3> QED
      BY <2>2, <2>3, <3>2 DEF Left
  <2>4. CASE p[1] # latest
    <3>1. p[2] > tokens[p[1]].attempts
      BY <1>1, <2>1, <2>2, <2>4
    <3> QED
      BY <2>2, <2>4, <3>1 DEF Left
  <2> QED
    BY <2>3, <2>4
<1>8. /\ Cardinality(Left') \in Nat
      /\ Cardinality(Left') <= Cardinality(Left) - 1
  <2>1. /\ IsFiniteSet(Left \ {taken})
        /\ Cardinality(Left \ {taken}) = Cardinality(Left) - 1
    BY <1>6, Countable, FS_RemoveElement
  <2>2. Left' \in SUBSET (Left \ {taken})
    BY <1>7
  <2> HIDE DEF taken
  <2> QED
    BY <2>1, <2>2, FS_Subset, FS_CardinalityType
<1>9. ASSUME NEW i \in Unused'
      PROVE  tokens'[i].wrong + Cardinality(Left')
               + MaxAttempts * Cardinality(Late(i)')
             <= MaxAttempts * (2 * Cardinality(Resenders) - 1)
  <2>1. tokens'[i].wrong = tokens[i].wrong + 1 /\ tokens[i].wrong \in Nat
    BY <1>1, <1>5
  <2>2. Late(i)' = Late(i)
    BY <1>2 DEF Late, Updated
  <2>3. tokens[i].wrong + Cardinality(Left)
          + MaxAttempts * Cardinality(Late(i))
        <= MaxAttempts * (2 * Cardinality(Resenders) - 1)
    BY <1>1 DEF BudgetInv
  <2>4. MaxAttempts * Cardinality(Late(i)) \in Nat
    BY Countable, Times
  <2>5. MaxAttempts * (2 * Cardinality(Resenders) - 1) \in Nat
    BY Times
  <2> QED
    BY <1>8, <2>1, <2>2, <2>3, <2>4, <2>5, Countable
<1> QED
  BY <1>4, <1>9 DEF BudgetInv

-----------------------------------------------------------------------------
\* A resend brings one row, and is no longer late.
LEMMA InsertRows ==
  ASSUME TypeOK, NEW invalidated, NEW date, NEW known,
         Insert(invalidated, date, known)
  PROVE  /\ lastId' = lastId + 1 /\ lastId + 1 \notin Unused
         /\ Unused' = (Unused \ invalidated) \cup {lastId + 1}
         /\ \A i \in Unused \ invalidated : tokens'[i] = tokens[i]
         /\ tokens'[lastId + 1].wrong = 0 /\ tokens'[lastId + 1].attempts = 0
<1> DEFINE row == [account |-> account.id, created |-> date, attempts |-> 0,
                   used |-> FALSE, locked |-> FALSE, expired |-> FALSE,
                   wrong |-> 0, before |-> known]
           dead(i) == [tokens[i] EXCEPT !.used = TRUE, !.locked = TRUE]
           new == lastId + 1
<1>1. row.wrong = 0 /\ row.attempts = 0 /\ ~row.used
  OBVIOUS
<1>2. \A i \in DOMAIN tokens : dead(i).used
  BY DEF TypeOK, Token
<1>3. /\ DOMAIN tokens' = DOMAIN tokens \cup {new}
      /\ \A i \in DOMAIN tokens' :
           tokens'[i] = IF i = new THEN row
                        ELSE IF i \in invalidated THEN dead(i) ELSE tokens[i]
      /\ lastId' = new
  BY Zenon DEF Insert
<1>4. new \notin DOMAIN tokens
  BY DEF TypeOK
<1> HIDE DEF row, dead, new
<1>5. tokens'[new] = row /\ new \in Unused' /\ new \notin Unused
  BY <1>1, <1>3, <1>4 DEF Unused
<1>6. ASSUME NEW i \in DOMAIN tokens
      PROVE  /\ i \in Unused' <=> i \in Unused /\ i \notin invalidated
             /\ i \notin invalidated => tokens'[i] = tokens[i]
  <2>1. i # new /\ i \in DOMAIN tokens'
    BY <1>3, <1>4
  <2> QED
    BY <1>2, <1>3, <2>1 DEF Unused
<1>7. /\ Unused \subseteq DOMAIN tokens
      /\ Unused' \subseteq DOMAIN tokens \cup {new}
  BY <1>3 DEF Unused
<1>8. Unused' = (Unused \ invalidated) \cup {new}
  BY <1>5, <1>6, <1>7
<1> QED
  BY <1>1, <1>3, <1>5, <1>6, <1>7, <1>8 DEF new

\* A resend whose account is gone.
LEMMA RefusedResend ==
  ASSUME TypeOK, MakerInv, BudgetInv, NEW w \in Resenders, CommitResend(w),
         account.id # resend[w].account
  PROVE  MakerInv' /\ BudgetInv'
<1>1. UNCHANGED tokens /\ UNCHANGED lastId /\ UNCHANGED account
  BY DEF CommitResend
<1>2. \A v \in Resenders : resend'[v] = IF v = w THEN Idle ELSE resend[v]
  BY DEF CommitResend, TypeOK
<1>3. SeesAsMuch
  BY <1>1, <1>2 DEF SeesAsMuch, Updated, Idle
<1>4. Untouched /\ Unused' \subseteq Unused
  BY <1>1 DEF Untouched, Unused
<1> QED
  BY <1>1, <1>3, <1>4, MakersStay, BudgetStays

LEMMA ResendKeepsMakers ==
  ASSUME TypeOK, NEW w \in Resenders, CommitResend(w), Updated(w),
         NEW made \in [Resenders -> 0 .. lastId],
         \A v \in Resenders : Updated(v) =>
           \A j \in Unused \ resend[v].seen :
             made[v] # j /\ \E u \in Resenders : made[u] = j
  PROVE  /\ MakerInv'
         /\ \A j \in Unused' :
              \E u \in Resenders : [made EXCEPT ![w] = lastId + 1][u] = j
<1> DEFINE new == lastId + 1
           next == [made EXCEPT ![w] = new]
<1>1. /\ Insert(resend[w].seen \cap Unused, resend[w].created,
                resend[w].before)
      /\ UNCHANGED account
  BY DEF CommitResend, Updated
<1>2. \A v \in Resenders : resend'[v] = IF v = w THEN Idle ELSE resend[v]
  BY DEF CommitResend, TypeOK
<1>3. /\ lastId' = new /\ new \notin Unused
      /\ Unused' = (Unused \ resend[w].seen) \cup {new}
  BY <1>1, InsertRows
<1>4. lastId \in Nat
  BY DEF TypeOK
<1>5. next \in [Resenders -> 0 .. lastId']
  BY <1>3, <1>4
<1>6. /\ next[w] = new
      /\ \A v \in Resenders \ {w} : next[v] = made[v] /\ next[v] # new
  BY <1>4
<1> HIDE DEF next, new
<1>7. \A j \in Unused' : \E u \in Resenders : next[u] = j
  <2> SUFFICES ASSUME NEW j \in Unused', j # new
               PROVE  \E u \in Resenders : next[u] = j
    BY <1>6
  <2>1. j \in Unused \ resend[w].seen
    BY <1>3
  <2>2. PICK u \in Resenders : made[u] = j
    BY <2>1
  <2>3. u # w
    BY <2>1, <2>2
  <2> QED
    BY <1>6, <2>2, <2>3
<1>8. ASSUME NEW v \in Resenders, Updated(v)',
             NEW j \in Unused' \ resend'[v].seen
      PROVE  next[v] # j
  <2>1. v # w
    BY <1>2, <1>8 DEF Updated, Idle
  <2>2. Updated(v) /\ resend'[v].seen = resend[v].seen
    BY <1>1, <1>2, <1>8, <2>1 DEF Updated
  <2>3. CASE j = new
    BY <1>6, <2>1, <2>3
  <2>4. CASE j # new
    BY <1>3, <1>6, <1>8, <2>1, <2>2, <2>4
  <2> QED
    BY <2>3, <2>4
<1>9. MakerInv'
  BY <1>5, <1>7, <1>8 DEF MakerInv
<1> QED
  BY <1>7, <1>9 DEF next, new

\* After a resend, at most one row of each resender is in use.
LEMMA RowsInUse ==
  ASSUME NEW S, NEW made \in [Resenders -> Nat],
         \A j \in S : \E v \in Resenders : made[v] = j
  PROVE  /\ IsFiniteSet(S) /\ Cardinality(S) \in Nat
         /\ Cardinality(S) <= Cardinality(Resenders)
<1> DEFINE T == {made[v] : v \in Resenders}
<1>1. made \in Surjection(Resenders, T)
  BY DEF Surjection
<1>2. IsFiniteSet(T) /\ Cardinality(T) <= Cardinality(Resenders)
  BY <1>1, EmailAssumption, FS_Surjection
<1>3. S \in SUBSET T
  OBVIOUS
<1> HIDE DEF T
<1>4. IsFiniteSet(S) /\ Cardinality(S) <= Cardinality(T)
  BY <1>2, <1>3, FS_Subset
<1>5. /\ Cardinality(S) \in Nat /\ Cardinality(T) \in Nat
      /\ Cardinality(Resenders) \in Nat
  BY <1>2, <1>4, EmailAssumption, FS_CardinalityType
<1> QED
  BY <1>2, <1>4, <1>5

\* What some rows have left, counted from above.
LEMMA LeftBounded ==
  ASSUME NEW S, IsFiniteSet(S), NEW n \in Nat, Cardinality(S) <= n,
         NEW left \in SUBSET (S \X (1 .. MaxAttempts))
  PROVE  Cardinality(left) \in Nat /\ Cardinality(left) <= MaxAttempts * n
<1>1. /\ IsFiniteSet(1 .. MaxAttempts)
      /\ Cardinality(1 .. MaxAttempts) = MaxAttempts
  <2>1. 1 \in Int /\ MaxAttempts \in Int /\ ~(1 > MaxAttempts)
        /\ MaxAttempts - 1 + 1 = MaxAttempts
    BY EmailAssumption
  <2> QED
    BY <2>1, FS_Interval
<1>2. /\ IsFiniteSet(S \X (1 .. MaxAttempts))
      /\ Cardinality(S \X (1 .. MaxAttempts))
           = Cardinality(S) * MaxAttempts
  BY <1>1, FS_Product
<1>4. /\ Cardinality(left) \in Nat
      /\ Cardinality(left) <= Cardinality(S \X (1 .. MaxAttempts))
  BY <1>2, FS_Subset, FS_CardinalityType
<1>5. Cardinality(S) \in Nat
  BY FS_CardinalityType
<1>6. MaxAttempts * Cardinality(S) <= MaxAttempts * n
  BY <1>5, TimesGrows
<1>7. Cardinality(S) * MaxAttempts = MaxAttempts * Cardinality(S)
  BY <1>5, EmailAssumption
<1>8. MaxAttempts * Cardinality(S) \in Nat /\ MaxAttempts * n \in Nat
  BY <1>5, Times
<1> QED
  BY <1>2, <1>4, <1>6, <1>7, <1>8

LEMMA ResendKeepsBudget ==
  ASSUME TypeOK, TypeOK', MakerInv, BudgetInv,
         NEW w \in Resenders, CommitResend(w), Updated(w)
  PROVE  MakerInv' /\ BudgetInv'
<1> DEFINE R == Cardinality(Resenders)
<1>0. PICK new \in Nat : new = lastId + 1
  BY DEF TypeOK
<1>1. /\ Insert(resend[w].seen \cap Unused, resend[w].created,
                resend[w].before)
      /\ UNCHANGED account
  BY DEF CommitResend, Updated
<1>2. \A v \in Resenders : resend'[v] = IF v = w THEN Idle ELSE resend[v]
  BY DEF CommitResend, TypeOK
<1>3. /\ new \notin Unused
      /\ Unused' = (Unused \ resend[w].seen) \cup {new}
      /\ \A i \in Unused \ resend[w].seen : tokens'[i] = tokens[i]
      /\ tokens'[new].wrong = 0 /\ tokens'[new].attempts = 0
  <2>1. Unused \ (resend[w].seen \cap Unused) = Unused \ resend[w].seen
    OBVIOUS
  <2> QED
    BY <1>0, <1>1, <2>1, InsertRows
<1>4. PICK made \in [Resenders -> 0 .. lastId] :
        \A v \in Resenders : Updated(v) =>
          \A j \in Unused \ resend[v].seen :
            made[v] # j /\ \E u \in Resenders : made[u] = j
  BY DEF MakerInv
<1>5. /\ MakerInv'
      /\ \A j \in Unused' :
           \E u \in Resenders : [made EXCEPT ![w] = new][u] = j
  BY <1>0, <1>4, ResendKeepsMakers
<1>6. \A i, v : v \in Late(i)' => v \in Resenders \ {w} /\ Updated(v)
                                  /\ resend'[v].seen = resend[v].seen
  BY <1>1, <1>2 DEF Late, Updated, Idle
<1>7. ASSUME NEW i \in Unused', i # new
      PROVE  tokens'[i].wrong + Cardinality(Left')
               + MaxAttempts * Cardinality(Late(i)')
             <= MaxAttempts * (2 * R - 1)
  <2>1. i \in Unused \ resend[w].seen /\ tokens'[i] = tokens[i]
    BY <1>3, <1>7
  <2>2. Late(i)' \subseteq Late(i) \ {w} /\ w \in Late(i)
    BY <1>6, <2>1 DEF Late
  <2>3. /\ Cardinality(Late(i)') \in Nat
        /\ Cardinality(Late(i)') + 1 <= Cardinality(Late(i))
    <3>1. /\ IsFiniteSet(Late(i) \ {w})
          /\ Cardinality(Late(i) \ {w}) = Cardinality(Late(i)) - 1
      BY <2>2, Countable, FS_RemoveElement
    <3>2. Late(i)' \in SUBSET (Late(i) \ {w})
      BY <2>2
    <3> QED
      BY <3>1, <3>2, Countable, FS_Subset, FS_CardinalityType
  <2>4. Left' \subseteq Left \cup ({new} \X (1 .. MaxAttempts))
    <3> SUFFICES ASSUME NEW p \in Left', p[1] # new PROVE p \in Left
      BY DEF Left
    <3> QED
      BY <1>3 DEF Left
  <2>5. /\ Cardinality(Left') \in Nat
        /\ Cardinality(Left') <= Cardinality(Left) + MaxAttempts
    <3>1. /\ IsFiniteSet(1 .. MaxAttempts)
          /\ Cardinality(1 .. MaxAttempts) = MaxAttempts
      <4>1. 1 \in Int /\ MaxAttempts \in Int /\ ~(1 > MaxAttempts)
            /\ MaxAttempts - 1 + 1 = MaxAttempts
        BY EmailAssumption
      <4> QED
        BY <4>1, FS_Interval
    <3> DEFINE brought == {new} \X (1 .. MaxAttempts)
    <3>2. IsFiniteSet({new}) /\ Cardinality({new}) <= 1 /\ 1 \in Nat
      <4>1. IsFiniteSet({new}) /\ Cardinality({new}) = 1
        BY FS_Singleton, Zenon
      <4> QED
        BY <4>1
    <3>8. IsFiniteSet(brought)
      BY <3>1, <3>2, FS_Product
    <3>9. brought \in SUBSET ({new} \X (1 .. MaxAttempts))
      OBVIOUS
    <3> HIDE DEF brought
    <3>3. /\ IsFiniteSet(brought) /\ Cardinality(brought) \in Nat
          /\ Cardinality(brought) <= MaxAttempts
      <4>1. /\ Cardinality(brought) \in Nat
            /\ Cardinality(brought) <= MaxAttempts * 1
        BY <3>2, <3>9, LeftBounded
      <4> QED
        BY <3>8, <4>1, EmailAssumption
    <3>4. /\ IsFiniteSet(Left \cup brought)
          /\ Cardinality(Left \cup brought)
               = Cardinality(Left) + Cardinality(brought)
                   - Cardinality(Left \cap brought)
      BY <3>3, Countable, FS_Union
    <3>5. Cardinality(Left \cap brought) \in Nat
      BY Countable, FS_Intersection, FS_CardinalityType
    <3>6. Left' \in SUBSET (Left \cup brought)
      BY <2>4 DEF brought
    <3>7. /\ Cardinality(Left') \in Nat
          /\ Cardinality(Left') <= Cardinality(Left \cup brought)
      BY <3>4, <3>6, FS_Subset, FS_CardinalityType
    <3> QED
      BY <3>3, <3>4, <3>5, <3>7, Countable, EmailAssumption
  <2>6. tokens[i].wrong + Cardinality(Left)
          + MaxAttempts * Cardinality(Late(i)) <= MaxAttempts * (2 * R - 1)
    BY <2>1 DEF BudgetInv
  <2>7. /\ MaxAttempts * (Cardinality(Late(i)') + 1)
             <= MaxAttempts * Cardinality(Late(i))
        /\ MaxAttempts * (Cardinality(Late(i)') + 1)
             = MaxAttempts * Cardinality(Late(i)') + MaxAttempts
    <3>1. Cardinality(Late(i)') + 1 \in Nat
      BY <2>3
    <3> QED
      BY <2>3, <3>1, Countable, Times, TimesGrows
  <2>8. /\ MaxAttempts * Cardinality(Late(i)') \in Nat
        /\ MaxAttempts * Cardinality(Late(i)) \in Nat
        /\ MaxAttempts * (2 * R - 1) \in Nat
        /\ Cardinality(Left) \in Nat /\ MaxAttempts \in Nat
    BY <2>3, Countable, Times
  <2>9. tokens[i].wrong \in Nat
    BY <2>1 DEF TypeOK, Unused, Token
  <2> DEFINE bound == MaxAttempts * (2 * R - 1)
             owed == MaxAttempts * Cardinality(Late(i))
             then == MaxAttempts * Cardinality(Late(i)')
  <2> HIDE DEF bound, owed, then
  <2>10. then + MaxAttempts <= owed
    BY <2>7 DEF then, owed
  <2>11. tokens[i].wrong + Cardinality(Left') + then <= bound
    BY <2>5, <2>6, <2>8, <2>9, <2>10 DEF bound, owed, then
  <2> QED
    BY <2>1, <2>11 DEF bound, then
<1>8. tokens'[new].wrong + Cardinality(Left')
        + MaxAttempts * Cardinality(Late(new)') <= MaxAttempts * (2 * R - 1)
  <2>1. IsFiniteSet(Unused') /\ Cardinality(Unused') <= R
    <3>1. [made EXCEPT ![w] = new] \in [Resenders -> Nat]
      BY DEF TypeOK
    <3> QED
      BY <1>5, <3>1, RowsInUse
  <2>2. /\ Cardinality(Left') \in Nat
        /\ Cardinality(Left') <= MaxAttempts * R
    <3>1. Left' \in SUBSET (Unused' \X (1 .. MaxAttempts))
      BY DEF Left
    <3> QED
      BY <2>1, <3>1, Times, LeftBounded
  <2>3. Late(new)' \in SUBSET (Resenders \ {w})
    BY <1>6
  <2>4. /\ IsFiniteSet(Resenders \ {w})
        /\ Cardinality(Resenders \ {w}) = R - 1
    BY EmailAssumption, FS_RemoveElement
  <2>5. /\ Cardinality(Late(new)') \in Nat
        /\ Cardinality(Late(new)') <= R - 1
    BY <2>3, <2>4, FS_Subset, FS_CardinalityType
  <2>6. R \in Nat /\ R - 1 \in Nat
    BY Times
  <2>7. MaxAttempts * Cardinality(Late(new)') <= MaxAttempts * (R - 1)
    BY <2>5, <2>6, TimesGrows
  <2>8. MaxAttempts * R + MaxAttempts * (R - 1) = MaxAttempts * (2 * R - 1)
    BY <2>6, EmailAssumption
  <2>9. /\ MaxAttempts * R \in Nat /\ MaxAttempts * (R - 1) \in Nat
        /\ MaxAttempts * Cardinality(Late(new)') \in Nat
    BY <2>5, <2>6, Times
  <2> QED
    BY <1>3, <2>2, <2>7, <2>8, <2>9
<1>9. BudgetInv'
  <2> SUFFICES ASSUME NEW i \in Unused'
               PROVE  tokens'[i].wrong + Cardinality(Left')
                        + MaxAttempts * Cardinality(Late(i)')
                      <= MaxAttempts * (2 * Cardinality(Resenders) - 1)
    BY DEF BudgetInv
  <2>1. CASE i = new
    BY <1>8, <2>1
  <2>2. CASE i # new
    BY <1>7, <2>2
  <2> QED
    BY <2>1, <2>2
<1> QED
  BY <1>5, <1>9

-----------------------------------------------------------------------------
\* The first code of an account: no resend for it has begun yet.
LEMMA RegisterGuesses ==
  ASSUME GuessInv, Register
  PROVE  PastInv' /\ MakerInv' /\ BudgetInv'
<1>1. TypeOK /\ PastInv
  BY DEF GuessInv, IInv
<1>2. PICK new \in Nat : new = lastId + 1
  BY <1>1 DEF TypeOK
<1>3. /\ UNCHANGED resend /\ accounts \in Nat /\ accounts' = accounts + 1
      /\ account'.id = accounts + 1
      /\ lastId' = new /\ DOMAIN tokens' = {new} /\ tokens'[new].wrong = 0
  BY <1>1, <1>2 DEF Register, Create, TypeOK
<1>4. PastInv'
  <2>1. \A w \in Resenders : resend[w] # Idle => resend[w].account \in Nat
    BY <1>1, EmailAssumption DEF TypeOK, Resend
  <2> QED
    BY <1>1, <1>3, <2>1 DEF PastInv
<1>5. \A w \in Resenders : ~Updated(w)'
  <2> SUFFICES ASSUME NEW w \in Resenders, Updated(w)' PROVE FALSE
    OBVIOUS
  <2>1. resend[w].step = "update" /\ resend[w].account = accounts + 1
    BY <1>3 DEF Updated
  <2>2. resend[w] # Idle
    BY <1>1, <2>1, BusyStep
  <2> QED
    BY <1>1, <1>3, <2>1, <2>2 DEF PastInv
<1>6. MakerInv'
  <2>1. [w \in Resenders |-> 0] \in [Resenders -> 0 .. lastId']
    BY <1>3
  <2> QED
    BY <1>5, <2>1 DEF MakerInv
<1>7. /\ Unused' \subseteq {new} /\ 1 \in Nat
      /\ IsFiniteSet({new}) /\ Cardinality({new}) <= 1
  <2>1. IsFiniteSet({new}) /\ Cardinality({new}) = 1
    BY FS_Singleton, Zenon
  <2> QED
    BY <1>3, <2>1 DEF Unused
<1>8. Left' \in SUBSET ({new} \X (1 .. MaxAttempts))
  BY <1>7 DEF Left
<1>9. Cardinality(Left') \in Nat /\ Cardinality(Left') <= MaxAttempts * 1
  BY <1>7, <1>8, LeftBounded
<1>10. ASSUME NEW i \in Unused'
       PROVE  tokens'[i].wrong + Cardinality(Left')
                + MaxAttempts * Cardinality(Late(i)')
              <= MaxAttempts * (2 * Cardinality(Resenders) - 1)
  <2>1. tokens'[i].wrong = 0
    BY <1>3, <1>7
  <2>2. Late(i)' = {}
    BY <1>5 DEF Late
  <2>3. Cardinality(Late(i)') = 0
    BY <2>2, FS_EmptySet
  <2>4. /\ 2 * Cardinality(Resenders) - 1 \in Nat
        /\ 1 <= 2 * Cardinality(Resenders) - 1
    BY Times
  <2>5. MaxAttempts * 1 <= MaxAttempts * (2 * Cardinality(Resenders) - 1)
    BY <1>7, <2>4, TimesGrows
  <2>6. /\ MaxAttempts * 1 \in Nat /\ MaxAttempts * 0 = 0
        /\ MaxAttempts * (2 * Cardinality(Resenders) - 1) \in Nat
    BY <2>4, Times
  <2> QED
    BY <1>9, <2>1, <2>3, <2>5, <2>6
<1> QED
  BY <1>4, <1>6, <1>10 DEF BudgetInv

\* Steps that insert no row and count no attempt.
LEMMA QuietKeeps ==
  ASSUME GuessInv, UNCHANGED lastId, Untouched, SeesAsMuch
  PROVE  MakerInv' /\ BudgetInv'
<1>1. TypeOK /\ MakerInv /\ BudgetInv
  BY DEF GuessInv, IInv
<1>2. Unused' \subseteq Unused
  BY DEF Untouched
<1> QED
  BY <1>1, <1>2, MakersStay, BudgetStays

LEMMA VerifyUntouched ==
  ASSUME TypeOK, NEW i \in DOMAIN tokens, Verify(i) \/ Expire(i)
  PROVE  Untouched
<1> DEFINE used(t) == [t EXCEPT !.used = TRUE]
           dead(t) == [t EXCEPT !.locked = TRUE, !.used = TRUE]
           old(t) == [t EXCEPT !.expired = TRUE]
<1>1. ASSUME NEW t \in Token
      PROVE  /\ used(t).used /\ dead(t).used /\ old(t).used = t.used
             /\ used(t).wrong = t.wrong /\ dead(t).wrong = t.wrong
             /\ old(t).wrong = t.wrong
             /\ used(t).attempts = t.attempts
             /\ dead(t).attempts = t.attempts
             /\ old(t).attempts = t.attempts
  BY DEF Token
<1>2. \/ tokens' = [tokens EXCEPT ![i] = dead(@)]
      \/ tokens' = [j \in DOMAIN tokens |-> used(tokens[j])]
      \/ tokens' = [tokens EXCEPT ![i] = old(@)]
  BY DEF Verify, Expire, UseAll
<1> HIDE DEF used, dead, old
<1>3. /\ DOMAIN tokens' = DOMAIN tokens
      /\ \A j \in DOMAIN tokens :
           /\ tokens[j].used => tokens'[j].used
           /\ tokens'[j].wrong = tokens[j].wrong
           /\ tokens'[j].attempts = tokens[j].attempts
  BY <1>1, <1>2 DEF TypeOK
<1> QED
  BY <1>3 DEF Untouched, Unused

LEMMA GuessInvInit == Init => GuessInv
<1> SUFFICES ASSUME Init PROVE GuessInv
  OBVIOUS
<1>1. IInv
  BY IInvInit
<1>2. PastInv /\ BudgetInv
  BY DEF Init, PastInv, BudgetInv, NoAccount, Idle, Unused
<1>3. MakerInv
  <2>1. [w \in Resenders |-> 0] \in [Resenders -> 0 .. lastId]
    BY DEF Init
  <2> QED
    BY <2>1 DEF Init, MakerInv, Updated, Idle
<1> QED
  BY <1>1, <1>2, <1>3 DEF GuessInv

LEMMA GuessInvNext ==
  ASSUME GuessInv, [Next]_vars
  PROVE  GuessInv'
<1>i. IInv /\ IInv' /\ TypeOK /\ TypeOK' /\ PastInv
  BY IInvNext DEF GuessInv, IInv
<1> SUFFICES PastInv' /\ MakerInv' /\ BudgetInv'
  BY <1>i DEF GuessInv
<1>1. CASE Register
  BY <1>1, RegisterGuesses
<1>2. ASSUME NEW vouched \in BOOLEAN, ProviderSignIn(vouched)
      PROVE  PastInv' /\ MakerInv' /\ BudgetInv'
  <2>1. UNCHANGED tokens /\ UNCHANGED lastId /\ UNCHANGED resend
    BY <1>2 DEF ProviderSignIn
  <2>2. Untouched
    BY <2>1 DEF Untouched, Unused
  <2>3. CASE Create(vouched)
    <3>1. DOMAIN tokens = {} /\ account'.id = accounts + 1
          /\ accounts' = accounts + 1 /\ accounts \in Nat
      BY <1>i, <2>3 DEF Create, IInv, NobodyInv, NoAccount, TypeOK
    <3>2. SeesAsMuch
      BY <2>1, <3>1 DEF SeesAsMuch, Unused
    <3>3. \A w \in Resenders : resend[w] # Idle => resend[w].account \in Nat
      BY <1>i, EmailAssumption DEF TypeOK, Resend
    <3>4. PastInv'
      BY <1>i, <2>1, <3>1, <3>3 DEF PastInv
    <3> QED
      BY <2>1, <2>2, <3>2, <3>4, QuietKeeps
  <2>4. CASE /\ account' = [account EXCEPT !.verified = TRUE]
             /\ UNCHANGED accounts
    <3>1. account'.id = account.id
      BY <1>i, <2>4 DEF TypeOK
    <3>2. SeesAsMuch /\ PastInv'
      BY <1>i, <2>1, <2>4, <3>1 DEF SeesAsMuch, Updated, PastInv
    <3> QED
      BY <2>1, <2>2, <3>2, QuietKeeps
  <2> QED
    BY <1>2, <2>3, <2>4 DEF ProviderSignIn
<1>3. CASE Deactivate
  <2>1. /\ UNCHANGED tokens /\ UNCHANGED lastId /\ UNCHANGED resend
        /\ UNCHANGED accounts /\ account'.id = account.id
    BY <1>i, <1>3 DEF Deactivate, TypeOK
  <2>2. Untouched /\ SeesAsMuch /\ PastInv'
    BY <1>i, <2>1 DEF Untouched, Unused, SeesAsMuch, Updated, PastInv
  <2> QED
    BY <2>1, <2>2, QuietKeeps
<1>4. CASE Delete
  <2>1. /\ UNCHANGED lastId /\ UNCHANGED resend /\ UNCHANGED accounts
        /\ account'.id = 0 /\ DOMAIN tokens' = {}
    BY <1>4 DEF Delete, NoAccount
  <2>2. Unused' = {}
    BY <2>1 DEF Unused
  <2>3. Untouched /\ SeesAsMuch
    BY <2>2 DEF Untouched, SeesAsMuch
  <2>4. PastInv'
    BY <1>i, <2>1 DEF PastInv, TypeOK
  <2> QED
    BY <2>1, <2>3, <2>4, QuietKeeps
<1>5. ASSUME NEW w \in Resenders, BeginResend(w)
      PROVE  PastInv' /\ MakerInv' /\ BudgetInv'
  <2>1. /\ UNCHANGED tokens /\ UNCHANGED lastId /\ UNCHANGED account
        /\ UNCHANGED accounts
        /\ \A v \in Resenders \ {w} : resend'[v] = resend[v]
        /\ resend'[w].step = "read" /\ resend'[w].account = account.id
    BY <1>i, <1>5 DEF BeginResend, TypeOK
  <2>2. Untouched
    BY <2>1 DEF Untouched, Unused
  <2>3. SeesAsMuch
    BY <2>1 DEF SeesAsMuch, Updated
  <2>4. PastInv'
    BY <1>i, <2>1 DEF PastInv
  <2> QED
    BY <2>1, <2>2, <2>3, <2>4, QuietKeeps
<1>6. ASSUME NEW w \in Resenders, Invalidate(w)
      PROVE  PastInv' /\ MakerInv' /\ BudgetInv'
  <2>1. /\ UNCHANGED tokens /\ UNCHANGED lastId /\ UNCHANGED account
        /\ UNCHANGED accounts
        /\ \A v \in Resenders \ {w} : resend'[v] = resend[v]
        /\ resend'[w] = [resend[w] EXCEPT !.step = "update", !.seen = Unused]
    BY <1>i, <1>6 DEF Invalidate, TypeOK
  <2>2. resend[w] \in Busy /\ resend[w] # Idle
    BY <1>i, <1>6, BusyStep DEF Invalidate
  <2>3. resend'[w].seen = Unused /\ resend'[w].account = resend[w].account
    BY <2>1, <2>2 DEF Busy
  <2>4. Untouched /\ Unused' = Unused
    BY <2>1 DEF Untouched, Unused
  <2>5. SeesAsMuch
    BY <2>1, <2>3, <2>4 DEF SeesAsMuch, Updated
  <2>6. PastInv'
    BY <1>i, <2>1, <2>2, <2>3 DEF PastInv
  <2> QED
    BY <2>1, <2>4, <2>5, <2>6, QuietKeeps
<1>7. ASSUME NEW w \in Resenders, CommitResend(w)
      PROVE  PastInv' /\ MakerInv' /\ BudgetInv'
  <2>1. /\ UNCHANGED account /\ UNCHANGED accounts
        /\ \A v \in Resenders : resend'[v] = IF v = w THEN Idle ELSE resend[v]
    BY <1>i, <1>7 DEF CommitResend, TypeOK
  <2>2. PastInv'
    BY <1>i, <2>1 DEF PastInv
  <2>3. CASE account.id # resend[w].account
    BY <1>i, <1>7, <2>2, <2>3, RefusedResend DEF GuessInv
  <2>4. CASE account.id = resend[w].account
    <3>1. Updated(w)
      BY <1>7, <2>4 DEF Updated, CommitResend
    <3> QED
      BY <1>i, <1>7, <2>2, <3>1, ResendKeepsBudget DEF GuessInv
  <2> QED
    BY <2>3, <2>4
<1>8. CASE WrongAttempt
  <2>1. PastInv'
    BY <1>i, <1>8 DEF WrongAttempt, PastInv
  <2> QED
    BY <1>i, <1>8, <2>1, AttemptBudget DEF GuessInv
<1>9. ASSUME NEW i \in DOMAIN tokens, Verify(i) \/ Expire(i)
      PROVE  PastInv' /\ MakerInv' /\ BudgetInv'
  <2>1. /\ UNCHANGED lastId /\ UNCHANGED resend /\ UNCHANGED accounts
        /\ \/ account' = account
           \/ account' = [account EXCEPT !.verified = TRUE]
    BY <1>9 DEF Verify, Expire
  <2>2. account'.id = account.id
    BY <1>i, <2>1 DEF TypeOK
  <2>3. SeesAsMuch /\ PastInv'
    BY <1>i, <2>1, <2>2 DEF SeesAsMuch, Updated, PastInv
  <2> QED
    BY <1>i, <1>9, <2>1, <2>3, VerifyUntouched, QuietKeeps
<1>10. CASE UNCHANGED vars
  <2>1. /\ UNCHANGED tokens /\ UNCHANGED lastId /\ UNCHANGED account
        /\ UNCHANGED accounts /\ UNCHANGED resend
    BY <1>10 DEF vars
  <2>2. Untouched /\ SeesAsMuch /\ PastInv'
    BY <1>i, <2>1 DEF Untouched, Unused, SeesAsMuch, Updated, PastInv
  <2> QED
    BY <2>1, <2>2, QuietKeeps
<1> QED
  BY <1>1, <1>2, <1>3, <1>4, <1>5, <1>6, <1>7, <1>8, <1>9, <1>10 DEF Next

\* However many resends run at once, a code is dead after at most
\* MaxAttempts wrong attempts for itself and twice as many for every other
\* resender, although an attempt counts against the newest code alone
\* (verify_email, resend_verification_email).
THEOREM GuessesAreBounded == Spec => []GuessesBounded
<1>1. GuessInv => GuessesBounded
  <2> SUFFICES ASSUME GuessInv, NEW i \in Unused
               PROVE  tokens[i].wrong
                        < MaxAttempts * (2 * Cardinality(Resenders) - 1)
    BY DEF GuessesBounded
  <2>1. TypeOK /\ BudgetInv
    BY DEF GuessInv, IInv
  <2>2. /\ tokens[i].attempts \in Nat /\ tokens[i].wrong \in Nat
        /\ tokens[i].attempts < MaxAttempts
    BY <2>1, EmailAssumption DEF TypeOK, Unused, Token
  <2>3. <<i, MaxAttempts>> \in Left
    BY <2>2, EmailAssumption DEF Left
  <2>4. Cardinality(Left) \in Nat /\ Cardinality(Left) # 0
    BY <2>1, <2>3, Countable, FS_EmptySet
  <2>5. tokens[i].wrong + Cardinality(Left)
          + MaxAttempts * Cardinality(Late(i))
        <= MaxAttempts * (2 * Cardinality(Resenders) - 1)
    BY <2>1 DEF BudgetInv
  <2>6. /\ MaxAttempts * Cardinality(Late(i)) \in Nat
        /\ MaxAttempts * (2 * Cardinality(Resenders) - 1) \in Nat
    BY <2>1, Countable, Times
  <2> QED
    BY <2>2, <2>4, <2>5, <2>6
<1>2. GuessInv /\ [Next]_vars => GuessInv'
  BY GuessInvNext
<1> QED
  BY <1>1, <1>2, GuessInvInit, PTL DEF Spec
=============================================================================
