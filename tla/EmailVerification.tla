-------------------------- MODULE EmailVerification --------------------------
(***************************************************************************)
(* The verification codes of ONE e-mail address: registration, resent      *)
(* codes, wrong attempts and verifications running concurrently against    *)
(* users and email_verification_tokens.                                    *)
(*                                                                         *)
(* Verifying and counting a wrong attempt lock the rows they decide on and *)
(* are one action each.  Resending is not: it reads the account without a  *)
(* lock, its UPDATE works on the rows its snapshot shows, and the new row  *)
(* becomes visible when it commits, so each of the three is an action.     *)
(* A row stands for a link token and its six-digit code, which do the same.*)
(***************************************************************************)
EXTENDS Naturals, FiniteSets

CONSTANTS MaxAttempts, \* EMAIL_VERIFICATION_MAX_ATTEMPTS
          Resenders,   \* concurrent requests to resend
          MaxTokens,   \* bound: resends begun and rows inserted
          MaxAccounts  \* bound: accounts registered one after the other

ASSUME EmailAssumption ==
  /\ MaxAttempts \in Nat \ {0} /\ MaxTokens \in Nat /\ MaxAccounts \in Nat
  /\ IsFiniteSet(Resenders) /\ Resenders # {}

VARIABLES account,  \* the account with the address; id 0 if there is none
          tokens,   \* the rows of email_verification_tokens, by id
          lastId,   \* the sequence behind the ids
          accounts, \* accounts registered so far
          now,      \* start of the latest transaction that inserts a row
          resend    \* resend[w]: the transaction of resender w

vars == <<account, tokens, lastId, accounts, now, resend>>

NoAccount == [id |-> 0, verified |-> FALSE, active |-> FALSE]
Idle      == [step |-> "idle"]
Ids       == 1 .. MaxTokens

\* `wrong` and `before` are for the properties: wrong attempts since the row
\* exists, and the rows that were there when its transaction began.
Token ==
  [account: 0 .. MaxAccounts, created: 1 .. MaxTokens,
   attempts: 0 .. MaxAttempts, used: BOOLEAN, locked: BOOLEAN,
   expired: BOOLEAN, wrong: Nat, before: SUBSET Ids]

Resend ==
  [step: {"read", "update"}, account: 1 .. MaxAccounts,
   created: 1 .. MaxTokens, seen: SUBSET Ids, before: SUBSET Ids] \cup {Idle}

TypeOK ==
  /\ account \in [id: 0 .. MaxAccounts, verified: BOOLEAN, active: BOOLEAN]
  /\ lastId \in 0 .. MaxTokens /\ now \in 0 .. MaxTokens
  /\ accounts \in 0 .. MaxAccounts
  /\ DOMAIN tokens \subseteq 1 .. lastId
  /\ \A i \in DOMAIN tokens :
       /\ tokens[i] \in Token
       /\ tokens[i].attempts = MaxAttempts => tokens[i].locked
       /\ tokens[i].locked => tokens[i].used
  /\ resend \in [Resenders -> Resend]

Init ==
  /\ account = NoAccount
  /\ tokens = [i \in {} |-> {}]
  /\ lastId = 0 /\ accounts = 0 /\ now = 0
  /\ resend = [w \in Resenders |-> Idle]

Unused == {i \in DOMAIN tokens : ~tokens[i].used}

\* INSERT INTO email_verification_tokens, after some rows were invalidated.
Insert(invalidated, created, before) ==
  /\ lastId' = lastId + 1
  /\ tokens' =
       [i \in DOMAIN tokens \cup {lastId + 1} |->
          IF i = lastId + 1
            THEN [account |-> account.id, created |-> created, attempts |-> 0,
                  used |-> FALSE, locked |-> FALSE, expired |-> FALSE,
                  wrong |-> 0, before |-> before]
          ELSE IF i \in invalidated
            THEN [tokens[i] EXCEPT !.used = TRUE, !.locked = TRUE]
          ELSE tokens[i]]

-----------------------------------------------------------------------------
(***************************************************************************)
(* Accounts.                                                               *)
(***************************************************************************)
Create(verified) ==
  /\ account = NoAccount
  /\ accounts < MaxAccounts
  /\ accounts' = accounts + 1
  /\ account' = [id |-> accounts + 1, verified |-> verified, active |-> TRUE]

\* /auth/register: the account and its first row in one transaction.
Register ==
  /\ now < MaxTokens /\ lastId < MaxTokens
  /\ Create(FALSE)
  /\ now' = now + 1
  /\ lastId' = lastId + 1
  /\ tokens' = [i \in {lastId + 1} |->
                  [account |-> accounts + 1, created |-> now + 1,
                   attempts |-> 0, used |-> FALSE, locked |-> FALSE,
                   expired |-> FALSE, wrong |-> 0, before |-> {}]]
  /\ UNCHANGED resend

\* authenticate_with_provider for this address: a new account, or the
\* existing one linked and verified if the provider vouches for the address.
ProviderSignIn(vouched) ==
  /\ \/ Create(vouched)
     \/ /\ account # NoAccount /\ vouched /\ account.active
        /\ account' = [account EXCEPT !.verified = TRUE]
        /\ UNCHANGED accounts
  /\ UNCHANGED <<tokens, lastId, now, resend>>

Deactivate ==
  /\ account.active
  /\ account' = [account EXCEPT !.active = FALSE]
  /\ UNCHANGED <<tokens, lastId, accounts, now, resend>>

\* delete_current_account; the rows go with the account (ON DELETE CASCADE).
Delete ==
  /\ account.active
  /\ account' = NoAccount
  /\ tokens' = [i \in {} |-> {}]
  /\ UNCHANGED <<lastId, accounts, now, resend>>

-----------------------------------------------------------------------------
(***************************************************************************)
(* /auth/resend-verification-email                                         *)
(***************************************************************************)
BeginResend(w) ==
  /\ resend[w] = Idle
  /\ account.active /\ ~account.verified
  /\ now < MaxTokens
  /\ now' = now + 1
  /\ resend' = [resend EXCEPT ![w] =
       [step |-> "read", account |-> account.id, created |-> now + 1,
        seen |-> {}, before |-> DOMAIN tokens]]
  /\ UNCHANGED <<account, tokens, lastId, accounts>>

\* Mutated: only the newest code is invalidated.
InvalidateNewest(w) ==
  /\ resend[w].step = "read"
  /\ resend' = [resend EXCEPT ![w].step = "update",
       ![w].seen = {i \in Unused : \A j \in Unused : j <= i}]
  /\ UNCHANGED <<account, tokens, lastId, accounts, now>>

\* UPDATE ... SET used_at, locked_at WHERE used_at IS NULL: what it finds.
Invalidate(w) ==
  /\ resend[w].step = "read"
  /\ resend' = [resend EXCEPT ![w].step = "update", ![w].seen = Unused]
  /\ UNCHANGED <<account, tokens, lastId, accounts, now>>

\* Mutated: no foreign key, the row is inserted for whoever has the address.
CommitResendUnchecked(w) ==
  /\ resend[w].step = "update"
  /\ lastId < MaxTokens
  /\ Insert(resend[w].seen \cap Unused, resend[w].created, resend[w].before)
  /\ resend' = [resend EXCEPT ![w] = Idle]
  /\ UNCHANGED <<account, accounts, now>>

\* INSERT and COMMIT.  A row used meanwhile stays as it is, and the foreign
\* key refuses an account deleted meanwhile.
CommitResend(w) ==
  /\ resend[w].step = "update"
  /\ lastId < MaxTokens
  /\ IF account.id = resend[w].account
       THEN Insert(resend[w].seen \cap Unused, resend[w].created,
                   resend[w].before)
       ELSE UNCHANGED <<tokens, lastId>>
  /\ resend' = [resend EXCEPT ![w] = Idle]
  /\ UNCHANGED <<account, accounts, now>>

-----------------------------------------------------------------------------
(***************************************************************************)
(* /auth/verify-email                                                      *)
(***************************************************************************)

\* ORDER BY created_at DESC, id DESC
Newer(i, j) ==
  \/ tokens[i].created > tokens[j].created
  \/ tokens[i].created = tokens[j].created /\ i > j

Newest(i) == i \in Unused /\ \A j \in Unused \ {i} : Newer(i, j)

Counted(t) ==
  LET exceeded == t.attempts + 1 >= MaxAttempts
  IN [t EXCEPT !.attempts = @ + 1,
               !.used = @ \/ exceeded, !.locked = @ \/ exceeded]

\* Mutated: the error rolls the counted attempt back.
WrongAttemptRolledBack ==
  /\ account # NoAccount /\ Unused # {}
  /\ tokens' = [i \in DOMAIN tokens |-> [tokens[i] EXCEPT !.wrong = @ + 1]]
  /\ UNCHANGED <<account, lastId, accounts, now, resend>>

\* A code that is none of the account's: the attempt counts against the
\* newest unused row.
WrongAttempt ==
  /\ account # NoAccount
  /\ \E latest \in DOMAIN tokens :
       /\ Newest(latest)
       /\ tokens' = [i \in DOMAIN tokens |->
            [(IF i = latest THEN Counted(tokens[i]) ELSE tokens[i])
               EXCEPT !.wrong = @ + 1]]
  /\ UNCHANGED <<account, lastId, accounts, now, resend>>

Exhausted(i) == tokens[i].locked \/ tokens[i].attempts >= MaxAttempts
Alive(i) ==
  ~Exhausted(i) /\ ~tokens[i].expired /\ ~tokens[i].used

UseAll(i) == [j \in DOMAIN tokens |-> [tokens[j] EXCEPT !.used = TRUE]]

\* A code of the account.  Every other outcome is an error that changes
\* nothing: exhausted, already verified, expired, used, inactive.
Verify(i) ==
  /\ \/ /\ Exhausted(i)
        /\ tokens' = [tokens EXCEPT ![i].locked = TRUE, ![i].used = TRUE]
        /\ UNCHANGED account
     \/ /\ Alive(i) /\ ~account.verified /\ account.active
        /\ account' = [account EXCEPT !.verified = TRUE]
        /\ tokens' = UseAll(i)
  /\ UNCHANGED <<lastId, accounts, now, resend>>

Expire(i) ==
  /\ ~tokens[i].expired
  /\ tokens' = [tokens EXCEPT ![i].expired = TRUE]
  /\ UNCHANGED <<account, lastId, accounts, now, resend>>

-----------------------------------------------------------------------------
Next ==
  \/ Register \/ Deactivate \/ Delete
  \/ \E vouched \in BOOLEAN : ProviderSignIn(vouched)
  \/ \E w \in Resenders : BeginResend(w) \/ Invalidate(w) \/ CommitResend(w)
  \/ WrongAttempt
  \/ \E i \in DOMAIN tokens : Verify(i) \/ Expire(i)

Spec == Init /\ [][Next]_vars

-----------------------------------------------------------------------------
(***************************************************************************)
(* Properties.                                                             *)
(***************************************************************************)

\* tests/test_auth_email_sessions.py: a resend invalidates the previous
\* code.  With resends running at once only the rows that were there when a
\* resend began are sure to be dead once it has committed.
ResendInvalidates ==
  \A i, j \in DOMAIN tokens : i \in tokens[j].before => tokens[i].used

\* A code outlives only a bounded number of wrong attempts, although they
\* are counted against the newest code alone and concurrent resends leave
\* several alive: MaxAttempts for itself and, for every other resender, for
\* a code that was there already and for one committed later.
GuessesBounded ==
  \A i \in Unused :
    tokens[i].wrong < MaxAttempts * (2 * Cardinality(Resenders) - 1)

\* The account is verified by a provider, which touches no code, or by a
\* code that was alive, and then every code of the account is used up, those
\* of concurrent resends included.
CodesConsumed ==
  [][(account'.id = account.id /\ ~account.verified /\ account'.verified)
       => \/ tokens' = tokens
          \/ /\ \E i \in DOMAIN tokens : Alive(i)
             /\ \A i \in DOMAIN tokens : tokens'[i].used]_vars

\* Every code belongs to the account that has the address now: a resend
\* cannot hand a code of a deleted account to its successor.
NoOrphanCodes ==
  \A i \in DOMAIN tokens : tokens[i].account = account.id
=============================================================================
