--------------------------- MODULE AccountSessions ---------------------------
(***************************************************************************)
(* The accounts of one person, one after the other: sign-in by password or *)
(* with Apple, sessions and the rotation of their refresh tokens, logout,  *)
(* and deletion with the revocation of the Apple refresh token.            *)
(*                                                                         *)
(* A refresh holds the row of its session from its SELECT to its UPDATE,   *)
(* but reads the account without a lock.  Signing in with Apple talks to   *)
(* Apple before its transaction, and a deletion reads the stored token,    *)
(* talks to Apple and deletes in three steps with nothing held between     *)
(* them: other requests, and crashes, come in between.                     *)
(* EmailVerification says how an account becomes verified by a code.       *)
(***************************************************************************)
EXTENDS AppleRevocation

CONSTANTS MaxAccounts, MaxSessions, \* bounds: accounts and sessions created
          MaxRefresh,               \* bound: exchanges of one session
          Workers                   \* concurrent requests

ASSUME SessionsAssumption ==
  MaxAccounts \in Nat /\ MaxSessions \in Nat /\ MaxRefresh \in Nat

VARIABLES user,     \* the row of users with its Apple provider row
          accounts, \* accounts created so far
          sessions, \* the rows of user_sessions, by id
          created,  \* sessions created so far
          request,  \* request[w]: what worker w is doing
          owed      \* tokens a completed deletion had read (for the
                    \* properties)

accountVars == <<user, accounts, sessions, created, request, owed>>
vars == <<revocationVars, accountVars>>

\* `stored` is apple_refresh_token_ciphertext, 0 for NULL; `link` says whether
\* there is a provider row, and with a verified e-mail.
User ==
  [id: 0 .. MaxAccounts, verified: BOOLEAN, active: BOOLEAN,
   password: BOOLEAN, link: {"none", "unverified", "verified"},
   stored: 0 .. MaxApple]

NoUser == [id |-> 0, verified |-> FALSE, active |-> FALSE,
           password |-> FALSE, link |-> "none", stored |-> 0]

\* The refresh tokens a session was given are numbered; `token` is the one
\* whose hash is stored.  answered[k] counts, for the properties, the requests
\* that presented token k and were answered with a new one.
Session ==
  [account: 1 .. MaxAccounts, token: 0 .. MaxRefresh, revoked: BOOLEAN,
   answered: [0 .. MaxRefresh -> Nat]]

Waiting == [kind |-> "none"]
Request ==
  [kind: {"refresh"}, session: 1 .. MaxSessions, token: 0 .. MaxRefresh]
  \cup [kind: {"login"}, account: 1 .. MaxAccounts]
  \cup [kind: {"apple"}, vouched: BOOLEAN, token: 0 .. MaxApple]
  \cup [kind: {"delete"}, account: 1 .. MaxAccounts, token: 0 .. MaxApple,
        step: {"lookup", "revoke", "pending", "dropped", "delete"}]
  \cup {Waiting}

TypeOK ==
  /\ RevocationTypeOK
  /\ user \in User
  /\ accounts \in 0 .. MaxAccounts
  /\ created \in 0 .. MaxSessions
  /\ DOMAIN sessions \subseteq 1 .. created
  /\ \A s \in DOMAIN sessions : sessions[s] \in Session
  /\ request \in [Workers -> Request]
  /\ owed \subseteq 1 .. issued

Init ==
  /\ RevocationInit
  /\ user = NoUser
  /\ accounts = 0 /\ created = 0
  /\ sessions = [s \in {} |-> {}]
  /\ request = [w \in Workers |-> Waiting]
  /\ owed = {}

\* The row lock of SELECT ... FOR UPDATE OF s.
Held(s) == \E w \in Workers : request[w].kind = "refresh"
                              /\ request[w].session = s

\* create_user_session
OpenSession(account) ==
  /\ created < MaxSessions
  /\ created' = created + 1
  /\ sessions' =
       [s \in DOMAIN sessions \cup {created + 1} |->
          IF s = created + 1
            THEN [account |-> account, token |-> 0, revoked |-> FALSE,
                  answered |-> [k \in 0 .. MaxRefresh |-> 0]]
            ELSE sessions[s]]

Answer(w) == request' = [request EXCEPT ![w] = Waiting]

-----------------------------------------------------------------------------
(***************************************************************************)
(* Sign-in.                                                                *)
(***************************************************************************)
Create(row) ==
  /\ user = NoUser
  /\ accounts < MaxAccounts
  /\ accounts' = accounts + 1
  /\ user' = [row EXCEPT !.id = accounts + 1]

\* /auth/register
Register ==
  /\ Create([NoUser EXCEPT !.active = TRUE, !.password = TRUE])
  /\ UNCHANGED <<sessions, created, request, owed, revocationVars>>

\* A code verifies the address; an operator deactivates an account or takes
\* that back.
VerifyEmail ==
  /\ user.active /\ ~user.verified
  /\ user' = [user EXCEPT !.verified = TRUE]
  /\ UNCHANGED <<accounts, sessions, created, request, owed, revocationVars>>

SetActive(b) ==
  /\ user # NoUser /\ user.active # b
  /\ user' = [user EXCEPT !.active = b]
  /\ UNCHANGED <<accounts, sessions, created, request, owed, revocationVars>>

\* /auth/login: the account and its password hash are read without a lock.
StartLogin(w) ==
  /\ request[w] = Waiting
  /\ user.password /\ user.active /\ user.verified
  /\ request' = [request EXCEPT ![w] =
       [kind |-> "login", account |-> user.id]]
  /\ UNCHANGED <<user, accounts, sessions, created, owed, revocationVars>>

\* Mutated: no foreign key, the session is opened for whoever was read.
LoginUnchecked(w) ==
  /\ request[w].kind = "login"
  /\ OpenSession(request[w].account)
  /\ Answer(w)
  /\ UNCHANGED <<user, accounts, owed, revocationVars>>

\* The session is inserted; the foreign key refuses an account deleted
\* meanwhile.
Login(w) ==
  /\ request[w].kind = "login"
  /\ IF user.id = request[w].account
       THEN OpenSession(user.id)
       ELSE UNCHANGED <<sessions, created>>
  /\ Answer(w)
  /\ UNCHANGED <<user, accounts, owed, revocationVars>>

\* /auth/apple: the authorization code is exchanged, unless there is none or
\* Apple fails.
StartApple(w, vouched) ==
  /\ request[w] = Waiting
  /\ \/ /\ Issue
        /\ request' = [request EXCEPT ![w] =
             [kind |-> "apple", vouched |-> vouched, token |-> issued + 1]]
     \/ /\ request' = [request EXCEPT ![w] =
             [kind |-> "apple", vouched |-> vouched, token |-> 0]]
        /\ UNCHANGED <<issued, valid>>
  /\ UNCHANGED <<queue, batch, givenUp, user, accounts, sessions, created,
                 owed>>

\* The provider row, new or found, and what it says of the address.
Linked(row, vouched) ==
  IF row.link # "none" THEN row
  ELSE [row EXCEPT !.link = IF vouched THEN "verified" ELSE "unverified",
                   !.verified = @ \/ vouched]

\* authenticate_with_provider: the linked account, the account with the same
\* verified address, or a new one; then the token, then the session.
AppleSignIn(w) ==
  LET r == request[w]
      row == IF user = NoUser
               THEN [NoUser EXCEPT !.id = accounts + 1, !.active = TRUE]
               ELSE user
      linked == Linked(row, r.vouched)
  IN /\ r.kind = "apple"
     /\ IF \/ user = NoUser /\ accounts = MaxAccounts
           \/ user # NoUser /\ user.link = "none" /\ ~r.vouched
           \/ ~row.active
          THEN UNCHANGED <<user, accounts, sessions, created>>
          ELSE /\ user' = [linked EXCEPT !.stored =
                             IF r.token = 0 THEN @ ELSE r.token]
               /\ accounts' = IF user = NoUser THEN accounts + 1 ELSE accounts
               /\ OpenSession(row.id)
     /\ Answer(w)
     /\ UNCHANGED <<owed, revocationVars>>

-----------------------------------------------------------------------------
(***************************************************************************)
(* Sessions.                                                               *)
(***************************************************************************)

\* Mutated: the session is looked up by its id alone, whatever token came.
MatchesSession(s, token) ==
  s \in DOMAIN sessions /\ ~sessions[s].revoked

\* The WHERE clauses of the SELECT, with the check that follows it, and of the
\* UPDATE: the session with this refresh token, unless it is logged out.
Matches(s, token) ==
  /\ s \in DOMAIN sessions
  /\ sessions[s].token = token /\ ~sessions[s].revoked

\* refresh_user_session, SELECT ... FOR UPDATE OF s.  A client may present any
\* refresh token it was given, and several requests the same one: while one
\* holds the row the others wait, and their WHERE is evaluated on the row they
\* then find.  A session that has expired, which may be any, or whose account
\* may not use it is refused: the UPDATE that would revoke it is rolled back
\* by the exception that follows it.
StartRefresh(w, s, token) ==
  /\ request[w] = Waiting
  /\ ~Held(s)
  /\ Matches(s, token)
  /\ user.active /\ (user.verified \/ user.link = "verified")
  /\ token < MaxRefresh
  /\ request' = [request EXCEPT ![w] =
       [kind |-> "refresh", session |-> s, token |-> token]]
  /\ UNCHANGED <<user, accounts, sessions, created, owed, revocationVars>>

\* The answer to a request that presented this token.
Rotated(row, token) ==
  [row EXCEPT !.token = @ + 1, !.revoked = FALSE, !.answered[token] = @ + 1]

\* Mutated: UPDATE ... WHERE user_id instead of WHERE id.
RotateAll(w) ==
  LET s == request[w].session
  IN /\ request[w].kind = "refresh"
     /\ sessions' = [r \in DOMAIN sessions |->
          IF r = s THEN Rotated(sessions[r], request[w].token)
          ELSE [sessions[r] EXCEPT !.revoked = FALSE]]
     /\ Answer(w)
     /\ UNCHANGED <<user, accounts, created, owed, revocationVars>>

\* UPDATE ... WHERE id, refresh_token_hash and revoked_at IS NULL; COMMIT.
\* A row the UPDATE does not find refuses the request.
Rotate(w) ==
  LET s == request[w].session
      token == request[w].token
  IN /\ request[w].kind = "refresh"
     /\ IF Matches(s, token)
          THEN sessions' = [sessions EXCEPT ![s] = Rotated(@, token)]
          ELSE UNCHANGED sessions
     /\ Answer(w)
     /\ UNCHANGED <<user, accounts, created, owed, revocationVars>>

\* revoke_current_session; the UPDATE waits for a refresh of the session.
Logout(s) ==
  /\ ~sessions[s].revoked /\ ~Held(s)
  /\ sessions' = [sessions EXCEPT ![s].revoked = TRUE]
  /\ UNCHANGED <<user, accounts, created, request, owed, revocationVars>>

-----------------------------------------------------------------------------
(***************************************************************************)
(* delete_current_account                                                  *)
(***************************************************************************)
StartDelete(w, s) ==
  /\ request[w] = Waiting
  /\ ~sessions[s].revoked /\ user.active
  /\ request' = [request EXCEPT ![w] =
       [kind |-> "delete", account |-> sessions[s].account, token |-> 0,
        step |-> "lookup"]]
  /\ UNCHANGED <<user, accounts, sessions, created, owed, revocationVars>>

LookUpToken(w) ==
  LET token == IF user.id = request[w].account THEN user.stored ELSE 0
  IN /\ request[w].kind = "delete" /\ request[w].step = "lookup"
     /\ request' = [request EXCEPT ![w].token = token,
          ![w].step = IF token = 0 THEN "delete" ELSE "revoke"]
     /\ UNCHANGED <<user, accounts, sessions, created, owed, revocationVars>>

Outcome(outcome) ==
  CASE outcome = "revoked" -> "delete"
    [] outcome = "retry"   -> "pending"
    [] outcome = "failed"  -> "dropped"

RevokeToken(w) ==
  /\ request[w].kind = "delete" /\ request[w].step = "revoke"
  /\ \E outcome \in {"revoked", "retry", "failed"} :
       /\ AsksApple(request[w].token, outcome)
       /\ request' = [request EXCEPT ![w].step = Outcome(outcome)]
  /\ UNCHANGED <<issued, queue, batch, givenUp, user, accounts, sessions,
                 created, owed>>

\* What the deletion leaves of the sessions.
Remaining(account) ==
  {s \in DOMAIN sessions : sessions[s].account # account}

MayDelete(w) ==
  LET r == request[w]
  IN /\ r.kind = "delete" /\ r.step \in {"pending", "dropped", "delete"}
     /\ r.step = "pending" => ~Locked(r.token)
     /\ \A s \in DOMAIN sessions : sessions[s].account = r.account => ~Held(s)

\* Mutated: the token is queued in a transaction of its own, before the
\* account is deleted.
DeleteAfterQueueing(w) ==
  LET r == request[w]
  IN /\ MayDelete(w)
     /\ r.step = "pending"
     /\ queue' = Enqueued(r.token)
     /\ request' = [request EXCEPT ![w].step = "delete"]
     /\ UNCHANGED <<user, sessions, owed, givenUp, issued, valid, batch,
                    accounts, created>>

\* One transaction: the token is queued if Apple could not be asked, the
\* sessions and the account go; without the account it is rolled back.
DeleteAccount(w) ==
  LET r == request[w]
  IN /\ MayDelete(w)
     /\ IF user.id = r.account
          THEN /\ user' = NoUser
               /\ sessions' = [s \in Remaining(r.account) |-> sessions[s]]
               /\ owed' = owed \cup ({r.token} \ {0})
               /\ queue' = IF r.step = "pending" THEN Enqueued(r.token)
                           ELSE queue
               /\ givenUp' = IF r.step = "dropped"
                               THEN givenUp \cup {r.token} ELSE givenUp
          ELSE UNCHANGED <<user, sessions, owed, queue, givenUp>>
     /\ Answer(w)
     /\ UNCHANGED <<issued, valid, batch, accounts, created>>

\* A request fails or its server stops between two steps.
Crash(w) ==
  /\ request[w] # Waiting
  /\ Answer(w)
  /\ UNCHANGED <<user, accounts, sessions, created, owed, revocationVars>>

-----------------------------------------------------------------------------
WorkerStep(w) ==
  \/ \E vouched \in BOOLEAN : StartApple(w, vouched)
  \/ AppleSignIn(w) \/ StartLogin(w) \/ Login(w)
  \/ \E s \in DOMAIN sessions :
       \/ \E token \in 0 .. MaxRefresh : StartRefresh(w, s, token)
       \/ StartDelete(w, s)
  \/ Rotate(w) \/ LookUpToken(w) \/ RevokeToken(w) \/ DeleteAccount(w)
  \/ Crash(w)

Next ==
  \/ Register \/ VerifyEmail
  \/ \E b \in BOOLEAN : SetActive(b)
  \/ \E w \in Workers : WorkerStep(w)
  \/ \E s \in DOMAIN sessions : Logout(s)
  \/ RevocationStep /\ UNCHANGED accountVars

Spec == Init /\ [][Next]_vars

\* The cron job and the servers keep processing the queue, and in the end a
\* batch is not interrupted; retention ends.
FairSpec ==
  /\ Spec
  /\ \A p \in Processors : WF_vars(ProcessorStep(p) /\ UNCHANGED accountVars)
  /\ \A t \in AppleTokens : WF_vars(Expire(t) /\ UNCHANGED accountVars)
  /\ <>[][\A p \in Processors : ~CrashBatch(p)]_vars

-----------------------------------------------------------------------------
(***************************************************************************)
(* Properties.                                                             *)
(***************************************************************************)

\* A refresh token is exchanged once: of the requests that present it, at the
\* same time or one after the other, at most one is answered with new tokens
\* (tests/test_auth_email_sessions.py:582).
ExchangedOnce ==
  \A s \in DOMAIN sessions, token \in 0 .. MaxRefresh :
    sessions[s].answered[token] <= 1

\* A session that was logged out stays so until it is deleted, although
\* every rotation writes revoked_at = NULL.
LogoutIsFinal ==
  [][\A s \in DOMAIN sessions \cap DOMAIN sessions' :
       sessions[s].revoked => sessions'[s].revoked]_vars

\* Sessions belong to the account that exists: none survives a deletion, and
\* no sign-in that was under way opens one for the deleted account.
NoOrphanSessions ==
  \A s \in DOMAIN sessions : sessions[s].account = user.id

\* The Apple token a deletion has read is accounted for once the account is
\* gone: Apple does not accept it any more, or it waits in the queue, or
\* Apple rejected it or its retention ended.  Crashes of the deletion or of
\* the queue at any step, and deletions racing each other, change nothing.
TokensAccountedFor ==
  \A t \in owed : \/ t \notin valid
                  \/ queue[t].status = "pending"
                  \/ t \in givenUp

\* The queue never revokes the token of an account that exists.
QueueSparesAccounts ==
  user.stored # 0 => queue[user.stored] = NoRow

\* Every queued token leaves the queue or fails for good, whatever Apple
\* answers.
QueueSettles ==
  \A t \in AppleTokens :
    queue[t].status = "pending" ~> queue[t].status # "pending"
=============================================================================
