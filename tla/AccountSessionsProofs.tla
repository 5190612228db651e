------------------------ MODULE AccountSessionsProofs ------------------------
(***************************************************************************)
(* Proofs about AccountSessions and the queue of AppleRevocation, for      *)
(* every number of workers, processors, accounts, sessions and tokens: no  *)
(* Apple token is lost or revoked too early, and sessions follow their     *)
(* account.                                                                *)
(***************************************************************************)
EXTENDS AccountSessions, TLAPS

-----------------------------------------------------------------------------
(***************************************************************************)
(* The queue.                                                              *)
(***************************************************************************)

\* Rows are for tokens Apple has issued, and a batch that says Apple revoked
\* a token is right.
QueueInv ==
  /\ RevocationTypeOK
  /\ \A t \in AppleTokens : queue[t] # NoRow => t <= issued
  /\ \A p \in Processors, t \in AppleTokens :
       batch[p][t] = "revoked" => t \notin valid

\* What steps of the queue do not do: make a row, make a token valid or take
\* back that a token was given up; a row that is no longer pending was for a
\* token that Apple revoked or that is given up now.
QueueStep ==
  /\ issued' = issued
  /\ valid' \subseteq valid /\ givenUp \subseteq givenUp'
  /\ \A t \in AppleTokens :
       /\ queue[t] = NoRow => queue'[t] = NoRow
       /\ queue[t].status = "pending" =>
            \/ queue'[t].status = "pending" \/ t \notin valid \/ t \in givenUp'

LEMMA RowFacts ==
  /\ NoRow.status = "none"
  /\ \A r \in Row :
       /\ r # NoRow /\ [r EXCEPT !.due = TRUE] \in Row
       /\ [r EXCEPT !.due = FALSE] \in Row /\ [r EXCEPT !.expired = TRUE] \in Row
       /\ [r EXCEPT !.status = "failed"] \in Row
       /\ [r EXCEPT !.due = TRUE].status = r.status
       /\ [r EXCEPT !.due = FALSE].status = r.status
       /\ [r EXCEPT !.expired = TRUE].status = r.status
<1>1. NoRow.status = "none"
  BY DEF NoRow
<1>2. ASSUME NEW r \in Row PROVE r # NoRow
  BY <1>1 DEF Row
<1>3. ASSUME NEW r \in Row
      PROVE  /\ [r EXCEPT !.due = TRUE] \in Row
             /\ [r EXCEPT !.due = FALSE] \in Row
             /\ [r EXCEPT !.expired = TRUE] \in Row
             /\ [r EXCEPT !.status = "failed"] \in Row
  BY DEF Row
<1>4. ASSUME NEW r \in Row
      PROVE  /\ [r EXCEPT !.due = TRUE].status = r.status
             /\ [r EXCEPT !.due = FALSE].status = r.status
             /\ [r EXCEPT !.expired = TRUE].status = r.status
  BY DEF Row
<1> QED
  BY <1>1, <1>2, <1>3, <1>4

LEMMA TakeStep ==
  ASSUME QueueInv, NEW p \in Processors, Take(p)
  PROVE  QueueInv' /\ QueueStep
<1> USE DEF QueueInv, RevocationTypeOK
<1> DEFINE taken == [t \in AppleTokens |->
                       IF queue[t].expired THEN "expired"
                       ELSE IF queue[t].status = "pending" /\ queue[t].due /\ ~Locked(t)
                         THEN "unasked"
                       ELSE Free]
<1>1. batch' = [batch EXCEPT ![p] = taken] /\ UNCHANGED <<issued, valid, queue, givenUp>>
  BY DEF Take
<1>2. \A t \in AppleTokens :
        /\ taken[t] \in {"expired", "unasked", Free}
        /\ taken[t] # Free => ~Locked(t) /\ queue[t] # NoRow
  BY RowFacts DEF Take, NoRow, Free
<1>3. taken \in [AppleTokens -> Outcomes \cup {Free}]
  BY <1>2 DEF Outcomes
<1> HIDE DEF taken
<1>4. \A q \in Processors : batch'[q] = IF q = p THEN taken ELSE batch[q]
  BY <1>1
<1>5. batch' \in [Processors -> [AppleTokens -> Outcomes \cup {Free}]]
  BY <1>1, <1>3
<1>6. \A q \in Processors, t \in AppleTokens :
        batch'[q][t] # Free => /\ queue'[t] # NoRow
                               /\ \A r \in Processors \ {q} : batch'[r][t] = Free
  BY <1>1, <1>2, <1>4 DEF Locked
<1>7. \A q \in Processors, t \in AppleTokens : batch'[q][t] = "revoked" => t \notin valid'
  BY <1>1, <1>2, <1>4 DEF Free
<1> QED
  BY <1>1, <1>5, <1>6, <1>7 DEF QueueStep

LEMMA AskStep ==
  ASSUME QueueInv, NEW p \in Processors, Ask(p)
  PROVE  QueueInv' /\ QueueStep
<1> USE DEF QueueInv, RevocationTypeOK
<1>1. PICK t \in AppleTokens, outcome \in {"revoked", "retry", "failed"} :
        /\ batch[p][t] = "unasked"
        /\ AsksApple(t, outcome)
        /\ batch' = [batch EXCEPT ![p][t] = outcome]
        /\ UNCHANGED <<issued, queue, givenUp>>
  BY DEF Ask
<1>2. valid' \subseteq valid /\ (outcome = "revoked" => t \notin valid')
  BY <1>1 DEF AsksApple
<1>3. \A q \in Processors, u \in AppleTokens :
        batch'[q][u] = IF q = p /\ u = t THEN outcome ELSE batch[q][u]
  BY <1>1
<1>4. batch' \in [Processors -> [AppleTokens -> Outcomes \cup {Free}]]
  BY <1>1 DEF Outcomes
<1>5. \A q \in Processors, u \in AppleTokens :
        batch'[q][u] # Free => /\ queue'[u] # NoRow
                               /\ \A r \in Processors \ {q} : batch'[r][u] = Free
  BY <1>1, <1>3 DEF Free
<1>6. \A q \in Processors, u \in AppleTokens : batch'[q][u] = "revoked" => u \notin valid'
  BY <1>2, <1>3
<1> QED
  BY <1>1, <1>2, <1>4, <1>5, <1>6 DEF QueueStep

LEMMA CommitStep ==
  ASSUME QueueInv, NEW p \in Processors, CommitBatch(p)
  PROVE  QueueInv' /\ QueueStep
<1> USE DEF QueueInv, RevocationTypeOK
<1>1. /\ queue' = [t \in AppleTokens |-> Processed(queue[t], batch[p][t])]
      /\ givenUp' = givenUp \cup
           {t \in AppleTokens : batch[p][t] \in {"expired", "failed"}}
      /\ batch' = [batch EXCEPT ![p] = Idle]
      /\ UNCHANGED <<issued, valid>>
  BY DEF CommitBatch
<1>2. \A q \in Processors, t \in AppleTokens :
        batch'[q][t] = IF q = p THEN Free ELSE batch[q][t]
  BY <1>1 DEF Idle
<1>3. batch' \in [Processors -> [AppleTokens -> Outcomes \cup {Free}]]
  BY <1>1 DEF Idle
<1>4. ASSUME NEW t \in AppleTokens
      PROVE  /\ Processed(queue[t], batch[p][t]) \in Row \cup {NoRow}
             /\ batch[p][t] = Free => Processed(queue[t], batch[p][t]) = queue[t]
             /\ queue[t] = NoRow => Processed(queue[t], batch[p][t]) = NoRow
             /\ queue[t].status = "pending" =>
                  \/ Processed(queue[t], batch[p][t]).status = "pending"
                  \/ batch[p][t] \in {"revoked", "expired", "failed"}
  BY RowFacts DEF Processed, Outcomes, Free
<1>5. queue' \in [AppleTokens -> Row \cup {NoRow}]
  BY <1>1, <1>4
<1>6. \A q \in Processors, t \in AppleTokens :
        batch'[q][t] # Free => /\ queue'[t] # NoRow
                               /\ \A r \in Processors \ {q} : batch'[r][t] = Free
  BY <1>1, <1>2, <1>4
<1>7. givenUp' \subseteq 1 .. issued
  <2>1. ASSUME NEW t \in AppleTokens, batch[p][t] # Free
        PROVE  t \in 1 .. issued
    BY <2>1, RevocationAssumption DEF AppleTokens
  <2> QED
    BY <1>1, <2>1 DEF Free
<1>8. QueueStep
  BY <1>1, <1>4 DEF QueueStep
<1>9. \A t \in AppleTokens : queue'[t] # NoRow => t <= issued'
  BY <1>1, <1>4
<1>10. \A q \in Processors, t \in AppleTokens : batch'[q][t] = "revoked" => t \notin valid'
  BY <1>1, <1>2 DEF Free
<1> QED
  BY <1>1, <1>3, <1>5, <1>6, <1>7, <1>8, <1>9, <1>10

LEMMA CrashStep ==
  ASSUME QueueInv, NEW p \in Processors, CrashBatch(p)
  PROVE  QueueInv' /\ QueueStep
<1> USE DEF QueueInv, RevocationTypeOK
<1>1. batch' = [batch EXCEPT ![p] = Idle] /\ UNCHANGED <<issued, valid, queue, givenUp>>
  BY DEF CrashBatch
<1>2. \A q \in Processors, t \in AppleTokens :
        batch'[q][t] = IF q = p THEN Free ELSE batch[q][t]
  BY <1>1 DEF Idle
<1>3. batch' \in [Processors -> [AppleTokens -> Outcomes \cup {Free}]]
  BY <1>1 DEF Idle
<1> QED
  BY <1>1, <1>2, <1>3 DEF QueueStep, Free

LEMMA TimeStep ==
  ASSUME QueueInv, NEW t \in AppleTokens, ComeDue(t) \/ Expire(t)
  PROVE  QueueInv' /\ QueueStep
<1> USE DEF QueueInv, RevocationTypeOK
<1>0. queue[t] \in Row
  BY DEF ComeDue, Expire
<1>1. PICK row \in Row : /\ queue[t] \in Row /\ row.status = queue[t].status
                         /\ queue' = [queue EXCEPT ![t] = row]
                         /\ UNCHANGED <<issued, valid, batch, givenUp>>
  BY <1>0, RowFacts DEF ComeDue, Expire
<1>2. /\ queue' \in [AppleTokens -> Row \cup {NoRow}]
      /\ \A u \in AppleTokens : /\ queue'[u] = IF u = t THEN row ELSE queue[u]
                                /\ queue'[u] = NoRow <=> queue[u] = NoRow
                                /\ queue'[u].status = queue[u].status
  BY <1>0, <1>1, RowFacts
<1>3. RevocationTypeOK'
  BY <1>1, <1>2
<1> QED
  BY <1>1, <1>2, <1>3 DEF QueueStep

LEMMA RevocationNext ==
  ASSUME QueueInv, RevocationStep
  PROVE  QueueInv' /\ QueueStep
  BY TakeStep, AskStep, CommitStep, CrashStep, TimeStep
     DEF RevocationStep, ProcessorStep

-----------------------------------------------------------------------------
(***************************************************************************)
(* Sessions.  The sessions belong to the account there is, and a request   *)
(* that exchanges a refresh token is the only one that holds its session,  *)
(* which nobody revokes or rotates meanwhile.                              *)
(***************************************************************************)
RefreshRequest ==
  [kind: {"refresh"}, session: 1 .. MaxSessions, token: 0 .. MaxRefresh]
LoginRequest == [kind: {"login"}, account: 1 .. MaxAccounts]
AppleRequest == [kind: {"apple"}, vouched: BOOLEAN, token: 0 .. MaxApple]
DeleteRequest ==
  [kind: {"delete"}, account: 1 .. MaxAccounts, token: 0 .. MaxApple,
   step: {"lookup", "revoke", "pending", "dropped", "delete"}]

LEMMA Kinds ==
  /\ Request = RefreshRequest \cup LoginRequest \cup AppleRequest
                 \cup DeleteRequest \cup {Waiting}
  /\ Waiting.kind = "none"
  /\ \A r \in Request :
       /\ r.kind = "refresh" => r \in RefreshRequest
       /\ r.kind = "login" => r \in LoginRequest
       /\ r.kind = "apple" => r \in AppleRequest
       /\ r.kind = "delete" => r \in DeleteRequest
<1>1. Request = RefreshRequest \cup LoginRequest \cup AppleRequest
                  \cup DeleteRequest \cup {Waiting}
  BY DEF Request, RefreshRequest, LoginRequest, AppleRequest, DeleteRequest
<1>2. Waiting.kind = "none"
  BY DEF Waiting
<1>3. /\ \A r \in RefreshRequest : r.kind = "refresh"
      /\ \A r \in LoginRequest : r.kind = "login"
      /\ \A r \in AppleRequest : r.kind = "apple"
      /\ \A r \in DeleteRequest : r.kind = "delete"
  BY DEF RefreshRequest, LoginRequest, AppleRequest, DeleteRequest
<1> QED
  BY <1>1, <1>2, <1>3

UserTyped ==
  /\ user \in User
  /\ accounts \in 0 .. MaxAccounts
  /\ user.id <= accounts /\ (user.id = 0 => user = NoUser)

SessionsTyped ==
  /\ created \in 0 .. MaxSessions
  /\ DOMAIN sessions \subseteq 1 .. created
  /\ \A s \in DOMAIN sessions : sessions[s] \in Session

HoldsSession(r) ==
  /\ r.session <= created /\ r.token < MaxRefresh
  /\ r.session \in DOMAIN sessions =>
       ~sessions[r.session].revoked /\ sessions[r.session].token = r.token

RefreshInv ==
  \A w \in Workers : request[w].kind = "refresh" =>
    /\ HoldsSession(request[w])
    /\ \A v \in Workers \ {w} :
         request[v].kind = "refresh" => request[v].session # request[w].session

\* The tokens before the session's own were answered once, the others never.
Answered ==
  \A s \in DOMAIN sessions, token \in 0 .. MaxRefresh :
    sessions[s].answered[token] = IF token < sessions[s].token THEN 1 ELSE 0

SessionInv ==
  /\ UserTyped /\ SessionsTyped /\ request \in [Workers -> Request]
  /\ RefreshInv /\ Answered /\ NoOrphanSessions

LEMMA NobodyHasNone == SessionInv /\ user = NoUser => DOMAIN sessions = {}
<1>1. NoUser.id = 0
  BY DEF NoUser
<1>2. \A s \in Session : s.account # 0
  BY SessionsAssumption DEF Session
<1> QED
  BY <1>1, <1>2 DEF SessionInv, SessionsTyped, NoOrphanSessions

\* A request is begun, continued or ended that does not hold a session.
LEMMA RequestStep ==
  ASSUME SessionInv, UNCHANGED <<user, accounts, sessions, created>>,
         NEW w \in Workers, NEW r \in Request, r.kind # "refresh",
         request' = [request EXCEPT ![w] = r]
  PROVE  SessionInv'
<1>1. \A v \in Workers : request'[v] = IF v = w THEN r ELSE request[v]
  BY DEF SessionInv
<1>2. RefreshInv'
  BY <1>1 DEF SessionInv, RefreshInv, HoldsSession
<1> QED
  BY <1>2 DEF SessionInv, UserTyped, SessionsTyped, Answered, NoOrphanSessions

\* The account changes, but not whose the sessions are.
LEMMA UserStep ==
  ASSUME SessionInv, UNCHANGED <<sessions, created, request>>, UserTyped',
         user'.id = user.id \/ user = NoUser
  PROVE  SessionInv'
<1>1. user = NoUser => DOMAIN sessions = {}
  BY NobodyHasNone
<1> QED
  BY <1>1 DEF SessionInv, SessionsTyped, RefreshInv, HoldsSession, Answered,
             NoOrphanSessions

\* A session is opened for the account there is.
LEMMA OpenStep ==
  ASSUME SessionInv, UserTyped', user'.id # 0,
         user'.id = user.id \/ user = NoUser,
         NEW w \in Workers, Answer(w), OpenSession(user'.id)
  PROVE  SessionInv'
<1> DEFINE new == created + 1
           row == [account |-> user'.id, token |-> 0, revoked |-> FALSE,
                   answered |-> [k \in 0 .. MaxRefresh |-> 0]]
<1>1. user = NoUser => DOMAIN sessions = {}
  BY NobodyHasNone
<1>2. /\ created < MaxSessions /\ created' = new
      /\ DOMAIN sessions' = DOMAIN sessions \cup {new}
      /\ \A s \in DOMAIN sessions' : sessions'[s] = IF s = new THEN row ELSE sessions[s]
  BY Zenon DEF OpenSession
<1>3. user'.id \in 1 .. MaxAccounts
  BY DEF UserTyped, User
<1>4. /\ row \in Session /\ row.token = 0
      /\ \A k \in 0 .. MaxRefresh : row.answered[k] = 0 /\ ~(k < row.token)
      /\ row.account = user'.id
  BY <1>3, SessionsAssumption DEF Session
<1>5. /\ new \in 1 .. MaxSessions /\ new \notin DOMAIN sessions
      /\ \A i \in 1 .. created : i \in 1 .. new /\ i # new
  BY <1>2, SessionsAssumption DEF SessionInv, SessionsTyped
<1>6. request' \in [Workers -> Request]
      /\ \A v \in Workers : request'[v] = IF v = w THEN Waiting ELSE request[v]
  BY Kinds DEF Answer, SessionInv
<1> HIDE DEF row, new
<1>7. SessionsTyped'
  BY <1>2, <1>4, <1>5, SessionsAssumption DEF SessionInv, SessionsTyped
<1>8. \A v \in Workers : request[v].kind = "refresh" =>
        request[v].session <= new /\ request[v].session # new
  BY <1>5, Kinds DEF SessionInv, RefreshInv, HoldsSession, RefreshRequest
<1>9. RefreshInv'
  BY <1>2, <1>6, <1>8, Kinds DEF SessionInv, RefreshInv, HoldsSession
<1>10. Answered' /\ NoOrphanSessions'
  BY <1>1, <1>2, <1>4, <1>5 DEF SessionInv, Answered, NoOrphanSessions
<1> QED
  BY <1>6, <1>7, <1>9, <1>10 DEF SessionInv

\* A row of users with one field changed, as the actions change it.
LEMMA UserRows ==
  /\ NoUser \in User /\ NoUser.id = 0 /\ NoUser.stored = 0
  /\ \A u \in User, b \in BOOLEAN, n \in 0 .. MaxAccounts, t \in 0 .. MaxApple :
       /\ [u EXCEPT !.verified = b] \in User
       /\ [u EXCEPT !.active = b] \in User
       /\ [u EXCEPT !.password = b] \in User
       /\ [u EXCEPT !.id = n] \in User /\ [u EXCEPT !.id = n].id = n
       /\ [u EXCEPT !.stored = t] \in User /\ [u EXCEPT !.stored = t].stored = t
       /\ [u EXCEPT !.stored = t].id = u.id
       /\ [u EXCEPT !.verified = b].id = u.id
       /\ [u EXCEPT !.active = b].id = u.id
       /\ [u EXCEPT !.verified = b].stored = u.stored
       /\ [u EXCEPT !.active = b].stored = u.stored
<1>1. NoUser \in User /\ NoUser.id = 0 /\ NoUser.stored = 0
  BY SessionsAssumption, RevocationAssumption DEF NoUser, User
<1> QED
  BY <1>1 DEF User

LEMMA RegisterSessions ==
  ASSUME SessionInv, Register
  PROVE  SessionInv' /\ user'.stored = user.stored /\ UNCHANGED request
<1> DEFINE row == [NoUser EXCEPT !.active = TRUE, !.password = TRUE]
<1>1. /\ user = NoUser /\ accounts < MaxAccounts /\ accounts' = accounts + 1
      /\ user' = [row EXCEPT !.id = accounts + 1]
      /\ UNCHANGED <<sessions, created, request>>
  BY DEF Register, Create
<1>2. row \in User /\ row.stored = 0 /\ NoUser.stored = 0
  <2>1. NoUser \in User /\ NoUser.stored = 0
    BY UserRows
  <2>2. row \in User
    BY <2>1 DEF User
  <2>3. row.stored = NoUser.stored
    BY DEF NoUser
  <2> QED
    BY <2>1, <2>2, <2>3
<1> HIDE DEF row
<1>3. accounts + 1 \in 1 .. MaxAccounts /\ accounts' \in 0 .. MaxAccounts
  BY <1>1, SessionsAssumption DEF SessionInv, UserTyped
<1>4. user' \in User /\ user'.id = accounts + 1 /\ user'.stored = 0
  BY <1>1, <1>2, <1>3 DEF User
<1>5. UserTyped'
  BY <1>1, <1>3, <1>4 DEF UserTyped
<1> QED
  BY <1>1, <1>2, <1>4, <1>5, UserStep

LEMMA UserChange ==
  ASSUME SessionInv, VerifyEmail \/ \E b \in BOOLEAN : SetActive(b)
  PROVE  SessionInv' /\ user'.stored = user.stored /\ UNCHANGED request
<1>1. /\ user # NoUser /\ UNCHANGED <<accounts, sessions, created, request>>
      /\ \E b \in BOOLEAN : \/ user' = [user EXCEPT !.verified = b]
                            \/ user' = [user EXCEPT !.active = b]
  <2>1. ~NoUser.active
    BY DEF NoUser
  <2>2. VerifyEmail => /\ user # NoUser /\ user' = [user EXCEPT !.verified = TRUE]
                       /\ UNCHANGED <<accounts, sessions, created, request>>
    BY <2>1, Zenon DEF VerifyEmail
  <2>3. ASSUME NEW b \in BOOLEAN, SetActive(b)
        PROVE  /\ user # NoUser /\ user' = [user EXCEPT !.active = b]
               /\ UNCHANGED <<accounts, sessions, created, request>>
    BY <2>3, Zenon DEF SetActive
  <2> QED
    BY <2>2, <2>3, Zenon
<1>2. user' \in User /\ user'.id = user.id /\ user'.stored = user.stored
  BY <1>1 DEF SessionInv, UserTyped, User
<1>3. user.id # 0
  BY <1>1 DEF SessionInv, UserTyped
<1>4. UserTyped'
  BY <1>1, <1>2, <1>3 DEF SessionInv, UserTyped
<1> QED
  BY <1>1, <1>2, <1>4, UserStep

LEMMA LoginSessions ==
  ASSUME SessionInv, NEW w \in Workers, Login(w)
  PROVE  SessionInv'
<1>1. Answer(w) /\ UNCHANGED <<user, accounts>>
  BY DEF Login
<1>2. CASE user.id = request[w].account
  <2>1. request[w] \in LoginRequest
    BY Kinds DEF Login, SessionInv
  <2>2. user.id # 0
    BY <1>2, <2>1, SessionsAssumption DEF LoginRequest
  <2>3. UserTyped'
    BY <1>1 DEF SessionInv, UserTyped
  <2> QED
    BY <1>1, <1>2, <2>2, <2>3, OpenStep DEF Login
<1>3. CASE user.id # request[w].account
  BY <1>1, <1>3, RequestStep, Kinds DEF Login, Answer
<1> QED
  BY <1>2, <1>3

LEMMA AppleSignInSessions ==
  ASSUME SessionInv, NEW w \in Workers, AppleSignIn(w)
  PROVE  /\ SessionInv'
         /\ user'.stored \in {user.stored, request[w].token}
         /\ request[w].token = 0 => user'.stored = user.stored
<1> DEFINE r == request[w]
           row == IF user = NoUser
                    THEN [NoUser EXCEPT !.id = accounts + 1, !.active = TRUE]
                    ELSE user
           linked == Linked(row, r.vouched)
           refused == \/ user = NoUser /\ accounts = MaxAccounts
                      \/ user # NoUser /\ user.link = "none" /\ ~r.vouched
                      \/ ~row.active
<1>1. /\ r \in AppleRequest /\ Answer(w)
      /\ IF refused THEN UNCHANGED <<user, accounts, sessions, created>>
         ELSE /\ user' = [linked EXCEPT !.stored = IF r.token = 0 THEN @ ELSE r.token]
              /\ accounts' = IF user = NoUser THEN accounts + 1 ELSE accounts
              /\ OpenSession(row.id)
  BY Kinds DEF AppleSignIn, SessionInv
<1>2. CASE refused
  BY <1>1, <1>2, RequestStep, Kinds DEF Answer
<1>3. CASE ~refused
  <2>1. /\ accounts \in 0 .. MaxAccounts /\ user \in User /\ user.id <= accounts
        /\ user = NoUser => accounts + 1 \in 1 .. MaxAccounts
    BY <1>3, SessionsAssumption DEF SessionInv, UserTyped
  <2>2. /\ row \in User /\ row.id = (IF user = NoUser THEN accounts + 1 ELSE user.id)
        /\ row.stored = user.stored
    <3>1. CASE user = NoUser
      <4>1. accounts + 1 \in 0 .. MaxAccounts
        BY <2>1, <3>1, SessionsAssumption
      <4>2. row = [NoUser EXCEPT !.id = accounts + 1, !.active = TRUE]
        BY <3>1, Zenon
      <4> HIDE DEF row
      <4>3. row \in User /\ row.id = accounts + 1 /\ row.stored = NoUser.stored
        BY <4>1, <4>2, UserRows DEF User
      <4> QED
        BY <3>1, <4>3
    <3>2. CASE user # NoUser
      BY <2>1, <3>2
    <3> QED
      BY <3>1, <3>2
  <2>3. r.vouched \in BOOLEAN /\ r.token \in 0 .. MaxApple
    BY <1>1 DEF AppleRequest
  <2> HIDE DEF row, refused
  <2>4. linked \in User /\ linked.id = row.id /\ linked.stored = row.stored
    <3> DEFINE known == row.verified \/ r.vouched
               link == IF r.vouched THEN "verified" ELSE "unverified"
    <3>1. linked = IF row.link # "none" THEN row
                   ELSE [row EXCEPT !.link = link, !.verified = known]
      BY Zenon DEF Linked
    <3>2. known \in BOOLEAN /\ link \in {"none", "unverified", "verified"}
      BY Zenon
    <3> HIDE DEF known, link
    <3> QED
      BY <2>2, <3>1, <3>2 DEF User
  <2> HIDE DEF linked
  <2>5. user' \in User /\ user'.id = row.id
        /\ user'.stored = IF r.token = 0 THEN row.stored ELSE r.token
    BY <1>1, <1>3, <2>3, <2>4 DEF User
  <2>6. user = NoUser => user.id = 0
    BY UserRows
  <2>7. UserTyped' /\ user'.id # 0 /\ (user'.id = user.id \/ user = NoUser)
    BY <1>1, <1>3, <2>1, <2>2, <2>5, SessionsAssumption DEF SessionInv, UserTyped, User
  <2> QED
    BY <1>1, <1>3, <2>2, <2>5, <2>7, OpenStep
<1> QED
  BY <1>2, <1>3

LEMMA StartRefreshSessions ==
  ASSUME SessionInv, NEW w \in Workers, NEW s \in DOMAIN sessions,
         NEW token \in 0 .. MaxRefresh, StartRefresh(w, s, token)
  PROVE  SessionInv'
<1> DEFINE r == [kind |-> "refresh", session |-> s, token |-> token]
<1>1. /\ s \in 1 .. MaxSessions /\ s <= created /\ token < MaxRefresh
      /\ sessions[s].token = token /\ ~sessions[s].revoked
  BY SessionsAssumption DEF SessionInv, SessionsTyped, StartRefresh, Matches
<1>2. r \in Request /\ r.kind = "refresh" /\ r.session = s /\ r.token = token
  BY <1>1 DEF Request
<1> HIDE DEF r
<1>3. /\ request' = [request EXCEPT ![w] = r] /\ ~Held(s)
      /\ UNCHANGED <<user, accounts, sessions, created>>
  BY DEF StartRefresh, r
<1>4. \A v \in Workers : request'[v] = IF v = w THEN r ELSE request[v]
  BY <1>3 DEF SessionInv
<1>5. RefreshInv'
  BY <1>1, <1>2, <1>3, <1>4 DEF SessionInv, RefreshInv, HoldsSession, Held
<1> QED
  BY <1>2, <1>3, <1>5 DEF SessionInv, UserTyped, SessionsTyped, Answered, NoOrphanSessions

LEMMA OneMore ==
  ASSUME NEW counts \in [0 .. MaxRefresh -> Nat], NEW token \in 0 .. MaxRefresh
  PROVE  /\ [counts EXCEPT ![token] = @ + 1] \in [0 .. MaxRefresh -> Nat]
         /\ \A k \in 0 .. MaxRefresh :
              [counts EXCEPT ![token] = @ + 1][k] =
                IF k = token THEN counts[k] + 1 ELSE counts[k]
  OBVIOUS

LEMMA RotatedFacts ==
  ASSUME NEW row \in Session, NEW token \in 0 .. MaxRefresh, row.token = token,
         token + 1 \in 0 .. MaxRefresh
  PROVE  /\ Rotated(row, token) \in Session
         /\ Rotated(row, token).account = row.account
         /\ Rotated(row, token).token = token + 1
         /\ \A k \in 0 .. MaxRefresh :
              Rotated(row, token).answered[k] =
                IF k = token THEN row.answered[k] + 1 ELSE row.answered[k]
<1> DEFINE more == [row.answered EXCEPT ![token] = @ + 1]
<1>1. /\ row.answered \in [0 .. MaxRefresh -> Nat] /\ row.account \in 1 .. MaxAccounts
      /\ row.token + 1 = token + 1
  BY DEF Session
<1>2. /\ more \in [0 .. MaxRefresh -> Nat]
      /\ \A k \in 0 .. MaxRefresh :
           more[k] = IF k = token THEN row.answered[k] + 1 ELSE row.answered[k]
  BY <1>1, OneMore
<1>3. Rotated(row, token) =
        [row EXCEPT !.token = row.token + 1, !.revoked = FALSE, !.answered = more]
  BY Zenon DEF Rotated
<1> HIDE DEF more
<1> QED
  BY <1>1, <1>2, <1>3 DEF Session

\* A refresh rotates the session it holds.
LEMMA RotateSessions ==
  ASSUME SessionInv, NEW w \in Workers, Rotate(w)
  PROVE  SessionInv'
<1> DEFINE s == request[w].session
           token == request[w].token
           new == Rotated(sessions[s], token)
<1>1. /\ request[w].kind = "refresh" /\ Answer(w) /\ UNCHANGED <<user, accounts, created>>
      /\ IF Matches(s, token) THEN sessions' = [sessions EXCEPT ![s] = new]
         ELSE UNCHANGED sessions
  BY DEF Rotate
<1>2. CASE ~Matches(s, token)
  BY <1>1, <1>2, RequestStep, Kinds DEF Answer
<1>3. CASE Matches(s, token)
  <2>1. /\ HoldsSession(request[w]) /\ request[w] \in RefreshRequest
        /\ s \in DOMAIN sessions /\ sessions[s] \in Session /\ s \in 1 .. created
        /\ sessions[s].token = token
    BY <1>1, <1>3, Kinds DEF SessionInv, RefreshInv, SessionsTyped, Matches
  <2>2. token \in 0 .. MaxRefresh /\ token + 1 \in 0 .. MaxRefresh
    BY <1>3, <2>1, SessionsAssumption DEF HoldsSession, RefreshRequest
  <2>3. /\ new \in Session /\ new.account = sessions[s].account
        /\ new.token = token + 1
        /\ \A k \in 0 .. MaxRefresh :
             new.answered[k] = IF k = token THEN sessions[s].answered[k] + 1
                               ELSE sessions[s].answered[k]
    BY <1>1, <2>1, <2>2, RotatedFacts
  <2>10. \A k \in 0 .. MaxRefresh :
           new.answered[k] = IF k < new.token THEN 1 ELSE 0
    BY <2>1, <2>2, <2>3 DEF SessionInv, Answered
  <2>4. \A v \in Workers : request'[v] = IF v = w THEN Waiting ELSE request[v]
    BY <1>1 DEF Answer, SessionInv
  <2>5. \A v \in Workers \ {w} : request[v].kind = "refresh" => request[v].session # s
    BY <1>1 DEF SessionInv, RefreshInv
  <2> HIDE DEF s, new
  <2>6. /\ DOMAIN sessions' = DOMAIN sessions
        /\ \A t \in DOMAIN sessions :
             sessions'[t] = IF t = s THEN new ELSE sessions[t]
    BY <1>1, <1>3, <2>1
  <2>7. RefreshInv'
    BY <1>1, <2>4, <2>5, <2>6, Kinds DEF SessionInv, RefreshInv, HoldsSession
  <2>8. SessionsTyped' /\ Answered' /\ NoOrphanSessions'
    BY <1>1, <2>3, <2>6, <2>10 DEF SessionInv, SessionsTyped, Answered, NoOrphanSessions
  <2>9. request' \in [Workers -> Request]
    BY <1>1, Kinds DEF Answer, SessionInv
  <2> QED
    BY <1>1, <2>7, <2>8, <2>9 DEF SessionInv, UserTyped
<1> QED
  BY <1>2, <1>3

LEMMA LogoutSessions ==
  ASSUME SessionInv, NEW s \in DOMAIN sessions, Logout(s)
  PROVE  SessionInv' /\ user'.stored = user.stored /\ UNCHANGED request
<1> DEFINE row == [sessions[s] EXCEPT !.revoked = TRUE]
<1>1. /\ row \in Session /\ row.account = sessions[s].account
      /\ row.token = sessions[s].token /\ row.answered = sessions[s].answered
  BY DEF SessionInv, SessionsTyped, Session
<1>2. /\ sessions' = [sessions EXCEPT ![s] = row] /\ ~Held(s)
      /\ UNCHANGED <<user, accounts, created, request>>
  BY DEF Logout
<1> HIDE DEF row
<1>3. /\ DOMAIN sessions' = DOMAIN sessions
      /\ \A t \in DOMAIN sessions : sessions'[t] = IF t = s THEN row ELSE sessions[t]
  BY <1>2
<1>4. RefreshInv'
  BY <1>1, <1>2, <1>3 DEF SessionInv, RefreshInv, HoldsSession, Held
<1>5. SessionsTyped' /\ Answered' /\ NoOrphanSessions'
  BY <1>1, <1>2, <1>3 DEF SessionInv, SessionsTyped, Answered, NoOrphanSessions
<1> QED
  BY <1>2, <1>4, <1>5 DEF SessionInv, UserTyped

\* A deletion takes the sessions of its account, which are all there are.
LEMMA DeleteSessions ==
  ASSUME SessionInv, NEW w \in Workers, DeleteAccount(w)
  PROVE  SessionInv'
<1>1. Answer(w) /\ UNCHANGED <<accounts, created>>
  BY DEF DeleteAccount
<1>2. CASE user.id # request[w].account
  BY <1>1, <1>2, RequestStep, Kinds DEF DeleteAccount, Answer
<1>3. CASE user.id = request[w].account
  <2>1. user' = NoUser /\ sessions' = [s \in Remaining(user.id) |-> sessions[s]]
    BY <1>3 DEF DeleteAccount
  <2>2. DOMAIN sessions' = {}
    BY <2>1 DEF Remaining, SessionInv, NoOrphanSessions
  <2>3. UserTyped'
    BY <1>1, <2>1, UserRows, SessionsAssumption DEF SessionInv, UserTyped
  <2>4. /\ request' \in [Workers -> Request]
        /\ \A v \in Workers : request'[v] = IF v = w THEN Waiting ELSE request[v]
    BY <1>1, Kinds DEF Answer, SessionInv
  <2>5. RefreshInv'
    BY <1>1, <2>2, <2>4, Kinds DEF SessionInv, RefreshInv, HoldsSession
  <2> QED
    BY <1>1, <2>2, <2>3, <2>4, <2>5
       DEF SessionInv, SessionsTyped, Answered, NoOrphanSessions
<1> QED
  BY <1>2, <1>3

\* The steps that change no account and no session.
Continues(w, r) ==
  /\ UNCHANGED <<user, accounts, sessions, created>>
  /\ request' = [request EXCEPT ![w] = r]

LEMMA StartLoginStep ==
  ASSUME SessionInv, NEW w \in Workers, StartLogin(w)
  PROVE  \E r \in LoginRequest : Continues(w, r) /\ UNCHANGED <<owed, revocationVars>>
<1>1. user.id \in 1 .. MaxAccounts
  <2>1. user # NoUser
    BY DEF StartLogin, NoUser
  <2> QED
    BY <2>1, SessionsAssumption DEF SessionInv, UserTyped, User
<1>2. [kind |-> "login", account |-> user.id] \in LoginRequest
  BY <1>1 DEF LoginRequest
<1> QED
  BY <1>2 DEF StartLogin, Continues

LEMMA StartDeleteStep ==
  ASSUME SessionInv, NEW w \in Workers, NEW s \in DOMAIN sessions, StartDelete(w, s)
  PROVE  \E r \in DeleteRequest :
           /\ Continues(w, r) /\ UNCHANGED <<owed, revocationVars>>
           /\ r.step = "lookup" /\ r.token = 0
<1>1. sessions[s].account \in 1 .. MaxAccounts
  BY DEF SessionInv, SessionsTyped, Session
<1> DEFINE r == [kind |-> "delete", account |-> sessions[s].account, token |-> 0,
                 step |-> "lookup"]
<1>2. r \in DeleteRequest /\ r.step = "lookup" /\ r.token = 0
  BY <1>1, RevocationAssumption DEF DeleteRequest
<1>3. Continues(w, r) /\ UNCHANGED <<owed, revocationVars>>
  BY DEF StartDelete, Continues
<1> QED
  BY <1>2, <1>3

\* The lookup reads the token of the account, if it is still there.
LEMMA LookUpStep ==
  ASSUME SessionInv, NEW w \in Workers, LookUpToken(w)
  PROVE  \E r \in DeleteRequest :
           /\ Continues(w, r) /\ UNCHANGED <<owed, revocationVars>>
           /\ r.token \in {0, user.stored}
           /\ r.step = IF r.token = 0 THEN "delete" ELSE "revoke"
<1> DEFINE token == IF user.id = request[w].account THEN user.stored ELSE 0
           step == IF token = 0 THEN "delete" ELSE "revoke"
           r == [request[w] EXCEPT !.token = token, !.step = step]
<1>1. request[w] \in DeleteRequest
  BY Kinds DEF LookUpToken, SessionInv
<1>2. token \in 0 .. MaxApple /\ token \in {0, user.stored}
  BY RevocationAssumption DEF SessionInv, UserTyped, User
<1>3. request' = [request EXCEPT ![w].token = token, ![w].step = step]
      /\ UNCHANGED <<user, accounts, sessions, created, owed, revocationVars>>
  BY DEF LookUpToken
<1>4. step \in {"delete", "revoke"} /\ step = IF token = 0 THEN "delete" ELSE "revoke"
  OBVIOUS
<1> HIDE DEF token, step
<1>5. r \in DeleteRequest /\ r.token = token /\ r.step = step
  BY <1>1, <1>2, <1>4 DEF DeleteRequest
<1>6. request' = [request EXCEPT ![w] = r]
  BY <1>3 DEF SessionInv
<1> QED
  BY <1>2, <1>3, <1>4, <1>5, <1>6 DEF Continues

LEMMA RevokeStep ==
  ASSUME SessionInv, NEW w \in Workers, RevokeToken(w)
  PROVE  \E r \in DeleteRequest, outcome \in {"revoked", "retry", "failed"} :
           /\ Continues(w, r) /\ UNCHANGED <<issued, queue, batch, givenUp, owed>>
           /\ request[w] \in DeleteRequest /\ request[w].step = "revoke"
           /\ r.token = request[w].token /\ r.step = Outcome(outcome)
           /\ AsksApple(r.token, outcome)
<1>1. request[w] \in DeleteRequest /\ request[w].step = "revoke"
  BY Kinds DEF RevokeToken, SessionInv
<1>2. PICK outcome \in {"revoked", "retry", "failed"} :
        /\ AsksApple(request[w].token, outcome)
        /\ request' = [request EXCEPT ![w].step = Outcome(outcome)]
  BY DEF RevokeToken
<1> DEFINE r == [request[w] EXCEPT !.step = Outcome(outcome)]
<1>3. Outcome(outcome) \in {"delete", "pending", "dropped"}
  BY DEF Outcome
<1>4. r \in DeleteRequest /\ r.token = request[w].token /\ r.step = Outcome(outcome)
  BY <1>1, <1>3 DEF DeleteRequest
<1>5. request' = [request EXCEPT ![w] = r]
  BY <1>2 DEF SessionInv
<1>6. UNCHANGED <<user, accounts, sessions, created, issued, queue, batch, givenUp, owed>>
  BY DEF RevokeToken
<1> HIDE DEF r
<1> QED
  BY <1>1, <1>2, <1>4, <1>5, <1>6 DEF Continues

\* The token of a sign-in is one that Apple has just issued, or there is none.
LEMMA StartAppleStep ==
  ASSUME SessionInv, RevocationTypeOK, NEW w \in Workers, NEW vouched \in BOOLEAN,
         StartApple(w, vouched)
  PROVE  \E r \in AppleRequest :
           /\ Continues(w, r) /\ UNCHANGED <<queue, batch, givenUp, owed>>
           /\ \/ r.token = issued + 1 /\ Issue
              \/ r.token = 0 /\ UNCHANGED <<issued, valid>>
<1> DEFINE r(t) == [kind |-> "apple", vouched |-> vouched, token |-> t]
<1>1. \A t \in 0 .. MaxApple : r(t) \in AppleRequest /\ r(t).token = t
  BY DEF AppleRequest
<1>2. Issue => issued + 1 \in 0 .. MaxApple
  BY RevocationAssumption DEF Issue, RevocationTypeOK
<1>3. 0 \in 0 .. MaxApple
  BY RevocationAssumption
<1>4. /\ UNCHANGED <<user, accounts, sessions, created, queue, batch, givenUp, owed>>
      /\ \/ Issue /\ request' = [request EXCEPT ![w] = r(issued + 1)]
         \/ request' = [request EXCEPT ![w] = r(0)] /\ UNCHANGED <<issued, valid>>
  BY DEF StartApple
<1> HIDE DEF r
<1> QED
  BY <1>1, <1>2, <1>3, <1>4 DEF Continues

LEMMA SessionNext ==
  ASSUME SessionInv, RevocationTypeOK, Next
  PROVE  SessionInv'
<1>1. ASSUME NEW w \in Workers, NEW r \in Request, r.kind # "refresh", Continues(w, r)
      PROVE  SessionInv'
  BY <1>1, RequestStep DEF Continues
<1>2. \A r \in LoginRequest \cup AppleRequest \cup DeleteRequest :
        r \in Request /\ r.kind # "refresh"
  BY Kinds DEF LoginRequest, AppleRequest, DeleteRequest
<1>3. ASSUME NEW w \in Workers, WorkerStep(w)
      PROVE  SessionInv'
  <2>1. CASE \E vouched \in BOOLEAN : StartApple(w, vouched)
    BY <1>1, <1>2, <2>1, StartAppleStep
  <2>2. CASE StartLogin(w)
    BY <1>1, <1>2, <2>2, StartLoginStep
  <2>3. CASE \E s \in DOMAIN sessions : StartDelete(w, s)
    BY <1>1, <1>2, <2>3, StartDeleteStep
  <2>4. CASE LookUpToken(w)
    BY <1>1, <1>2, <2>4, LookUpStep
  <2>5. CASE RevokeToken(w)
    BY <1>1, <1>2, <2>5, RevokeStep
  <2>6. CASE Crash(w)
    BY <1>1, <2>6, Kinds DEF Crash, Answer, Continues
  <2> QED
    BY <1>3, <2>1, <2>2, <2>3, <2>4, <2>5, <2>6, AppleSignInSessions, LoginSessions,
       StartRefreshSessions, RotateSessions, DeleteSessions DEF WorkerStep
<1>4. CASE UNCHANGED accountVars
  BY <1>4 DEF accountVars, SessionInv, UserTyped, SessionsTyped, RefreshInv,
              HoldsSession, Answered, NoOrphanSessions
<1> QED
  BY <1>3, <1>4, RegisterSessions, UserChange, LogoutSessions DEF Next

-----------------------------------------------------------------------------
(***************************************************************************)
(* Tokens.  A token Apple issues is first in one sign-in, then the token   *)
(* of an account, and then in deletions of that account: only when the     *)
(* account has gone it is queued.                                          *)
(***************************************************************************)
SigningIn(w) == request[w].kind = "apple" /\ request[w].token # 0
Deleting(w) == request[w].kind = "delete"

SignInInv ==
  \A w \in Workers : SigningIn(w) =>
    /\ request[w].token <= issued
    /\ request[w].token # user.stored
    /\ queue[request[w].token] = NoRow
    /\ \A v \in Workers \ {w} :
         SigningIn(v) \/ Deleting(v) => request[v].token # request[w].token

DeletionInv ==
  \A w \in Workers : Deleting(w) =>
    /\ request[w].token <= issued
    /\ request[w].step \in {"revoke", "pending", "dropped"} => request[w].token # 0
    /\ request[w].step = "delete" => request[w].token \notin valid \ {0}

TokenInv ==
  /\ owed \subseteq 1 .. issued /\ user.stored <= issued
  /\ SignInInv /\ DeletionInv /\ QueueSparesAccounts /\ TokensAccountedFor

IInv == SessionInv /\ QueueInv /\ TokenInv

\* A token in a request is one of Apple's.
LEMMA TokenFacts ==
  ASSUME IInv
  PROVE  /\ \A t \in 1 .. issued : t \in AppleTokens
         /\ issued \in Nat /\ user.stored \in 0 .. MaxApple
         /\ \A w \in Workers : SigningIn(w) \/ Deleting(w) => request[w].token \in 0 .. MaxApple
         /\ \A w \in Workers : SigningIn(w) => request[w].token \in AppleTokens
<1>1. issued \in 0 .. MaxApple /\ user \in User
  BY DEF IInv, QueueInv, RevocationTypeOK, SessionInv, UserTyped
<1>2. \A w \in Workers : SigningIn(w) \/ Deleting(w) => request[w].token \in 0 .. MaxApple
  BY Kinds DEF IInv, SessionInv, SigningIn, Deleting, AppleRequest, DeleteRequest
<1> QED
  BY <1>1, <1>2, RevocationAssumption DEF AppleTokens, User, SigningIn

\* Steps that touch neither the queue nor a token.
LEMMA TokensKept ==
  ASSUME IInv, UNCHANGED <<owed, revocationVars>>, user'.stored = user.stored,
         \A w \in Workers : \/ request'[w] = request[w]
                            \/ request'[w].kind \notin {"apple", "delete"}
  PROVE  TokenInv' /\ QueueInv'
<1>1. UNCHANGED <<owed, issued, valid, queue, batch, givenUp>>
  BY DEF revocationVars
<1>2. QueueInv'
  BY <1>1 DEF IInv, QueueInv, RevocationTypeOK
<1>3. SignInInv' /\ DeletionInv'
  BY <1>1 DEF IInv, TokenInv, SignInInv, DeletionInv, SigningIn, Deleting
<1> QED
  BY <1>1, <1>2, <1>3 DEF IInv, TokenInv, QueueSparesAccounts, TokensAccountedFor

\* A request that does not sign in goes on; Apple may revoke tokens.
LEMMA DeletionKept ==
  ASSUME IInv, UNCHANGED <<user, owed, issued, queue, batch, givenUp>>, valid' \subseteq valid,
         NEW w \in Workers, NEW r \in DeleteRequest,
         request' = [request EXCEPT ![w] = r],
         r.token \in {0, user.stored} \/ (Deleting(w) /\ r.token = request[w].token),
         r.step \in {"revoke", "pending", "dropped"} => r.token # 0,
         r.step = "delete" => r.token \notin valid' \ {0}
  PROVE  TokenInv' /\ QueueInv'
<1>1. \A v \in Workers : request'[v] = IF v = w THEN r ELSE request[v]
  BY DEF IInv, SessionInv
<1>2. QueueInv'
  BY DEF IInv, QueueInv, RevocationTypeOK
<1>3. r.kind = "delete" /\ r.token \in 0 .. MaxApple
  BY DEF DeleteRequest
<1>4. r.token <= issued
  BY TokenFacts DEF IInv, TokenInv, DeletionInv
<1>5. SignInInv'
  BY <1>1, <1>3, TokenFacts DEF IInv, TokenInv, SignInInv, SigningIn, Deleting
<1>6. DeletionInv'
  BY <1>1, <1>3, <1>4 DEF IInv, TokenInv, DeletionInv, Deleting
<1> QED
  BY <1>2, <1>5, <1>6 DEF IInv, TokenInv, QueueSparesAccounts, TokensAccountedFor

LEMMA StartAppleTokens ==
  ASSUME IInv, NEW w \in Workers, NEW vouched \in BOOLEAN, StartApple(w, vouched)
  PROVE  TokenInv' /\ QueueInv'
<1>1. PICK r \in AppleRequest :
        /\ Continues(w, r) /\ UNCHANGED <<queue, batch, givenUp, owed>>
        /\ \/ r.token = issued + 1 /\ Issue
           \/ r.token = 0 /\ UNCHANGED <<issued, valid>>
  BY StartAppleStep DEF IInv, QueueInv
<1>2. /\ \A v \in Workers : request'[v] = IF v = w THEN r ELSE request[v]
      /\ UNCHANGED user
  BY <1>1 DEF Continues, IInv, SessionInv
<1>3. CASE r.token = 0 /\ UNCHANGED <<issued, valid>>
  <2>1. QueueInv'
    BY <1>1, <1>3 DEF IInv, QueueInv, RevocationTypeOK
  <2>2. r.kind = "apple"
    BY DEF AppleRequest
  <2>3. SignInInv' /\ DeletionInv'
    BY <1>1, <1>2, <1>3, <2>2
       DEF IInv, TokenInv, SignInInv, DeletionInv, SigningIn, Deleting
  <2> QED
    BY <1>1, <1>2, <1>3, <2>1, <2>3
       DEF IInv, TokenInv, QueueSparesAccounts, TokensAccountedFor
<1>4. CASE r.token = issued + 1 /\ Issue
  <2> DEFINE new == issued + 1
  <2>1. /\ issued' = new /\ valid' = valid \cup {new} /\ new \in AppleTokens
        /\ \A t \in 1 .. issued : t \in 1 .. new /\ t # new
        /\ issued \in Nat
    BY <1>4, RevocationAssumption DEF Issue, AppleTokens, IInv, QueueInv, RevocationTypeOK
  <2>2. queue[new] = NoRow /\ \A p \in Processors : batch[p][new] = Free
    BY <2>1 DEF IInv, QueueInv, RevocationTypeOK
  <2>3. RevocationTypeOK'
    <3>1. issued' \in 0 .. MaxApple
      BY <2>1, RevocationAssumption DEF AppleTokens
    <3> QED
      BY <1>1, <2>1, <3>1 DEF IInv, QueueInv, RevocationTypeOK
  <2>4. QueueInv'
    BY <1>1, <2>1, <2>2, <2>3 DEF IInv, QueueInv, Free, AppleTokens
  <2>5. r.kind = "apple" /\ r.token = new
    BY <1>4 DEF AppleRequest
  <2>6. \A v \in Workers : /\ SigningIn(v) \/ Deleting(v) => request[v].token \in Nat
                           /\ SigningIn(v) \/ Deleting(v) => request[v].token <= issued
                           /\ SigningIn(v) => request[v].token # 0
    BY TokenFacts DEF IInv, TokenInv, SignInInv, DeletionInv, SigningIn
  <2>7. user.stored <= issued /\ user.stored \in Nat
    BY TokenFacts DEF IInv, TokenInv
  <2> HIDE DEF new
  <2>8. \A v \in Workers : /\ SigningIn(v)' <=> v = w \/ SigningIn(v)
                           /\ Deleting(v)' <=> v # w /\ Deleting(v)
    BY <1>2, <2>1, <2>5 DEF SigningIn, Deleting, AppleTokens
  <2>9. \A v \in Workers : SigningIn(v) \/ Deleting(v) => request[v].token # new
    BY <2>1, <2>6 DEF new
  <2>10. SignInInv'
    <3>1. ASSUME NEW v \in Workers, SigningIn(v)'
          PROVE  /\ request'[v].token <= new /\ request'[v].token # user.stored
                 /\ queue[request'[v].token] = NoRow
      <4>1. CASE v = w
        BY <1>2, <2>1, <2>2, <2>5, <2>7, <4>1 DEF new
      <4>2. CASE v # w
        BY <1>2, <2>1, <2>6, <2>8, <3>1, <4>2 DEF IInv, TokenInv, SignInInv, new
      <4> QED
        BY <4>1, <4>2
    <3>2. ASSUME NEW v \in Workers, SigningIn(v)', NEW u \in Workers \ {v},
                 SigningIn(u)' \/ Deleting(u)'
          PROVE  request'[u].token # request'[v].token
      BY <1>2, <2>5, <2>8, <2>9, <3>2 DEF IInv, TokenInv, SignInInv
    <3> QED
      BY <1>1, <1>2, <2>1, <3>1, <3>2 DEF SignInInv
  <2>11. DeletionInv'
    BY <1>2, <2>1, <2>6, <2>8, <2>9 DEF IInv, TokenInv, DeletionInv, new
  <2>12. owed' \subseteq 1 .. issued' /\ user'.stored <= issued'
    BY <1>1, <1>2, <2>1, <2>7 DEF IInv, TokenInv, new
  <2>13. TokensAccountedFor'
    BY <1>1, <2>1 DEF IInv, TokenInv, TokensAccountedFor
  <2> QED
    BY <1>1, <1>2, <2>4, <2>10, <2>11, <2>12, <2>13
       DEF IInv, TokenInv, QueueSparesAccounts
<1> QED
  BY <1>1, <1>3, <1>4

\* The token of a sign-in moves to the account, or the sign-in is refused.
LEMMA AppleSignInTokens ==
  ASSUME IInv, NEW w \in Workers, AppleSignIn(w)
  PROVE  TokenInv' /\ QueueInv'
<1>1. /\ user'.stored \in {user.stored, request[w].token}
      /\ request[w].token = 0 => user'.stored = user.stored
  BY AppleSignInSessions DEF IInv
<1>2. /\ request[w].kind = "apple"
      /\ request' = [request EXCEPT ![w] = Waiting]
      /\ UNCHANGED <<owed, issued, valid, queue, batch, givenUp>>
  BY DEF AppleSignIn, Answer, revocationVars
<1>3. \A v \in Workers : request'[v] = IF v = w THEN Waiting ELSE request[v]
  BY <1>2 DEF IInv, SessionInv
<1>4. QueueInv'
  BY <1>2 DEF IInv, QueueInv, RevocationTypeOK
<1>5. \A v \in Workers : /\ SigningIn(v)' <=> v # w /\ SigningIn(v)
                         /\ Deleting(v)' <=> v # w /\ Deleting(v)
  BY <1>2, <1>3, Kinds DEF SigningIn, Deleting
<1>6. CASE user'.stored = user.stored
  <2>1. SignInInv' /\ DeletionInv'
    BY <1>2, <1>3, <1>5, <1>6 DEF IInv, TokenInv, SignInInv, DeletionInv
  <2> QED
    BY <1>2, <1>4, <1>6, <2>1 DEF IInv, TokenInv, QueueSparesAccounts, TokensAccountedFor
<1>7. CASE SigningIn(w) /\ user'.stored = request[w].token
  <2>1. /\ request[w].token <= issued /\ queue[request[w].token] = NoRow
        /\ \A v \in Workers \ {w} :
             SigningIn(v) \/ Deleting(v) => request[v].token # request[w].token
    BY <1>7 DEF IInv, TokenInv, SignInInv
  <2>2. SignInInv' /\ DeletionInv'
    BY <1>2, <1>3, <1>5, <1>7, <2>1 DEF IInv, TokenInv, SignInInv, DeletionInv
  <2> QED
    BY <1>2, <1>4, <1>7, <2>1, <2>2
       DEF IInv, TokenInv, QueueSparesAccounts, TokensAccountedFor
<1> QED
  BY <1>1, <1>2, <1>6, <1>7 DEF SigningIn

LEMMA RevokeTokens ==
  ASSUME IInv, NEW w \in Workers, RevokeToken(w)
  PROVE  TokenInv' /\ QueueInv'
<1>1. PICK r \in DeleteRequest, outcome \in {"revoked", "retry", "failed"} :
        /\ Continues(w, r) /\ UNCHANGED <<issued, queue, batch, givenUp, owed>>
        /\ request[w] \in DeleteRequest /\ request[w].step = "revoke"
        /\ r.token = request[w].token /\ r.step = Outcome(outcome)
        /\ AsksApple(r.token, outcome)
  BY RevokeStep DEF IInv
<1>2. Deleting(w) /\ r.token # 0
  BY <1>1 DEF Deleting, DeleteRequest, IInv, TokenInv, DeletionInv
<1>3. valid' \subseteq valid /\ (outcome = "revoked" => r.token \notin valid')
  BY <1>1 DEF AsksApple
<1>4. r.step = "delete" => outcome = "revoked"
  BY <1>1 DEF Outcome
<1> QED
  BY <1>1, <1>2, <1>3, <1>4, DeletionKept DEF Continues

LEMMA LookUpTokens ==
  ASSUME IInv, NEW w \in Workers,
         LookUpToken(w) \/ \E s \in DOMAIN sessions : StartDelete(w, s)
  PROVE  TokenInv' /\ QueueInv'
<1>1. PICK r \in DeleteRequest :
        /\ Continues(w, r) /\ UNCHANGED <<owed, revocationVars>>
        /\ r.token \in {0, user.stored}
        /\ r.step \in {"revoke", "pending", "dropped"} => r.token # 0
        /\ r.step = "delete" => r.token = 0
  <2>0. SessionInv
    BY DEF IInv
  <2>1. CASE LookUpToken(w)
    <3>1. PICK r \in DeleteRequest :
            /\ Continues(w, r) /\ UNCHANGED <<owed, revocationVars>>
            /\ r.token \in {0, user.stored}
            /\ r.step = IF r.token = 0 THEN "delete" ELSE "revoke"
      BY <2>0, <2>1, LookUpStep
    <3> QED
      BY <3>1
  <2>2. ASSUME NEW s \in DOMAIN sessions, StartDelete(w, s)
        PROVE  \E r \in DeleteRequest :
                 /\ Continues(w, r) /\ UNCHANGED <<owed, revocationVars>>
                 /\ r.step = "lookup" /\ r.token = 0
    BY <2>0, <2>2, StartDeleteStep
  <2> QED
    BY <2>1, <2>2
<1>2. UNCHANGED <<user, owed, issued, queue, batch, givenUp>>
  BY <1>1 DEF Continues, revocationVars
<1>3. request' = [request EXCEPT ![w] = r] /\ valid' \subseteq valid
  BY <1>1 DEF Continues, revocationVars
<1>4. r.step = "delete" => r.token \notin valid' \ {0}
  BY <1>1
<1> QED
  <2>1. r.token \in {0, user.stored} \/ (Deleting(w) /\ r.token = request[w].token)
    BY <1>1, Zenon
  <2>2. r.step \in {"revoke", "pending", "dropped"} => r.token # 0
    BY <1>1
  <2> QED
    BY <1>2, <1>3, <1>4, <2>1, <2>2, DeletionKept, Zenon

\* The deletion of an account that is gone changes nothing; otherwise its
\* token was revoked, is queued or is given up.
LEMMA DeleteTokens ==
  ASSUME IInv, NEW w \in Workers, DeleteAccount(w)
  PROVE  TokenInv' /\ QueueInv'
<1> DEFINE r == request[w]
<1>1. /\ r \in DeleteRequest /\ Deleting(w) /\ r.step \in {"pending", "dropped", "delete"}
      /\ r.step = "pending" => ~Locked(r.token)
      /\ request' = [request EXCEPT ![w] = Waiting]
      /\ UNCHANGED <<issued, valid, batch, accounts, created>>
  <2>1. /\ r.kind = "delete" /\ r.step \in {"pending", "dropped", "delete"}
        /\ r.step = "pending" => ~Locked(r.token)
        /\ request' = [request EXCEPT ![w] = Waiting]
        /\ UNCHANGED <<issued, valid, batch, accounts, created>>
    BY Zenon DEF DeleteAccount, MayDelete, Answer
  <2>2. r \in Request
    BY DEF IInv, SessionInv
  <2> QED
    BY <2>1, <2>2, Kinds DEF Deleting
<1>2. \A v \in Workers : request'[v] = IF v = w THEN Waiting ELSE request[v]
  BY <1>1 DEF IInv, SessionInv
<1>3. \A v \in Workers : /\ SigningIn(v)' <=> v # w /\ SigningIn(v)
                         /\ Deleting(v)' <=> v # w /\ Deleting(v)
  BY <1>1, <1>2, Kinds DEF SigningIn, Deleting
<1>4. /\ r.token <= issued /\ r.token \in 0 .. MaxApple
      /\ r.step \in {"pending", "dropped"} => r.token # 0
      /\ r.step = "delete" => r.token \notin valid \ {0}
  BY <1>1, TokenFacts DEF IInv, TokenInv, DeletionInv
<1>5. CASE user.id # r.account
  <2>1. UNCHANGED <<user, owed, queue, givenUp>>
    BY <1>5 DEF DeleteAccount
  <2>2. QueueInv'
    BY <1>1, <2>1 DEF IInv, QueueInv, RevocationTypeOK
  <2>3. SignInInv' /\ DeletionInv'
    BY <1>1, <1>2, <1>3, <2>1 DEF IInv, TokenInv, SignInInv, DeletionInv
  <2> QED
    BY <1>1, <2>1, <2>2, <2>3 DEF IInv, TokenInv, QueueSparesAccounts, TokensAccountedFor
<1>6. CASE user.id = r.account
  <2>1. /\ user' = NoUser /\ owed' = owed \cup ({r.token} \ {0})
        /\ queue' = IF r.step = "pending" THEN Enqueued(r.token) ELSE queue
        /\ givenUp' = IF r.step = "dropped" THEN givenUp \cup {r.token} ELSE givenUp
    BY <1>6 DEF DeleteAccount
  <2>2. /\ r.token # 0 => r.token \in AppleTokens /\ r.token \in 1 .. issued
        /\ issued \in Nat
    BY <1>4, TokenFacts DEF AppleTokens
  <2>3. user'.stored = 0
    BY <2>1, UserRows
  <2> HIDE DEF r
  <2>4. /\ queue' \in [AppleTokens -> Row \cup {NoRow}]
        /\ \A t \in AppleTokens :
             /\ t # r.token => queue'[t] = queue[t]
             /\ queue[t] # NoRow => queue'[t] # NoRow
             /\ queue[t].status = "pending" => queue'[t].status = "pending"
        /\ r.step = "pending" => queue'[r.token].status = "pending"
    <3>1. CASE r.step # "pending"
      BY <2>1, <3>1 DEF IInv, QueueInv, RevocationTypeOK
    <3>2. CASE r.step = "pending"
      <4> DEFINE old == queue[r.token]
                 new == IF old = NoRow
                          THEN [status |-> "pending", due |-> TRUE, expired |-> FALSE]
                          ELSE [old EXCEPT !.status = "pending", !.due = TRUE]
      <4>1. r.token \in AppleTokens /\ old \in Row \cup {NoRow}
        BY <1>4, <2>2, <3>2 DEF IInv, QueueInv, RevocationTypeOK
      <4>2. new \in Row /\ new.status = "pending"
        BY <4>1 DEF Row
      <4>3. queue' = [queue EXCEPT ![r.token] = new]
        BY <2>1, <3>2, Zenon DEF Enqueued
      <4> HIDE DEF new, old
      <4>4. new # NoRow
        BY <4>2, RowFacts
      <4> QED
        BY <3>2, <4>1, <4>2, <4>3, <4>4 DEF IInv, QueueInv, RevocationTypeOK
    <3> QED
      BY <3>1, <3>2
  <2>5. givenUp' \subseteq 1 .. issued /\ givenUp \subseteq givenUp'
        /\ (r.step = "dropped" => r.token \in givenUp')
    BY <1>4, <2>1, <2>2 DEF IInv, QueueInv, RevocationTypeOK
  <2>6. RevocationTypeOK'
    BY <1>1, <2>4, <2>5 DEF IInv, QueueInv, RevocationTypeOK
  <2>7. QueueInv'
    BY <1>1, <1>4, <2>4, <2>6 DEF IInv, QueueInv
  <2>8. \A v \in Workers : SigningIn(v) /\ v # w =>
          /\ request[v].token # r.token /\ request[v].token \in AppleTokens
          /\ request[v].token # 0
    BY <1>1, TokenFacts DEF r, IInv, TokenInv, SignInInv, SigningIn
  <2>9. SignInInv'
    BY <1>1, <1>2, <1>3, <2>3, <2>4, <2>8 DEF IInv, TokenInv, SignInInv
  <2>10. DeletionInv'
    BY <1>1, <1>2, <1>3 DEF IInv, TokenInv, DeletionInv
  <2>11. TokensAccountedFor'
    <3>1. ASSUME NEW t \in owed
          PROVE  \/ t \notin valid' \/ queue'[t].status = "pending" \/ t \in givenUp'
      BY <1>1, <2>4, <2>5, TokenFacts DEF IInv, TokenInv, TokensAccountedFor
    <3>2. r.token # 0 => \/ r.token \notin valid'
                         \/ queue'[r.token].status = "pending"
                         \/ r.token \in givenUp'
      BY <1>1, <1>4, <2>4, <2>5
    <3> QED
      BY <2>1, <3>1, <3>2 DEF TokensAccountedFor
  <2>12. owed' \subseteq 1 .. issued' /\ user'.stored <= issued'
    <3>1. owed \subseteq 1 .. issued /\ issued' = issued
      BY <1>1 DEF IInv, TokenInv
    <3>2. owed' \subseteq 1 .. issued
      BY <2>1, <2>2, <3>1
    <3> QED
      BY <2>2, <2>3, <3>1, <3>2
  <2> QED
    BY <2>3, <2>7, <2>9, <2>10, <2>11, <2>12 DEF TokenInv, QueueSparesAccounts
<1> QED
  BY <1>5, <1>6

LEMMA RevocationTokens ==
  ASSUME IInv, RevocationStep, UNCHANGED accountVars
  PROVE  TokenInv' /\ QueueInv'
<1>1. QueueInv' /\ QueueStep
  BY RevocationNext DEF IInv
<1>2. UNCHANGED <<user, request, owed>>
  BY DEF accountVars
<1>3. SignInInv'
  BY <1>1, <1>2, TokenFacts DEF IInv, TokenInv, SignInInv, SigningIn, Deleting, QueueStep
<1>4. DeletionInv'
  BY <1>1, <1>2 DEF IInv, TokenInv, DeletionInv, Deleting, QueueStep
<1>5. QueueSparesAccounts'
  BY <1>1, <1>2, TokenFacts DEF IInv, TokenInv, QueueSparesAccounts, QueueStep, AppleTokens
<1>6. TokensAccountedFor'
  BY <1>1, <1>2, TokenFacts DEF IInv, TokenInv, TokensAccountedFor, QueueStep
<1> QED
  BY <1>1, <1>2, <1>3, <1>4, <1>5, <1>6 DEF IInv, TokenInv, QueueStep

-----------------------------------------------------------------------------
(***************************************************************************)
(* The inductive invariant and what follows from it.                       *)
(***************************************************************************)
LEMMA IInvInit == Init => IInv
<1> SUFFICES ASSUME Init PROVE IInv
  OBVIOUS
<1> USE DEF Init, RevocationInit
<1>1. QueueInv
  <2>1. batch \in [Processors -> [AppleTokens -> Outcomes \cup {Free}]]
    BY DEF Idle
  <2>2. \A p \in Processors, t \in AppleTokens : batch[p][t] = Free
    BY DEF Idle
  <2> QED
    BY <2>1, <2>2, RevocationAssumption DEF QueueInv, RevocationTypeOK, Free
<1>2. SessionInv
  <2>1. DOMAIN sessions = {}
    OBVIOUS
  <2>2. \A w \in Workers : request[w].kind # "refresh"
    BY Kinds
  <2>3. request \in [Workers -> Request]
    BY Kinds
  <2>4. UserTyped
    BY UserRows, SessionsAssumption DEF UserTyped
  <2> QED
    BY <2>1, <2>2, <2>3, <2>4, SessionsAssumption
       DEF SessionInv, SessionsTyped, RefreshInv, Answered, NoOrphanSessions
<1>3. TokenInv
  <2>1. \A w \in Workers : ~SigningIn(w) /\ ~Deleting(w)
    BY Kinds DEF SigningIn, Deleting
  <2>2. user.stored = 0
    BY UserRows
  <2> QED
    BY <2>1, <2>2
       DEF TokenInv, SignInInv, DeletionInv, QueueSparesAccounts, TokensAccountedFor
<1> QED
  BY <1>1, <1>2, <1>3 DEF IInv

\* A request without a token is begun, or a request is done or dropped.
LEMMA RequestTokens ==
  ASSUME IInv, NEW w \in Workers, NEW r,
         request' = [request EXCEPT ![w] = r], r.kind \notin {"apple", "delete"},
         user'.stored = user.stored, UNCHANGED <<owed, revocationVars>>
  PROVE  TokenInv' /\ QueueInv'
<1>1. \A v \in Workers : request'[v] = IF v = w THEN r ELSE request[v]
  BY DEF IInv, SessionInv
<1> QED
  BY <1>1, TokensKept

LEMMA WorkerTokens ==
  ASSUME IInv, NEW w \in Workers, WorkerStep(w)
  PROVE  TokenInv' /\ QueueInv'
<1>0. SessionInv
  BY DEF IInv
<1>1. CASE StartLogin(w)
  <2>1. PICK r \in LoginRequest : Continues(w, r) /\ UNCHANGED <<owed, revocationVars>>
    BY <1>0, <1>1, StartLoginStep
  <2> QED
    BY <2>1, RequestTokens DEF LoginRequest, Continues
<1>2. CASE Login(w) \/ Rotate(w) \/ Crash(w)
  <2>1. /\ request' = [request EXCEPT ![w] = Waiting]
        /\ user' = user /\ UNCHANGED <<owed, revocationVars>>
    BY <1>2, Zenon DEF Login, Rotate, Crash, Answer
  <2> QED
    BY <2>1, RequestTokens, Kinds
<1>3. ASSUME NEW s \in DOMAIN sessions, NEW token \in 0 .. MaxRefresh,
             StartRefresh(w, s, token)
      PROVE  TokenInv' /\ QueueInv'
  <2> DEFINE r == [kind |-> "refresh", session |-> s, token |-> token]
  <2>1. /\ request' = [request EXCEPT ![w] = r]
        /\ user' = user /\ UNCHANGED <<owed, revocationVars>>
    BY <1>3, Zenon DEF StartRefresh
  <2>2. r.kind = "refresh"
    OBVIOUS
  <2> QED
    BY <2>1, <2>2, RequestTokens
<1>4. CASE LookUpToken(w) \/ \E s \in DOMAIN sessions : StartDelete(w, s)
  BY <1>4, LookUpTokens
<1> QED
  BY <1>1, <1>2, <1>3, <1>4, StartAppleTokens, AppleSignInTokens, RevokeTokens,
     DeleteTokens DEF WorkerStep

LEMMA IInvNext ==
  ASSUME IInv, [Next]_vars
  PROVE  IInv'
<1>0. SessionInv /\ RevocationTypeOK
  BY DEF IInv, QueueInv
<1>1. CASE Next
  <2>1. SessionInv'
    BY <1>0, <1>1, SessionNext
  <2>2. CASE Register \/ VerifyEmail \/ \E b \in BOOLEAN : SetActive(b)
    <3>1. user'.stored = user.stored /\ UNCHANGED request
      BY <1>0, <2>2, RegisterSessions, UserChange
    <3>2. UNCHANGED <<owed, revocationVars>>
      BY <2>2, Zenon DEF Register, VerifyEmail, SetActive
    <3> QED
      BY <2>1, <3>1, <3>2, TokensKept DEF IInv
  <2>3. CASE \E s \in DOMAIN sessions : Logout(s)
    <3>1. user'.stored = user.stored /\ UNCHANGED request
      BY <1>0, <2>3, LogoutSessions
    <3>2. UNCHANGED <<owed, revocationVars>>
      BY <2>3, Zenon DEF Logout
    <3> QED
      BY <2>1, <3>1, <3>2, TokensKept DEF IInv
  <2>4. CASE \E w \in Workers : WorkerStep(w)
    BY <2>1, <2>4, WorkerTokens DEF IInv
  <2>5. CASE RevocationStep /\ UNCHANGED accountVars
    BY <2>1, <2>5, RevocationTokens DEF IInv
  <2> QED
    BY <1>1, <2>2, <2>3, <2>4, <2>5 DEF Next
<1>2. CASE UNCHANGED vars
  <2>1. UNCHANGED <<user, accounts, sessions, created, request, owed, revocationVars>>
    BY <1>2 DEF vars, accountVars
  <2>2. SessionInv'
    BY <1>0, <2>1 DEF SessionInv, UserTyped, SessionsTyped, RefreshInv,
                  HoldsSession, Answered, NoOrphanSessions
  <2> QED
    BY <2>1, <2>2, TokensKept DEF IInv
<1> QED
  BY <1>1, <1>2

\* The queue, the requests and the account stay consistent with the tokens
\* Apple issued, and the sessions with their account.
THEOREM Inductive == Spec => []IInv
<1> QED
  BY IInvInit, IInvNext, PTL DEF Spec

\* TypeOK: every variable keeps to its rows, and two processors never hold
\* one row of apple_token_revocations.
THEOREM TypeCorrect == Spec => []TypeOK
<1>1. IInv => TypeOK
  BY DEF IInv, SessionInv, UserTyped, SessionsTyped, QueueInv, TokenInv, TypeOK
<1> QED
  BY <1>1, Inductive, PTL

\* ExchangedOnce: of the requests that present one refresh token to
\* refresh_user_session at most one is answered with new tokens, however they
\* race for the row of the session.
THEOREM TokensExchangedOnce == Spec => []ExchangedOnce
<1>1. IInv => ExchangedOnce
  BY DEF IInv, SessionInv, Answered, ExchangedOnce
<1> QED
  BY <1>1, Inductive, PTL

\* NoOrphanSessions: no session outlives its account and none is opened for
\* a deleted one, although sign-ins read the account before they insert.
THEOREM SessionsHaveAccounts == Spec => []NoOrphanSessions
<1>1. IInv => NoOrphanSessions
  BY DEF IInv, SessionInv
<1> QED
  BY <1>1, Inductive, PTL

\* TokensAccountedFor: what delete_current_account read is revoked, queued
\* or given up once the account is gone, whatever crashes and races.
THEOREM NoTokenLost == Spec => []TokensAccountedFor
<1>1. IInv => TokensAccountedFor
  BY DEF IInv, TokenInv
<1> QED
  BY <1>1, Inductive, PTL

\* QueueSparesAccounts: process_pending_apple_revocations never asks Apple
\* to revoke the token of an account that exists.
THEOREM LiveTokensNotQueued == Spec => []QueueSparesAccounts
<1>1. IInv => QueueSparesAccounts
  BY DEF IInv, TokenInv
<1> QED
  BY <1>1, Inductive, PTL

\* LogoutIsFinal: the UPDATE of a refresh writes revoked_at = NULL, but never
\* to a session that was logged out.
THEOREM LogoutsStick == Spec => LogoutIsFinal
<1> DEFINE Sticks == \A s \in DOMAIN sessions \cap DOMAIN sessions' :
                       sessions[s].revoked => sessions'[s].revoked
<1>1. ASSUME IInv, Next PROVE Sticks
  <2>0. SessionInv
    BY <1>1 DEF IInv
  <2>1. CASE UNCHANGED sessions
    BY <2>1
  <2>2. ASSUME NEW n, OpenSession(n) PROVE Sticks
    <3>1. /\ sessions' = [s \in DOMAIN sessions \cup {created + 1} |->
               IF s = created + 1
                 THEN [account |-> n, token |-> 0, revoked |-> FALSE,
                       answered |-> [k \in 0 .. MaxRefresh |-> 0]]
                 ELSE sessions[s]]
          /\ created + 1 \notin DOMAIN sessions
      BY <2>0, <2>2 DEF OpenSession, SessionInv, SessionsTyped
    <3> QED
      BY <3>1
  <2>3. ASSUME NEW w \in Workers, Rotate(w) PROVE Sticks
    <3>1. CASE UNCHANGED sessions
      BY <3>1
    <3>2. CASE sessions' # sessions
      <4> DEFINE s == request[w].session
      <4>1. /\ ~sessions[s].revoked
            /\ sessions' = [sessions EXCEPT ![s] = Rotated(@, request[w].token)]
        BY <2>3, <3>2 DEF Rotate, Matches
      <4> QED
        BY <4>1
    <3> QED
      BY <3>1, <3>2
  <2>4. ASSUME NEW w \in Workers, DeleteAccount(w) PROVE Sticks
    <3>1. \/ UNCHANGED sessions
          \/ sessions' = [s \in Remaining(request[w].account) |-> sessions[s]]
      BY <2>4 DEF DeleteAccount
    <3> QED
      BY <3>1 DEF Remaining
  <2>5. ASSUME NEW s \in DOMAIN sessions, Logout(s) PROVE Sticks
    <3>1. sessions' = [sessions EXCEPT ![s].revoked = TRUE] /\ sessions[s] \in Session
      BY <2>0, <2>5 DEF Logout, SessionInv, SessionsTyped
    <3> QED
      BY <3>1 DEF Session
  <2>6. ASSUME NEW w \in Workers, WorkerStep(w) PROVE Sticks
    <3>1. AppleSignIn(w) \/ Login(w) => UNCHANGED sessions \/ \E n : OpenSession(n)
      BY DEF AppleSignIn, Login
    <3>2. \/ AppleSignIn(w) \/ Login(w) \/ Rotate(w) \/ DeleteAccount(w)
          \/ UNCHANGED sessions
      BY <2>6, Zenon DEF WorkerStep, StartApple, StartLogin, StartRefresh, StartDelete,
                         LookUpToken, RevokeToken, Crash
    <3> QED
      BY <2>1, <2>2, <2>3, <2>4, <3>1, <3>2
  <2>7. CASE Register \/ VerifyEmail \/ \E b \in BOOLEAN : SetActive(b)
    BY <2>1, <2>7, Zenon DEF Register, VerifyEmail, SetActive
  <2>8. CASE RevocationStep /\ UNCHANGED accountVars
    BY <2>1, <2>8 DEF accountVars
  <2> QED
    BY <1>1, <2>5, <2>6, <2>7, <2>8 DEF Next
<1>2. UNCHANGED vars => Sticks
  BY DEF vars, accountVars
<1>3. IInv /\ [Next]_vars => [Sticks]_vars
  BY <1>1, <1>2
<1> QED
  BY <1>3, Inductive, PTL DEF Spec, LogoutIsFinal
=============================================================================
