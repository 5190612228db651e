--------------------------- MODULE AppleRevocation ---------------------------
(***************************************************************************)
(* The queue of Apple refresh tokens to revoke (apple_token_revocations)   *)
(* and process_pending_apple_revocations, run by the cron endpoint and by  *)
(* the thread of every server start at once.                               *)
(*                                                                         *)
(* A processor handles a whole batch in one transaction: it locks the due  *)
(* rows, asks Apple about each over HTTP, and only its COMMIT makes the    *)
(* outcomes visible.  Apple forgets a token when it is asked, so a crash   *)
(* in between leaves a pending row for a token that is already invalid.    *)
(* AccountSessions fills the queue.                                        *)
(***************************************************************************)
EXTENDS Naturals

CONSTANTS MaxApple,   \* bound: refresh tokens Apple issues
          Processors  \* concurrent runs of the queue

ASSUME RevocationAssumption == MaxApple \in Nat

AppleTokens == 1 .. MaxApple

VARIABLES issued,   \* refresh tokens Apple issued so far
          valid,    \* those Apple still accepts
          queue,    \* queue[t]: the row of token t
          batch,    \* batch[p]: the rows p holds, with their outcomes
          givenUp   \* tokens Apple rejected or whose retention ended (for
                    \* the properties)

revocationVars == <<issued, valid, queue, batch, givenUp>>

NoRow    == [status |-> "none", due |-> FALSE, expired |-> FALSE]
Row      == [status: {"pending", "failed"}, due: BOOLEAN, expired: BOOLEAN]
Outcomes == {"unasked", "expired", "revoked", "retry", "failed"}

\* What a processor has not touched.
Free == "free"

RevocationTypeOK ==
  /\ issued \in 0 .. MaxApple
  /\ valid \subseteq 1 .. issued
  /\ queue \in [AppleTokens -> Row \cup {NoRow}]
  /\ batch \in [Processors -> [AppleTokens -> Outcomes \cup {Free}]]
  /\ \A p \in Processors, t \in AppleTokens :
       batch[p][t] # Free => /\ queue[t] # NoRow
                             /\ \A q \in Processors \ {p} : batch[q][t] = Free
  /\ givenUp \subseteq 1 .. issued

Idle == [t \in AppleTokens |-> Free]

RevocationInit ==
  /\ issued = 0
  /\ valid = {}
  /\ queue = [t \in AppleTokens |-> NoRow]
  /\ batch = [p \in Processors |-> Idle]
  /\ givenUp = {}

Locked(t) == \E p \in Processors : batch[p][t] # Free

\* exchange_apple_authorization_code: Apple issues a token.
Issue ==
  /\ issued < MaxApple
  /\ issued' = issued + 1
  /\ valid' = valid \cup {issued + 1}

\* revoke_apple_refresh_token, with its own repetitions: Apple revokes the
\* token or says it was invalid before; the answer stays away, is temporary
\* or blames the configuration, though Apple may have revoked the token; or
\* Apple rejects the request.
AsksApple(t, outcome) ==
  \/ outcome = "revoked" /\ valid' = valid \ {t}
  \/ outcome = "retry"   /\ valid' \in {valid, valid \ {t}}
  \/ outcome = "failed"  /\ valid' = valid

\* queue_apple_revocation: a new row, or the old one pending again; it waits
\* for a processor that holds the row.
Enqueued(t) ==
  [queue EXCEPT ![t] = IF @ = NoRow
     THEN [status |-> "pending", due |-> TRUE, expired |-> FALSE]
     ELSE [@ EXCEPT !.status = "pending", !.due = TRUE]]

-----------------------------------------------------------------------------
\* Mutated: expired rows are skipped, not deleted.
TakeDueOnly(p) ==
  /\ batch[p] = Idle
  /\ batch' = [batch EXCEPT ![p] = [t \in AppleTokens |->
       IF queue[t].status = "pending" /\ queue[t].due /\ ~queue[t].expired
          /\ ~Locked(t)
         THEN "unasked" ELSE Free]]
  /\ batch'[p] # Idle
  /\ UNCHANGED <<issued, valid, queue, givenUp>>

\* DELETE of the expired rows, which waits for their locks, and SELECT of
\* the due ones FOR UPDATE SKIP LOCKED.
Take(p) ==
  /\ batch[p] = Idle
  /\ \A t \in AppleTokens : queue[t].expired => ~Locked(t)
  /\ batch' = [batch EXCEPT ![p] = [t \in AppleTokens |->
       IF queue[t].expired THEN "expired"
       ELSE IF queue[t].status = "pending" /\ queue[t].due /\ ~Locked(t)
         THEN "unasked"
       ELSE Free]]
  /\ batch'[p] # Idle
  /\ UNCHANGED <<issued, valid, queue, givenUp>>

Ask(p) ==
  \E t \in AppleTokens, outcome \in {"revoked", "retry", "failed"} :
    /\ batch[p][t] = "unasked"
    /\ AsksApple(t, outcome)
    /\ batch' = [batch EXCEPT ![p][t] = outcome]
    /\ UNCHANGED <<issued, queue, givenUp>>

\* Mutated: a temporary failure is treated as an answer.
ProcessedOnce(row, outcome) ==
  CASE outcome \in {"revoked", "expired", "retry"} -> NoRow
    [] outcome = "failed" -> [row EXCEPT !.status = "failed"]
    [] OTHER -> row

\* A row after its batch: deleted, delayed or failed for good.
Processed(row, outcome) ==
  CASE outcome \in {"revoked", "expired"} -> NoRow
    [] outcome = "retry"  -> [row EXCEPT !.due = FALSE]
    [] outcome = "failed" -> [row EXCEPT !.status = "failed"]
    [] OTHER -> row

CommitBatch(p) ==
  /\ batch[p] # Idle
  /\ \A t \in AppleTokens : batch[p][t] # "unasked"
  /\ queue' = [t \in AppleTokens |-> Processed(queue[t], batch[p][t])]
  /\ givenUp' = givenUp \cup
       {t \in AppleTokens : batch[p][t] \in {"expired", "failed"}}
  /\ batch' = [batch EXCEPT ![p] = Idle]
  /\ UNCHANGED <<issued, valid>>

\* The process stops or loses its connection: the transaction is rolled
\* back, but Apple keeps what it was told.
CrashBatch(p) ==
  /\ batch[p] # Idle
  /\ batch' = [batch EXCEPT ![p] = Idle]
  /\ UNCHANGED <<issued, valid, queue, givenUp>>

\* next_attempt_at comes; the retention of the row ends.
ComeDue(t) ==
  /\ queue[t] # NoRow /\ ~queue[t].due
  /\ queue' = [queue EXCEPT ![t].due = TRUE]
  /\ UNCHANGED <<issued, valid, batch, givenUp>>

Expire(t) ==
  /\ queue[t] # NoRow /\ ~queue[t].expired
  /\ queue' = [queue EXCEPT ![t].expired = TRUE]
  /\ UNCHANGED <<issued, valid, batch, givenUp>>

ProcessorStep(p) == Take(p) \/ Ask(p) \/ CommitBatch(p)

RevocationStep ==
  \/ \E p \in Processors : ProcessorStep(p) \/ CrashBatch(p)
  \/ \E t \in AppleTokens : ComeDue(t) \/ Expire(t)
=============================================================================
