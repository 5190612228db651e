-------------------------- MODULE PriceNotifications --------------------------
(***************************************************************************)
(* Price alerts of ONE user for one fuel: the records of the table         *)
(* sent_price_notifications, one per import run, and the workers of        *)
(* process_price_notifications_for_run that read, claim, push and finalize *)
(* in separate transactions.  The import starts a worker for its run and   *)
(* keeps the import lock meanwhile; an administrator may start others for  *)
(* the latest run at any time.  A worker may stop anywhere, or stay away   *)
(* so long that its record counts as stale and is recovered.               *)
(***************************************************************************)
EXTENDS Naturals, Sequences, FiniteSets

CONSTANTS Workers, Devices,
          Prices,      \* prices in thousandths
          Threshold,   \* PRICE_NOTIFICATION_MIN_IMPROVEMENT_EUR
          MaxAttempts, \* PUSH_NOTIFICATION_MAX_ATTEMPTS
          MaxRuns      \* bound: successful imports

ASSUME NotificationsAssumption ==
  /\ Prices \subseteq Nat \ {0}
  /\ Threshold \in Nat \ {0}
  /\ MaxAttempts \in Nat \ {0}
  /\ MaxRuns \in Nat

VARIABLES runs,      \* successful imports so far; the last one is the latest
          active,    \* devices of the user that are active
          record,    \* record[r]: the record of run r
          clock,     \* ticks whenever a sent_at is written
          stale,     \* runs whose record is processing since before the cutoff
          worker,    \* worker[w]: what w is doing
          accepted,     \* history: the alerts Apple has accepted, with answer
          pushes,    \* history: how often run r was pushed
          recovered, \* history: runs whose record was once recovered
          disturbed  \* history: workers overlapped, or one stopped half way

vars == <<runs, active, record, clock, stale, worker,
          accepted, pushes, recovered, disturbed>>
history == <<accepted, pushes, recovered, disturbed>>
table   == <<record, clock, stale>>

NoOffer == 0
Unsent  == 0
Runs    == 1 .. MaxRuns
Resting == [step |-> "resting"]

Record ==
  [status: {"none", "processing", "sent", "failed"}, attempts: 0 .. MaxAttempts,
   temporary: BOOLEAN, recovered: BOOLEAN, price: Prices \cup {NoOffer},
   sentAt: Nat]

Task ==
  [step: {"recover", "devices", "last", "claim", "push", "finalize"},
   run: Runs, locked: BOOLEAN, tokens: SUBSET Devices,
   price: Prices \cup {NoOffer}, invalid: SUBSET Devices,
   sent: BOOLEAN, temporary: BOOLEAN]

TypeOK ==
  /\ runs \in 0 .. MaxRuns
  /\ active \subseteq Devices
  /\ record \in [Runs -> Record]
  /\ clock \in Nat
  /\ stale \subseteq Runs
  /\ worker \in [Workers -> Task \cup {Resting}]
  /\ accepted \in Seq([run: Runs, price: Prices])
  /\ pushes \in [Runs -> Nat]
  /\ recovered \subseteq Runs
  /\ disturbed \in BOOLEAN

NoRecord == [status |-> "none", attempts |-> 0, temporary |-> FALSE,
             recovered |-> FALSE, price |-> NoOffer, sentAt |-> Unsent]

Init ==
  /\ runs = 0
  /\ active = Devices
  /\ record = [r \in Runs |-> NoRecord]
  /\ clock = Unsent
  /\ stale = {}
  /\ worker = [w \in Workers |-> Resting]
  /\ accepted = <<>>
  /\ pushes = [r \in Runs |-> 0]
  /\ recovered = {}
  /\ disturbed = FALSE

Working(w) == worker[w] # Resting

-----------------------------------------------------------------------------
(***************************************************************************)
(* The environment: devices, time, failures.                               *)
(***************************************************************************)
Register(d) ==
  /\ d \notin active
  /\ active' = active \cup {d}
  /\ UNCHANGED <<runs, table, worker, history>>

Unregister(d) ==
  /\ d \in active
  /\ active' = active \ {d}
  /\ UNCHANGED <<runs, table, worker, history>>

\* PUSH_PROCESSING_STALE_SECONDS pass after a claim.
Age(r) ==
  /\ record[r].status = "processing" /\ r \notin stale
  /\ stale' = stale \cup {r}
  /\ UNCHANGED <<runs, active, record, clock, worker, history>>

Stop(w) ==
  /\ Working(w)
  /\ worker' = [worker EXCEPT ![w] = Resting]
  /\ disturbed' = TRUE
  /\ UNCHANGED <<runs, active, table, accepted, pushes, recovered>>

-----------------------------------------------------------------------------
(***************************************************************************)
(* A worker.                                                               *)
(***************************************************************************)
Start(w, r, locked) ==
  /\ ~Working(w)
  /\ worker' = [worker EXCEPT ![w] =
       [step |-> "recover", run |-> r, locked |-> locked, tokens |-> {},
        price |-> NoOffer, invalid |-> {}, sent |-> FALSE,
        temporary |-> FALSE]]
  /\ disturbed' = (disturbed \/ \E v \in Workers : Working(v))
  /\ UNCHANGED <<active, table, accepted, pushes, recovered>>

\* An import succeeds, under the import lock, and its worker starts.
Import(w) ==
  /\ runs < MaxRuns
  /\ \A v \in Workers : Working(v) => ~worker[v].locked
  /\ runs' = runs + 1
  /\ Start(w, runs + 1, TRUE)

\* admin_process_price_notifications
Administer(w) ==
  /\ runs > 0
  /\ Start(w, runs, FALSE)
  /\ UNCHANGED runs

At(w, step) == Working(w) /\ worker[w].step = step

Goto(w, next) ==
  /\ worker' = [worker EXCEPT ![w] = next]
  /\ UNCHANGED runs

Step(w, step) == [worker[w] EXCEPT !.step = step]

\* Mutated: a recovery does not count the attempt it permits.
RecoveredUncounted(r) ==
  LET retry == record[r].attempts < MaxAttempts
  IN [record[r] EXCEPT !.status = "failed", !.temporary = retry,
                       !.recovered = retry]

\* recover_stale_price_notifications on one record
Recovered(r) ==
  LET retry == record[r].attempts < MaxAttempts
  IN [record[r] EXCEPT !.status = "failed",
                       !.attempts = IF retry THEN @ + 1 ELSE @,
                       !.temporary = retry,
                       !.recovered = retry]

Recover(w) ==
  LET r == worker[w].run
  IN /\ At(w, "recover")
     /\ IF r \in stale
          THEN /\ record' = [record EXCEPT ![r] = Recovered(r)]
               /\ stale' = stale \ {r}
               /\ recovered' = recovered \cup {r}
          ELSE UNCHANGED <<record, stale, recovered>>
     /\ Goto(w, Step(w, "devices"))
     /\ UNCHANGED <<active, clock, accepted, pushes, disturbed>>

Read(w, acceptable, next) ==
  /\ Goto(w, IF acceptable THEN next ELSE Resting)
  /\ UNCHANGED <<active, table, history>>

\* The active devices and then find_best_price_for_notification.  No device,
\* no fresh location, no configuration or no price: the user is skipped.
\* Imports and the user's moves change the best price nearby at any time.
ReadDevicesAndBest(w) ==
  /\ At(w, "devices")
  /\ \E best \in Prices \cup {NoOffer} :
       Read(w, active # {} /\ best # NoOffer,
            [worker[w] EXCEPT !.step = "last", !.tokens = active,
                              !.price = best])

\* The sent record with the newest sent_at, if there is one.
LastSent ==
  {r \in Runs :
     /\ record[r].status = "sent"
     /\ \A s \in Runs :
          record[s].status = "sent" => record[s].sentAt <= record[r].sentAt}

\* Mutated: the same price is worth another alert.
IsNotWorse(price) == \A r \in LastSent : price <= record[r].price

\* The price improves on the last one sent by the threshold.
Improves(price) == \A r \in LastSent : price + Threshold <= record[r].price

ReadLast(w) ==
  /\ At(w, "last")
  /\ Read(w, Improves(worker[w].price), Step(w, "claim"))

\* Mutated: whatever failed or is being processed is claimed again.
ClaimableAgain(r) == record[r].status # "sent"

\* The conflict clause of the claim: retryable failures only.
Claimable(r) ==
  \/ record[r].status = "none"
  \/ /\ record[r].status = "failed" /\ record[r].temporary
     /\ record[r].attempts <= MaxAttempts

\* claim_price_notification_record; a recovery has counted the attempt.
Claim(w) ==
  LET r == worker[w].run
  IN /\ At(w, "claim")
     /\ IF Claimable(r)
          THEN /\ record' = [record EXCEPT ![r] =
                    [status |-> "processing",
                     attempts |-> IF @.recovered THEN @.attempts
                                                 ELSE @.attempts + 1,
                     temporary |-> FALSE, recovered |-> FALSE,
                     price |-> worker[w].price, sentAt |-> @.sentAt]]
               /\ stale' = stale \ {r}
               /\ Goto(w, Step(w, "push"))
          ELSE /\ UNCHANGED <<record, stale>>
               /\ Goto(w, Resting)
     /\ UNCHANGED <<active, clock, history>>

\* send_price_notification_to_devices: for each device Apple accepts the
\* alert, fails for now, refuses, or says that the device is invalid.  An
\* answer that is lost is a failure for now, though a device may have shown
\* the alert: only accepted alerts are counted here.  An
\* APNsConfigurationError, which would drop the answers of all devices, has no
\* cause left here: a worker without a configuration skips the user, and
\* devices register for one of the two environments there are.
Outcome(w, ok, temporary, invalid) ==
  /\ ok \cap (temporary \cup invalid) = {} /\ temporary \cap invalid = {}
  /\ accepted' = IF ok = {} THEN accepted
              ELSE Append(accepted, [run |-> worker[w].run,
                                  price |-> worker[w].price])
  /\ Goto(w, [worker[w] EXCEPT !.step = "finalize",
                !.sent = ok # {}, !.temporary = temporary # {},
                !.invalid = invalid, !.tokens = {}, !.price = NoOffer])

Push(w) ==
  /\ At(w, "push")
  /\ \E ok, temporary, invalid \in SUBSET worker[w].tokens :
       Outcome(w, ok, temporary, invalid)
  /\ pushes' = [pushes EXCEPT ![worker[w].run] = @ + 1]
  /\ UNCHANGED <<active, table, recovered, disturbed>>

\* deactivate_invalid_device_token, one transaction per device
Deactivate(w, d) ==
  /\ At(w, "finalize") /\ d \in worker[w].invalid
  /\ active' = active \ {d}
  /\ Goto(w, [worker[w] EXCEPT !.invalid = @ \ {d}])
  /\ UNCHANGED <<table, history>>

Failed(r, temporary) ==
  [record[r] EXCEPT !.status = "failed", !.recovered = FALSE,
                    !.sentAt = Unsent,
                    !.temporary = /\ temporary
                                  /\ record[r].attempts < MaxAttempts]

Sent(r) == [record[r] EXCEPT !.status = "sent", !.recovered = FALSE,
                             !.temporary = FALSE, !.sentAt = clock + 1]

\* finalize_price_notification_record updates the record by its id, whatever
\* has become of it since the claim.
Finalize(w) ==
  LET r == worker[w].run
  IN /\ At(w, "finalize") /\ worker[w].invalid = {}
     /\ IF worker[w].sent
          THEN /\ record' = [record EXCEPT ![r] = Sent(r)]
               /\ clock' = clock + 1
          ELSE /\ record' =
                    [record EXCEPT ![r] = Failed(r, worker[w].temporary)]
               /\ UNCHANGED clock
     /\ stale' = stale \ {r}
     /\ Goto(w, Resting)
     /\ UNCHANGED <<active, history>>

WorkerStep(w) ==
  \/ Import(w) \/ Administer(w) \/ Recover(w)
  \/ ReadDevicesAndBest(w) \/ ReadLast(w)
  \/ Claim(w) \/ Push(w) \/ Finalize(w) \/ Stop(w)
  \/ \E d \in Devices : Deactivate(w, d)

Next ==
  \/ \E w \in Workers : WorkerStep(w)
  \/ \E d \in Devices : Register(d) \/ Unregister(d)
  \/ \E r \in Runs : Age(r)

Spec == Init /\ [][Next]_vars

-----------------------------------------------------------------------------
(***************************************************************************)
(* Properties.                                                             *)
(***************************************************************************)

\* However claims, recoveries and late workers interleave, the alert of a
\* run is pushed at most MaxAttempts times, and its record counts every one.
PushesBounded ==
  \A r \in Runs : pushes[r] <= record[r].attempts

\* Unless a recovery took the record from a worker, Apple accepts the alert
\* of a run in one push only, however many workers process the run.
AcceptedOnce ==
  \A i, j \in DOMAIN accepted :
    accepted[i].run = accepted[j].run /\ accepted[i].run \notin recovered
      => i = j

\* If workers neither overlap nor stop half way, each alert improves on the
\* one before by the threshold, across all runs, retries and price changes.
AlertsImprove ==
  ~disturbed =>
    \A i \in DOMAIN accepted :
      i > 1 => accepted[i].price + Threshold <= accepted[i - 1].price

\* A sent record stays sent, unless a recovery left two workers with it.
SentUnlessRecovered ==
  [][\A r \in Runs :
       record[r].status = "sent" /\ r \notin recovered
         => record'[r].status = "sent"]_vars

\* tests/test_price_notification_recovery.py: a sent record is never
\* recovered, it stays sent.
SentStaysSent ==
  [][\A r \in Runs :
       record[r].status = "sent" => record'[r].status = "sent"]_vars
=============================================================================
