----------------------- MODULE PriceNotificationsProofs -----------------------
(***************************************************************************)
(* Proofs about PriceNotifications, for any number of workers, devices and *)
(* runs, any prices, threshold and limit of attempts: type correctness     *)
(* with the limit of attempts; that an alert is accepted once, and what is *)
(* sent stays sent, unless a recovery took the record from a worker; that  *)
(* every push is counted by its record; and that without overlapping       *)
(* workers every alert improves on the one before.                         *)
(***************************************************************************)
EXTENDS PriceNotifications, FiniteSetTheorems, TLAPS

\* A record says it was recovered only while it waits to be claimed again,
\* and what can be claimed again has an attempt left, or counted already.
RetriesCounted ==
  \A r \in Runs :
    /\ record[r].recovered => record[r].status = "failed"
    /\ record[r].status = "none" => record[r].attempts = 0
    /\ record[r].status = "failed" /\ record[r].temporary
         => record[r].recovered \/ record[r].attempts < MaxAttempts

Holds(w, r) ==
  worker[w].step \in {"push", "finalize"} /\ worker[w].run = r

Accepted(r) == \E i \in DOMAIN accepted : accepted[i].run = r

\* A record no recovery has touched belongs to one worker while it is being
\* processed, and to nobody before and after.
OneHolder ==
  \A r \in Runs \ recovered : \A w \in Workers :
    Holds(w, r) =>
      /\ record[r].status = "processing"
      /\ \A v \in Workers : Holds(v, r) => v = w

\* What Apple has accepted is being processed or was recorded as sent, and
\* its worker knows.
AcceptedIsKnown ==
  \A r \in Runs \ recovered :
    Accepted(r) =>
      /\ record[r].status \in {"processing", "sent"}
      /\ \A w \in Workers :
           Holds(w, r) => worker[w].step = "finalize" /\ worker[w].sent

\* Only a record that is being processed can be too old.
StaleIsProcessing == \A r \in stale : record[r].status = "processing"

\* A worker that got beyond its reads has found a price.
PriceFound ==
  \A w \in Workers :
    worker[w].step \in {"last", "claim", "push"} => worker[w].price # NoOffer

IInv == /\ TypeOK /\ RetriesCounted /\ OneHolder /\ AcceptedIsKnown
        /\ StaleIsProcessing /\ PriceFound /\ AcceptedOnce

-----------------------------------------------------------------------------
\* A worker that is at some step of its work has a task.
LEMMA AtTask ==
  ASSUME TypeOK, NEW w \in Workers, NEW step, At(w, step)
  PROVE  worker[w] \in Task /\ worker[w].step = step
  BY DEF TypeOK, At, Working

\* A resting worker is not at any step of a task.
LEMMA RestingStep ==
  Resting \notin Task /\ Resting.step = "resting"
  BY DEF Resting, Task

\* A step of a worker that changes its step only.
LEMMA StepTask ==
  ASSUME NEW task \in Task,
         NEW step \in {"recover", "devices", "last", "claim", "push",
                       "finalize"}
  PROVE  [task EXCEPT !.step = step] \in Task
  BY DEF Task

-----------------------------------------------------------------------------
(***************************************************************************)
(* Type correctness and the counted retries.                               *)
(***************************************************************************)
Typed == TypeOK /\ RetriesCounted /\ PriceFound

LEMMA TypedInit == Init => Typed
  <1> SUFFICES ASSUME Init PROVE Typed
    OBVIOUS
  <1>1. NoRecord \in Record
    BY NotificationsAssumption DEF NoRecord, Record, Unsent, NoOffer
  <1>2. TypeOK
    <2>1. accepted \in Seq([run: Runs, price: Prices])
      BY DEF Init
    <2>2. runs \in 0 .. MaxRuns /\ clock \in Nat
      BY NotificationsAssumption DEF Init, Unsent
    <2>3. record \in [Runs -> Record] /\ pushes \in [Runs -> Nat]
      BY <1>1 DEF Init
    <2>4. worker \in [Workers -> Task \cup {Resting}]
      BY DEF Init
    <2>5. QED
      BY <2>1, <2>2, <2>3, <2>4 DEF Init, TypeOK
  <1>3. RetriesCounted
    BY DEF Init, RetriesCounted, NoRecord
  <1>4. PriceFound
    BY RestingStep DEF Init, PriceFound
  <1>5. QED
    BY <1>2, <1>3, <1>4 DEF Typed

\* Every step keeps the variables well typed and the retries counted.
LEMMA TypedStep == Typed /\ [Next]_vars => Typed'
  <1> SUFFICES ASSUME Typed, [Next]_vars PROVE Typed'
    OBVIOUS
  <1> USE NotificationsAssumption DEF NoOffer, Unsent
  <1>0. TypeOK /\ RetriesCounted /\ PriceFound
    BY DEF Typed
  <1>1. ASSUME NEW w \in Workers, Import(w) PROVE Typed'
    <2>1. runs + 1 \in Runs
      BY <1>0, <1>1 DEF Import, TypeOK, Runs
    <2>2. [step |-> "recover", run |-> runs + 1, locked |-> TRUE,
           tokens |-> {}, price |-> NoOffer, invalid |-> {}, sent |-> FALSE,
           temporary |-> FALSE] \in Task
      BY <2>1 DEF Task
    <2>3. runs' \in 0 .. MaxRuns
      BY <1>0, <1>1 DEF Import, TypeOK
    <2>4. QED
      BY <1>0, <1>1, <2>2, <2>3 DEF Import, Start, table, Typed, TypeOK,
         RetriesCounted, PriceFound
  <1>2. ASSUME NEW w \in Workers, Administer(w) PROVE Typed'
    <2>1. runs \in Runs
      BY <1>0, <1>2 DEF Administer, TypeOK, Runs
    <2>2. [step |-> "recover", run |-> runs, locked |-> FALSE,
           tokens |-> {}, price |-> NoOffer, invalid |-> {}, sent |-> FALSE,
           temporary |-> FALSE] \in Task
      BY <2>1 DEF Task
    <2>3. QED
      BY <1>0, <1>2, <2>2 DEF Administer, Start, table, Typed, TypeOK,
         RetriesCounted, PriceFound
  <1>3. ASSUME NEW w \in Workers, Recover(w) PROVE Typed'
    <2>0. worker[w] \in Task /\ worker[w].run \in Runs
      BY <1>0, <1>3, AtTask DEF Recover, Task
    <2>1. Step(w, "devices") \in Task /\ Step(w, "devices").step = "devices"
      BY <2>0, StepTask DEF Step, Task
    <2> DEFINE r == worker[w].run
               old == record[r]
               new == Recovered(r)
    <2>2. old \in Record
      BY <1>0, <2>0 DEF TypeOK
    <2> DEFINE retry == old.attempts < MaxAttempts
               counted == IF retry THEN old.attempts + 1 ELSE old.attempts
    <2>3. new = [old EXCEPT !.status = "failed", !.attempts = counted,
                            !.temporary = retry, !.recovered = retry]
      BY DEF Recovered
    <2>4. new \in Record
      <3>1. retry \in BOOLEAN
        OBVIOUS
      <3>2. counted \in 0 .. MaxAttempts
        BY <2>2 DEF Record
      <3> HIDE DEF old, retry, counted, new
      <3>3. QED
        BY <2>2, <2>3, <3>1, <3>2 DEF Record
    <2> HIDE DEF old
    <2>5. new.status = "failed" /\ (new.temporary => new.recovered)
      BY <2>2, <2>3 DEF Record
    <2> HIDE DEF new
    <2>6. PriceFound'
      BY <1>0, <1>3, <2>1 DEF Recover, Goto, PriceFound, TypeOK
    <2>7. record' \in {record, [record EXCEPT ![r] = new]}
      BY <1>3 DEF Recover, new
    <2>8. RetriesCounted'
      BY <1>0, <2>0, <2>5, <2>7 DEF RetriesCounted, TypeOK
    <2>9. TypeOK'
      BY <1>0, <1>3, <2>0, <2>1, <2>4, <2>7 DEF Recover, Goto, TypeOK
    <2>10. QED
      BY <2>6, <2>8, <2>9 DEF Typed
  <1>4. ASSUME NEW w \in Workers, ReadDevicesAndBest(w) PROVE Typed'
    <2>0. worker[w] \in Task
      BY <1>0, <1>4, AtTask DEF ReadDevicesAndBest
    <2>1. PICK best \in Prices \cup {NoOffer} :
            worker' = [worker EXCEPT ![w] =
               IF active # {} /\ best # NoOffer
                 THEN [worker[w] EXCEPT !.step = "last", !.tokens = active,
                                        !.price = best]
                 ELSE Resting]
      BY <1>4 DEF ReadDevicesAndBest, Read, Goto
    <2>2. [worker[w] EXCEPT !.step = "last", !.tokens = active,
                            !.price = best] \in Task
      BY <1>0, <2>0 DEF TypeOK, Task
    <2>3. worker' \in [Workers -> Task \cup {Resting}]
      BY <1>0, <2>1, <2>2 DEF TypeOK
    <2>4. PriceFound'
      BY <1>0, <2>0, <2>1 DEF PriceFound, TypeOK, Task, Resting
    <2>5. QED
      BY <1>0, <1>4, <2>3, <2>4 DEF ReadDevicesAndBest, Read, Goto, table,
         history, Typed, TypeOK, RetriesCounted
  <1>5. ASSUME NEW w \in Workers, ReadLast(w) PROVE Typed'
    <2>0. worker[w] \in Task /\ worker[w].step = "last"
      BY <1>0, <1>5, AtTask DEF ReadLast
    <2>1. Step(w, "claim") \in Task /\ Step(w, "claim").price # NoOffer
      BY <1>0, <2>0, StepTask DEF Step, Task, PriceFound
    <2>2. QED
      BY <1>0, <1>5, <2>1, RestingStep DEF ReadLast, Read, Goto, table, history,
         Typed, TypeOK, RetriesCounted, PriceFound
  <1>6. ASSUME NEW w \in Workers, Claim(w) PROVE Typed'
    <2> DEFINE r == worker[w].run
               claimed == [status |-> "processing",
                  attempts |-> IF record[r].recovered THEN record[r].attempts
                                                 ELSE record[r].attempts + 1,
                  temporary |-> FALSE, recovered |-> FALSE,
                  price |-> worker[w].price, sentAt |-> record[r].sentAt]
    <2>0. worker[w] \in Task /\ worker[w].step = "claim" /\ r \in Runs
      BY <1>0, <1>6, AtTask DEF Claim, Task
    <2>1. Step(w, "push") \in Task /\ Step(w, "push").price # NoOffer
      BY <1>0, <2>0, StepTask DEF Step, Task, PriceFound
    <2>2. CASE Claimable(r)
      <3>1. record[r] \in Record
        BY <1>0, <2>0 DEF TypeOK
      <3>2. claimed.attempts \in 0 .. MaxAttempts
        BY <1>0, <2>0, <2>2, <3>1 DEF Claimable, RetriesCounted, Record
      <3>3. claimed \in Record
        BY <2>0, <3>1, <3>2 DEF Record, Task
      <3>4. /\ record' = [record EXCEPT ![r] = claimed]
            /\ worker' = [worker EXCEPT ![w] = Step(w, "push")]
            /\ stale' = stale \ {r}
            /\ UNCHANGED <<runs, active, clock, history>>
        BY <1>6, <2>2 DEF Claim, Goto
      <3> HIDE DEF claimed
      <3>5. TypeOK'
        BY <1>0, <2>0, <2>1, <3>3, <3>4 DEF TypeOK, history
      <3>6. PriceFound'
        BY <1>0, <2>1, <3>4 DEF PriceFound, TypeOK
      <3>7. claimed.status = "processing" /\ ~claimed.recovered
        BY DEF claimed
      <3>8. RetriesCounted'
        BY <1>0, <2>0, <3>4, <3>7 DEF RetriesCounted, TypeOK
      <3>9. QED
        BY <3>5, <3>6, <3>8 DEF Typed
    <2>3. CASE ~Claimable(r)
      BY <1>0, <1>6, <2>3, RestingStep DEF Claim, Goto, history, Typed, TypeOK,
         RetriesCounted, PriceFound
    <2>4. QED
      BY <2>2, <2>3
  <1>7. ASSUME NEW w \in Workers, Push(w) PROVE Typed'
    <2> DEFINE r == worker[w].run
    <2>0. /\ worker[w] \in Task /\ worker[w].step = "push" /\ r \in Runs
          /\ worker[w].price \in Prices /\ worker[w].tokens \subseteq Devices
      BY <1>0, <1>7, AtTask DEF Push, Task, PriceFound
    <2> HIDE DEF r
    <2>1. PICK ok \in SUBSET worker[w].tokens,
               temporary \in SUBSET worker[w].tokens,
               invalid \in SUBSET worker[w].tokens :
            Outcome(w, ok, temporary, invalid)
      BY <1>7 DEF Push
    <2> DEFINE pushed == [worker[w] EXCEPT !.step = "finalize",
                    !.sent = ok # {}, !.temporary = temporary # {},
                    !.invalid = invalid, !.tokens = {}, !.price = NoOffer]
    <2>2. pushed \in Task /\ pushed.step = "finalize"
      BY <2>0 DEF Task
    <2> HIDE DEF pushed
    <2>3. worker' = [worker EXCEPT ![w] = pushed]
      BY <2>1 DEF Outcome, Goto, pushed
    <2>4. accepted' \in Seq([run: Runs, price: Prices])
      <3> DEFINE Alerts == [run: Runs, price: Prices]
                 alert == [run |-> r, price |-> worker[w].price]
      <3>1. alert \in Alerts
        BY <2>0 DEF r
      <3>2. accepted' = accepted \/ accepted' = Append(accepted, alert)
        BY <2>1 DEF Outcome, r
      <3>3. accepted \in Seq(Alerts)
        BY <1>0 DEF TypeOK
      <3> HIDE DEF alert, Alerts
      <3>4. Append(accepted, alert) \in Seq(Alerts)
        BY <3>1, <3>3
      <3>5. accepted' \in Seq(Alerts)
        BY <3>2, <3>3, <3>4
      <3>6. QED
        BY <3>5 DEF Alerts
    <2>5. pushes' \in [Runs -> Nat]
      BY <1>0, <1>7, <2>0 DEF Push, TypeOK, r
    <2>6. PriceFound'
      BY <1>0, <2>2, <2>3 DEF PriceFound, TypeOK
    <2>7. QED
      BY <1>0, <1>7, <2>2, <2>3, <2>4, <2>5, <2>6
      DEF Push, Outcome, Goto, table, Typed, TypeOK, RetriesCounted
  <1>8. ASSUME NEW w \in Workers, NEW d \in Devices, Deactivate(w, d)
        PROVE  Typed'
    <2> DEFINE next == [worker[w] EXCEPT !.invalid = @ \ {d}]
    <2>1. next \in Task /\ next.step = "finalize"
      BY <1>0, <1>8, AtTask DEF Deactivate, Task
    <2> HIDE DEF next
    <2>2. worker' = [worker EXCEPT ![w] = next]
      BY <1>8 DEF Deactivate, Goto, next
    <2>3. QED
      BY <1>0, <1>8, <2>1, <2>2 DEF Deactivate, Goto, table, history, Typed,
         TypeOK, RetriesCounted, PriceFound
  <1>9. ASSUME NEW w \in Workers, Finalize(w) PROVE Typed'
    <2> DEFINE r == worker[w].run
               new == IF worker[w].sent THEN Sent(r)
                      ELSE Failed(r, worker[w].temporary)
    <2>0. worker[w] \in Task /\ r \in Runs
      BY <1>0, <1>9, AtTask DEF Finalize, Task
    <2>1. record[r] \in Record /\ clock \in Nat
      BY <1>0, <2>0 DEF TypeOK
    <2>2. /\ new \in Record
          /\ ~new.recovered /\ new.status \in {"sent", "failed"}
          /\ new.status = "failed" /\ new.temporary
               => new.attempts < MaxAttempts
      <3>1. worker[w].sent \in BOOLEAN /\ worker[w].temporary \in BOOLEAN
        BY <2>0 DEF Task
      <3> DEFINE old == record[r]
                 fate == IF worker[w].sent THEN "sent" ELSE "failed"
                 retryable == /\ ~worker[w].sent /\ worker[w].temporary
                              /\ old.attempts < MaxAttempts
                 at == IF worker[w].sent THEN clock + 1 ELSE Unsent
      <3>2. new = [old EXCEPT !.status = fate, !.recovered = FALSE,
                              !.temporary = retryable, !.sentAt = at]
        BY <2>1 DEF Sent, Failed, Record
      <3>3. /\ old \in Record /\ fate \in {"sent", "failed"}
            /\ retryable \in BOOLEAN /\ at \in Nat
            /\ retryable => old.attempts < MaxAttempts
        BY <2>1, <3>1
      <3> HIDE DEF old, fate, retryable, at, new
      <3>4. new \in Record
        BY <3>2, <3>3 DEF Record
      <3>5. /\ new.status = fate /\ new.recovered = FALSE
            /\ new.temporary = retryable /\ new.attempts = old.attempts
        BY <3>2, <3>3 DEF Record
      <3>6. QED
        BY <3>3, <3>4, <3>5
    <2>3. record' = [record EXCEPT ![r] = new] /\ clock' \in Nat
      BY <1>9, <2>1 DEF Finalize
    <2> HIDE DEF new
    <2>4. RetriesCounted'
      BY <1>0, <2>0, <2>2, <2>3 DEF RetriesCounted, TypeOK
    <2>5. worker' = [worker EXCEPT ![w] = Resting]
      BY <1>9 DEF Finalize, Goto
    <2>6. PriceFound'
      BY <1>0, <2>5, RestingStep DEF PriceFound, TypeOK
    <2>7. QED
      BY <1>0, <1>9, <2>0, <2>2, <2>3, <2>4, <2>5, <2>6
      DEF Finalize, Goto, history, Typed, TypeOK
  <1>10. ASSUME NEW w \in Workers, Stop(w) PROVE Typed'
    BY <1>0, <1>10, RestingStep DEF Stop, table, Typed, TypeOK, RetriesCounted,
       PriceFound
  <1>11. ASSUME NEW d \in Devices, Register(d) \/ Unregister(d) PROVE Typed'
    BY <1>0, <1>11 DEF Register, Unregister, table, history, Typed, TypeOK,
       RetriesCounted, PriceFound
  <1>12. ASSUME NEW r \in Runs, Age(r) PROVE Typed'
    BY <1>0, <1>12 DEF Age, history, Typed, TypeOK, RetriesCounted, PriceFound
  <1>13. CASE UNCHANGED vars
    BY <1>0, <1>13 DEF vars, Typed, TypeOK, RetriesCounted, PriceFound
  <1>14. QED
    BY <1>1, <1>2, <1>3, <1>4, <1>5, <1>6, <1>7, <1>8, <1>9, <1>10, <1>11,
       <1>12, <1>13 DEF Next, WorkerStep

\* TypeOK holds in every reachable state: in particular no record counts more
\* than MaxAttempts attempts, whatever recoveries and late workers do.
THEOREM TypeCorrect == Spec => []TypeOK
  <1>1. Typed => TypeOK
    BY DEF Typed
  <1>2. QED
    BY TypedInit, TypedStep, <1>1, PTL DEF Spec

-----------------------------------------------------------------------------
(***************************************************************************)
(* An alert is accepted once, and what was sent stays sent, as long as no  *)
(* recovery takes the record from its worker.                              *)
(***************************************************************************)
Known == OneHolder /\ AcceptedIsKnown /\ StaleIsProcessing /\ AcceptedOnce

LEMMA KnownInit == Init => Known
  <1> SUFFICES ASSUME Init PROVE Known
    OBVIOUS
  <1>1. OneHolder
    BY RestingStep DEF Init, OneHolder, Holds
  <1>2. AcceptedIsKnown
    BY DEF Init, AcceptedIsKnown, Accepted
  <1>3. StaleIsProcessing /\ AcceptedOnce
    BY DEF Init, StaleIsProcessing, AcceptedOnce
  <1>4. QED
    BY <1>1, <1>2, <1>3 DEF Known

\* A step of one worker that takes no record, shows nothing and leaves the
\* table alone.
Quiet(w) ==
  \E next \in Task \cup {Resting} :
    /\ worker' = [worker EXCEPT ![w] = next]
    /\ \/ next.step \notin {"push", "finalize"}
       \/ /\ next.step = "finalize" /\ worker[w].step = "finalize"
          /\ next.run = worker[w].run /\ next.sent = worker[w].sent
    /\ UNCHANGED <<record, stale, accepted, recovered>>

LEMMA QuietStep ==
  ASSUME TypeOK, Known, NEW w \in Workers, Quiet(w)
  PROVE  Known'
  <1>1. PICK next \in Task \cup {Resting} :
          /\ worker' = [worker EXCEPT ![w] = next]
          /\ \/ next.step \notin {"push", "finalize"}
             \/ /\ next.step = "finalize" /\ worker[w].step = "finalize"
                /\ next.run = worker[w].run /\ next.sent = worker[w].sent
    BY DEF Quiet
  <1>2. UNCHANGED <<record, stale, accepted, recovered>>
    BY DEF Quiet
  <1>3. /\ worker'[w] = next
        /\ \A v \in Workers : v # w => worker'[v] = worker[v]
    BY <1>1 DEF TypeOK
  <1>4. ASSUME NEW v \in Workers, NEW r, Holds(v, r)'
        PROVE  /\ Holds(v, r)
               /\ worker'[v].step = worker[v].step
               /\ worker'[v].step = "finalize"
                    => worker'[v].sent = worker[v].sent
    BY <1>1, <1>3, <1>4 DEF Holds
  <1>5. OneHolder'
    BY <1>2, <1>4 DEF Known, OneHolder
  <1>6. AcceptedIsKnown'
    BY <1>2, <1>4 DEF Known, AcceptedIsKnown, Accepted
  <1>7. QED
    BY <1>2, <1>5, <1>6 DEF Known, StaleIsProcessing, AcceptedOnce

\* Every step keeps one holder per record, and what was accepted known.
LEMMA KnownStep == TypeOK /\ Typed' /\ Known /\ [Next]_vars => Known'
  <1> SUFFICES ASSUME TypeOK, Typed', Known, [Next]_vars PROVE Known'
    OBVIOUS
  <1>0. OneHolder /\ AcceptedIsKnown /\ StaleIsProcessing /\ AcceptedOnce
    BY DEF Known
  <1>a. worker' \in [Workers -> Task \cup {Resting}]
    BY DEF Typed, TypeOK
  <1>1. ASSUME NEW w \in Workers, Import(w) \/ Administer(w) PROVE Known'
    <2>1. worker'[w] \in Task \cup {Resting} /\ worker'[w].step = "recover"
      BY <1>1, <1>a DEF Import, Administer, Start, TypeOK
    <2>2. worker' = [worker EXCEPT ![w] = worker'[w]]
      BY <1>1, <1>a DEF Import, Administer, Start, TypeOK
    <2>3. Quiet(w)
      BY <1>1, <2>1, <2>2 DEF Import, Administer, Start, Quiet, table
    <2>4. QED
      BY <2>3, QuietStep
  <1>2. ASSUME NEW w \in Workers, Recover(w) PROVE Known'
    <2> DEFINE r == worker[w].run
    <2>1. worker[w] \in Task
      BY <1>2, AtTask DEF Recover
    <2>2. /\ worker'[w].step = "devices"
          /\ \A v \in Workers : v # w => worker'[v] = worker[v]
      BY <1>2, <2>1 DEF Recover, Goto, Step, TypeOK, Task
    <2>3. /\ recovered \subseteq recovered' /\ stale' \subseteq stale
          /\ accepted' = accepted
          /\ \A s \in Runs : s \notin recovered' => record'[s] = record[s]
          /\ \A s \in stale' : record'[s] = record[s]
      BY <1>2 DEF Recover, TypeOK
    <2>4. \A v \in Workers, s \in Runs :
            Holds(v, s)' => Holds(v, s) /\ worker'[v] = worker[v]
      BY <2>2 DEF Holds
    <2>5. OneHolder'
      BY <1>0, <2>3, <2>4 DEF OneHolder
    <2>6. AcceptedIsKnown'
      BY <1>0, <2>3, <2>4 DEF AcceptedIsKnown, Accepted
    <2>7. StaleIsProcessing' /\ AcceptedOnce'
      BY <1>0, <2>3 DEF StaleIsProcessing, AcceptedOnce
    <2>8. QED
      BY <2>5, <2>6, <2>7 DEF Known
  <1>3. ASSUME NEW w \in Workers, ReadDevicesAndBest(w) \/ ReadLast(w)
        PROVE  Known'
    <2>1. worker[w] \in Task
      BY <1>3, AtTask DEF ReadDevicesAndBest, ReadLast
    <2>2. worker'[w] \in Task \cup {Resting}
      BY <1>a
    <2>3. PICK next :
            /\ worker' = [worker EXCEPT ![w] = next]
            /\ next.step \in {"last", "claim", "resting"}
      <3>1. CASE ReadLast(w)
        <4>1. Step(w, "claim").step = "claim"
          BY <2>1 DEF Step, Task
        <4>2. QED
          BY <3>1, <4>1, RestingStep DEF ReadLast, Read, Goto
      <3>2. CASE ReadDevicesAndBest(w)
        <4>1. PICK best \in Prices \cup {NoOffer} :
                worker' = [worker EXCEPT ![w] =
                   IF active # {} /\ best # NoOffer
                     THEN [worker[w] EXCEPT !.step = "last", !.tokens = active,
                                            !.price = best]
                     ELSE Resting]
          BY <3>2 DEF ReadDevicesAndBest, Read, Goto
        <4>2. [worker[w] EXCEPT !.step = "last", !.tokens = active,
                                !.price = best].step = "last"
          BY <2>1 DEF Task
        <4>3. QED
          BY <4>1, <4>2, RestingStep
      <3>3. QED
        BY <1>3, <3>1, <3>2
    <2>4. worker'[w] = next
      BY <2>3 DEF TypeOK
    <2>5. Quiet(w)
      BY <1>3, <2>2, <2>3, <2>4
      DEF ReadDevicesAndBest, ReadLast, Read, Quiet, table, history
    <2>6. QED
      BY <2>5, QuietStep
  <1>4. ASSUME NEW w \in Workers, Claim(w) PROVE Known'
    <2> DEFINE r == worker[w].run
    <2>0. worker[w] \in Task /\ worker[w].step = "claim" /\ r \in Runs
      BY <1>4, AtTask DEF Claim, Task
    <2>1. CASE Claimable(r)
      <3>1. record[r].status \in {"none", "failed"}
        BY <2>1 DEF Claimable
      <3>2. /\ worker'[w].step = "push" /\ worker'[w].run = r
            /\ \A v \in Workers : v # w => worker'[v] = worker[v]
        BY <1>4, <2>0, <2>1 DEF Claim, Goto, Step, TypeOK, Task
      <3>3. /\ record'[r].status = "processing"
            /\ \A s \in Runs : s # r => record'[s] = record[s]
            /\ stale' = stale \ {r}
        BY <1>4, <2>0, <2>1 DEF Claim, TypeOK
      <3>4. accepted' = accepted /\ recovered' = recovered
        BY <1>4 DEF Claim, history
      <3>5. \A v \in Workers, s \in Runs :
              Holds(v, s)' => \/ v = w /\ s = r
                              \/ /\ v # w /\ Holds(v, s)
                                 /\ worker'[v] = worker[v]
        BY <3>2 DEF Holds
      <3>6. r \notin recovered =>
              ~Accepted(r) /\ \A v \in Workers : ~Holds(v, r)
        BY <1>0, <2>0, <3>1 DEF OneHolder, AcceptedIsKnown
      <3>7. OneHolder'
        BY <1>0, <3>3, <3>4, <3>5, <3>6 DEF OneHolder
      <3>8. AcceptedIsKnown'
        BY <1>0, <3>3, <3>4, <3>5, <3>6 DEF AcceptedIsKnown, Accepted
      <3>9. StaleIsProcessing' /\ AcceptedOnce'
        BY <1>0, <3>3, <3>4 DEF StaleIsProcessing, AcceptedOnce, TypeOK
      <3>10. QED
        BY <3>7, <3>8, <3>9 DEF Known
    <2>2. CASE ~Claimable(r)
      <3>1. Quiet(w)
        BY <1>4, <2>2, RestingStep DEF Claim, Goto, Quiet, history
      <3>2. QED
        BY <3>1, QuietStep
    <2>3. QED
      BY <2>1, <2>2
  <1>5. ASSUME NEW w \in Workers, Push(w) PROVE Known'
    <2> DEFINE r == worker[w].run
    <2>0. worker[w] \in Task /\ worker[w].step = "push" /\ r \in Runs
      BY <1>5, AtTask DEF Push, Task
    <2>1. PICK ok \in SUBSET worker[w].tokens,
               temporary \in SUBSET worker[w].tokens,
               invalid \in SUBSET worker[w].tokens :
            Outcome(w, ok, temporary, invalid)
      BY <1>5 DEF Push
    <2>2. /\ worker'[w].step = "finalize" /\ worker'[w].run = r
          /\ worker'[w].sent = (ok # {})
      BY <2>0, <2>1 DEF Outcome, Goto, TypeOK, Task
    <2>3. \A v \in Workers : v # w => worker'[v] = worker[v]
      BY <2>1 DEF Outcome, Goto, TypeOK
    <2>4. record' = record /\ stale' = stale /\ recovered' = recovered
      BY <1>5 DEF Push, table
    <2>5. Holds(w, r)
      BY <2>0 DEF Holds
    <2>6. \A v \in Workers, s \in Runs :
            Holds(v, s)' => /\ Holds(v, s)
                            /\ v = w => s = r
                            /\ v # w => worker'[v] = worker[v]
      BY <2>2, <2>3, <2>5 DEF Holds
    <2>7. OneHolder'
      BY <1>0, <2>4, <2>6 DEF OneHolder
    <2>8. r \notin recovered => ~Accepted(r) /\ record[r].status = "processing"
      BY <1>0, <2>0, <2>5 DEF OneHolder, AcceptedIsKnown
    <2>9. StaleIsProcessing'
      BY <1>0, <2>4 DEF StaleIsProcessing
    <2>10. CASE ok = {}
      <3>1. accepted' = accepted
        BY <2>1, <2>10 DEF Outcome
      <3>2. AcceptedIsKnown'
        BY <1>0, <2>4, <2>6, <2>8, <3>1 DEF AcceptedIsKnown, Accepted
      <3>3. AcceptedOnce'
        BY <1>0, <2>4, <3>1 DEF AcceptedOnce
      <3>4. QED
        BY <2>7, <2>9, <3>2, <3>3 DEF Known
    <2>11. CASE ok # {}
      <3> DEFINE alert == [run |-> r, price |-> worker[w].price]
                 n == Len(accepted)
      <3>1. accepted' = Append(accepted, alert) /\ alert.run = r
        BY <2>1, <2>11 DEF Outcome
      <3> HIDE DEF alert
      <3>2. /\ n \in Nat /\ DOMAIN accepted = 1 .. n
            /\ DOMAIN accepted' = 1 .. n + 1
            /\ \A i \in 1 .. n : accepted'[i] = accepted[i]
            /\ accepted'[n + 1] = alert
        BY <3>1 DEF TypeOK
      <3> HIDE DEF n
      <3>3. \A s : Accepted(s)' => Accepted(s) \/ s = r
        BY <3>1, <3>2 DEF Accepted
      <3>4. AcceptedIsKnown'
        <4> SUFFICES ASSUME NEW s \in Runs \ recovered, Accepted(s)'
                     PROVE  /\ record[s].status \in {"processing", "sent"}
                            /\ \A v \in Workers : Holds(v, s)' =>
                                 worker'[v].step = "finalize" /\ worker'[v].sent
          BY <2>4 DEF AcceptedIsKnown
        <4>1. CASE s = r
          <5>1. \A v \in Workers : Holds(v, s)' => v = w
            BY <1>0, <2>4, <2>5, <2>6, <4>1 DEF OneHolder
          <5>2. QED
            BY <2>2, <2>8, <2>11, <4>1, <5>1
        <4>2. CASE s # r
          BY <1>0, <2>6, <3>3, <4>2 DEF AcceptedIsKnown
        <4>3. QED
          BY <4>1, <4>2
      <3>5. AcceptedOnce'
        <4> SUFFICES ASSUME NEW i \in 1 .. n + 1, NEW j \in 1 .. n + 1,
                            accepted'[i].run = accepted'[j].run,
                            accepted'[i].run \notin recovered
                     PROVE  i = j
          BY <2>4, <3>2 DEF AcceptedOnce
        <4>1. CASE i \in 1 .. n /\ j \in 1 .. n
          BY <1>0, <3>2, <4>1 DEF AcceptedOnce
        <4>2. CASE i = n + 1 /\ j \in 1 .. n
          BY <2>8, <3>1, <3>2, <4>2 DEF Accepted
        <4>3. CASE j = n + 1 /\ i \in 1 .. n
          BY <2>8, <3>1, <3>2, <4>3 DEF Accepted
        <4>4. QED
          BY <3>2, <4>1, <4>2, <4>3
      <3>6. QED
        BY <2>7, <2>9, <3>4, <3>5 DEF Known
    <2>12. QED
      BY <2>10, <2>11
  <1>6. ASSUME NEW w \in Workers, NEW d \in Devices, Deactivate(w, d)
        PROVE  Known'
    <2>1. worker[w] \in Task /\ worker[w].step = "finalize"
      BY <1>6, AtTask DEF Deactivate
    <2> DEFINE next == [worker[w] EXCEPT !.invalid = @ \ {d}]
    <2>2. /\ next.step = "finalize" /\ next.run = worker[w].run
          /\ next.sent = worker[w].sent /\ next \in Task
      BY <2>1 DEF Task
    <2> HIDE DEF next
    <2>3. worker' = [worker EXCEPT ![w] = next]
      BY <1>6 DEF Deactivate, Goto, next
    <2>4. Quiet(w)
      BY <1>6, <2>1, <2>2, <2>3 DEF Deactivate, Quiet, table, history
    <2>5. QED
      BY <2>4, QuietStep
  <1>7. ASSUME NEW w \in Workers, Finalize(w) PROVE Known'
    <2> DEFINE r == worker[w].run
    <2>0. worker[w] \in Task /\ worker[w].step = "finalize" /\ r \in Runs
      BY <1>7, AtTask DEF Finalize, Task
    <2>1. Holds(w, r)
      BY <2>0 DEF Holds
    <2>2. /\ worker'[w].step = "resting"
          /\ \A v \in Workers : v # w => worker'[v] = worker[v]
      BY <1>7, RestingStep DEF Finalize, Goto, TypeOK
    <2>3. /\ \A s \in Runs : s # r => record'[s] = record[s]
          /\ worker[w].sent => record'[r].status = "sent"
          /\ stale' = stale \ {r}
          /\ accepted' = accepted /\ recovered' = recovered
      <3>1. record[r] \in Record
        BY <2>0 DEF TypeOK
      <3>2. Sent(r).status = "sent"
        BY <3>1 DEF Sent, Record
      <3>3. \A s \in Runs : s # r => record'[s] = record[s]
        BY <1>7 DEF Finalize, TypeOK
      <3>4. worker[w].sent => record'[r].status = "sent"
        BY <1>7, <2>0, <3>2 DEF Finalize, TypeOK
      <3>5. QED
        BY <1>7, <3>3, <3>4 DEF Finalize, history
    <2>4. \A v \in Workers, s \in Runs :
            Holds(v, s)' => v # w /\ Holds(v, s) /\ worker'[v] = worker[v]
      BY <2>2 DEF Holds
    <2>5. \A s \in Runs \ recovered :
            s = r => \A v \in Workers : ~Holds(v, s)'
      BY <1>0, <2>0, <2>1, <2>4 DEF OneHolder
    <2>6. r \notin recovered /\ Accepted(r) => record'[r].status = "sent"
      BY <1>0, <2>0, <2>1, <2>3 DEF AcceptedIsKnown
    <2>7. OneHolder'
      BY <1>0, <2>3, <2>4, <2>5 DEF OneHolder
    <2>8. AcceptedIsKnown'
      BY <1>0, <2>3, <2>4, <2>5, <2>6 DEF AcceptedIsKnown, Accepted
    <2>9. StaleIsProcessing' /\ AcceptedOnce'
      BY <1>0, <2>3 DEF StaleIsProcessing, AcceptedOnce, TypeOK
    <2>10. QED
      BY <2>7, <2>8, <2>9 DEF Known
  <1>8. ASSUME NEW w \in Workers, Stop(w) PROVE Known'
    <2>1. Quiet(w)
      BY <1>8, RestingStep DEF Stop, Quiet, table
    <2>2. QED
      BY <2>1, QuietStep
  <1>9. ASSUME NEW d \in Devices, Register(d) \/ Unregister(d) PROVE Known'
    BY <1>0, <1>9 DEF Register, Unregister, table, history, Known, OneHolder,
       AcceptedIsKnown, StaleIsProcessing, AcceptedOnce, Holds, Accepted
  <1>10. ASSUME NEW r \in Runs, Age(r) PROVE Known'
    BY <1>0, <1>10 DEF Age, history, Known, OneHolder,
       AcceptedIsKnown, StaleIsProcessing, AcceptedOnce, Holds, Accepted
  <1>11. CASE UNCHANGED vars
    BY <1>0, <1>11 DEF vars, Known, OneHolder, AcceptedIsKnown,
       StaleIsProcessing, AcceptedOnce, Holds, Accepted
  <1>12. QED
    BY <1>1, <1>2, <1>3, <1>4, <1>5, <1>6, <1>7, <1>8, <1>9, <1>10, <1>11
    DEF Next, WorkerStep

\* The inductive invariant holds in every reachable state.
THEOREM Invariant == Spec => []IInv
  <1>1. Init => Typed /\ Known
    BY TypedInit, KnownInit
  <1>2. Typed /\ Known /\ [Next]_vars => Typed' /\ Known'
    BY TypedStep, KnownStep DEF Typed
  <1>3. Typed /\ Known => IInv
    BY DEF Typed, Known, IInv
  <1>4. QED
    BY <1>1, <1>2, <1>3, PTL DEF Spec

\* Without a recovery, the alert of a run is accepted once: the transactions
\* of claim_price_notification_record and finalize_price_notification_record
\* are enough for any number of workers on the same run.
THEOREM AlertsAcceptedOnce == Spec => []AcceptedOnce
  <1>1. IInv => AcceptedOnce
    BY DEF IInv
  <1>2. QED
    BY Invariant, <1>1, PTL

\* Without a recovery, no claim, stale check or late finalize takes a record
\* out of the status sent.
THEOREM SentIsKept == Spec => SentUnlessRecovered
  <1> DEFINE Kept == \A r \in Runs :
               record[r].status = "sent" /\ r \notin recovered
                 => record'[r].status = "sent"
  <1>1. IInv /\ [Next]_vars => [Kept]_vars
    <2> SUFFICES ASSUME IInv, Next, NEW r \in Runs,
                        record[r].status = "sent", r \notin recovered
                 PROVE  record'[r].status = "sent"
      BY DEF vars
    <2>0. TypeOK /\ OneHolder /\ StaleIsProcessing
      BY DEF IInv
    <2>1. ASSUME NEW w \in Workers, Recover(w) PROVE record'[r] = record[r]
      <3>1. r \notin stale
        BY <2>0 DEF StaleIsProcessing
      <3>2. QED
        BY <2>0, <2>1, <3>1 DEF Recover, TypeOK
    <2>2. ASSUME NEW w \in Workers, Claim(w) PROVE record'[r] = record[r]
      <3>1. ~Claimable(r)
        BY DEF Claimable
      <3>2. QED
        BY <2>0, <2>2, <3>1 DEF Claim, TypeOK
    <2>3. ASSUME NEW w \in Workers, Finalize(w) PROVE record'[r] = record[r]
      <3>1. worker[w].step = "finalize"
        BY <2>0, <2>3, AtTask DEF Finalize
      <3>2. worker[w].run # r
        BY <2>0, <3>1 DEF OneHolder, Holds
      <3>3. QED
        BY <2>0, <2>3, <3>2 DEF Finalize, TypeOK
    <2>4. ASSUME NEW w \in Workers,
                 \/ Import(w) \/ Administer(w) \/ ReadDevicesAndBest(w)
                 \/ ReadLast(w) \/ Push(w) \/ Stop(w)
                 \/ \E d \in Devices : Deactivate(w, d)
          PROVE  record' = record
      BY <2>4 DEF Import, Administer, Start, ReadDevicesAndBest, ReadLast, Read,
         Push, Stop, Deactivate, table
    <2>5. ASSUME \/ \E d \in Devices : Register(d) \/ Unregister(d)
                 \/ \E s \in Runs : Age(s)
          PROVE  record' = record
      BY <2>5 DEF Register, Unregister, Age, table
    <2>6. QED
      BY <2>1, <2>2, <2>3, <2>4, <2>5 DEF Next, WorkerStep
  <1>2. QED
    BY Invariant, <1>1, PTL DEF Spec, SentUnlessRecovered

-----------------------------------------------------------------------------
(***************************************************************************)
(* Pushes are counted.                                                     *)
(***************************************************************************)

\* The workers about to push the alert of a run.
Pushers(r) == {w \in Workers : worker[w].step = "push" /\ worker[w].run = r}

\* A recovery has counted the attempt of the claim to come.
Promised(r) == IF record[r].recovered THEN 1 ELSE 0

\* Pushes made, about to be made and permitted have been counted.
PushesCounted ==
  \A r \in Runs :
    /\ IsFiniteSet(Pushers(r))
    /\ pushes[r] + Cardinality(Pushers(r)) + Promised(r) <= record[r].attempts

LEMMA Numbers ==
  ASSUME TypeOK, NEW r \in Runs
  PROVE  /\ pushes[r] \in Nat /\ record[r] \in Record
         /\ record[r].attempts \in Nat /\ Promised(r) \in Nat
  <1>1. pushes[r] \in Nat /\ record[r] \in Record
    BY DEF TypeOK
  <1>2. record[r].attempts \in Nat
    BY <1>1, NotificationsAssumption DEF Record
  <1>3. Promised(r) \in Nat
    BY DEF Promised
  <1> QED
    BY <1>1, <1>2, <1>3

\* A step after which nobody new is about to push, and which counts what it
\* promises.
LEMMA NoNewPusher ==
  ASSUME TypeOK, TypeOK', PushesCounted, pushes' = pushes,
         \A r \in Runs :
           /\ Pushers(r)' \subseteq Pushers(r)
           /\ record[r].attempts + Promised(r)'
                <= record'[r].attempts + Promised(r)
  PROVE  PushesCounted'
  <1> SUFFICES ASSUME NEW r \in Runs
               PROVE  /\ IsFiniteSet(Pushers(r)')
                      /\ pushes'[r] + Cardinality(Pushers(r)') + Promised(r)'
                           <= record'[r].attempts
    BY DEF PushesCounted
  <1>1. /\ IsFiniteSet(Pushers(r))
        /\ pushes[r] + Cardinality(Pushers(r)) + Promised(r)
             <= record[r].attempts
    BY DEF PushesCounted
  <1>2. /\ IsFiniteSet(Pushers(r)')
        /\ Cardinality(Pushers(r)') <= Cardinality(Pushers(r))
    BY <1>1, FS_Subset
  <1>3. /\ pushes[r] \in Nat /\ record[r].attempts \in Nat /\ Promised(r) \in Nat
        /\ record'[r].attempts \in Nat /\ Promised(r)' \in Nat
    <2>1. pushes[r] \in Nat /\ record[r].attempts \in Nat /\ Promised(r) \in Nat
      BY Numbers
    <2>2. record'[r] \in Record
      BY DEF TypeOK
    <2>3. record'[r].attempts \in Nat
      BY <2>2, NotificationsAssumption DEF Record
    <2>4. Promised(r)' \in Nat
      BY DEF Promised
    <2> QED
      BY <2>1, <2>3, <2>4
  <1>4. Cardinality(Pushers(r)') \in Nat /\ Cardinality(Pushers(r)) \in Nat
    BY <1>1, <1>2, FS_CardinalityType
  <1>5. record[r].attempts + Promised(r)' <= record'[r].attempts + Promised(r)
    OBVIOUS
  <1> QED
    BY <1>1, <1>2, <1>3, <1>4, <1>5

\* The claim of a record leads to one more pusher of it, whose attempt is
\* counted now or was by the recovery.
LEMMA ClaimCounts ==
  ASSUME TypeOK, TypeOK', PushesCounted, NEW w \in Workers, Claim(w)
  PROVE  PushesCounted'
  <1>1. PICK r \in Runs :
          worker[w] \in Task /\ worker[w].step = "claim" /\ worker[w].run = r
    BY AtTask DEF Claim, Task
  <1>2. pushes' = pushes
    BY DEF Claim, history
  <1>3. CASE ~Claimable(r)
    <2>1. record' = record /\ worker' = [worker EXCEPT ![w] = Resting]
      BY <1>1, <1>3 DEF Claim, Goto
    <2>2. \A s \in Runs : Pushers(s)' \subseteq Pushers(s)
      BY <2>1, RestingStep DEF Pushers, TypeOK
    <2>3. \A s \in Runs : record[s].attempts + Promised(s)'
                            <= record'[s].attempts + Promised(s)
      BY <2>1, Numbers DEF Promised
    <2> QED
      BY <1>2, <2>2, <2>3, NoNewPusher
  <1>4. CASE Claimable(r)
    <2>1. /\ record' = [record EXCEPT ![r] =
               [status |-> "processing",
                attempts |-> IF record[r].recovered THEN record[r].attempts
                                               ELSE record[r].attempts + 1,
                temporary |-> FALSE, recovered |-> FALSE,
                price |-> worker[w].price, sentAt |-> record[r].sentAt]]
          /\ worker' = [worker EXCEPT ![w] = Step(w, "push")]
      BY <1>1, <1>4 DEF Claim, Goto
    <2>2. /\ ~record'[r].recovered
          /\ record'[r].attempts = IF record[r].recovered
               THEN record[r].attempts ELSE record[r].attempts + 1
          /\ \A s \in Runs : s # r => record'[s] = record[s]
      BY <1>1, <2>1 DEF TypeOK
    <2>3. /\ worker'[w].step = "push" /\ worker'[w].run = r
          /\ \A v \in Workers : v # w => worker'[v] = worker[v]
      BY <1>1, <2>1 DEF Step, TypeOK, Task
    <2>4. /\ Pushers(r)' = Pushers(r) \cup {w} /\ w \notin Pushers(r)
          /\ \A s \in Runs : s # r => Pushers(s)' = Pushers(s)
      BY <1>1, <2>3 DEF Pushers
    <2> SUFFICES ASSUME NEW s \in Runs
                 PROVE  /\ IsFiniteSet(Pushers(s)')
                        /\ pushes'[s] + Cardinality(Pushers(s)') + Promised(s)'
                             <= record'[s].attempts
      BY DEF PushesCounted
    <2>5. /\ IsFiniteSet(Pushers(s))
          /\ pushes[s] + Cardinality(Pushers(s)) + Promised(s)
               <= record[s].attempts
          /\ pushes[s] \in Nat /\ record[s].attempts \in Nat
          /\ Cardinality(Pushers(s)) \in Nat
      BY Numbers, FS_CardinalityType DEF PushesCounted
    <2>6. CASE s = r
      <3>1. /\ IsFiniteSet(Pushers(s) \cup {w})
            /\ Cardinality(Pushers(s) \cup {w}) = Cardinality(Pushers(s)) + 1
            /\ Pushers(s)' = Pushers(s) \cup {w}
        BY <2>4, <2>5, <2>6, FS_AddElement
      <3>2. Promised(s)' = 0
        BY <2>2, <2>6 DEF Promised
      <3>3. record[s].attempts + 1 = record'[s].attempts + Promised(s)
        BY <2>2, <2>5, <2>6 DEF Promised
      <3>4. Promised(s) \in Nat /\ record'[s].attempts \in Nat
        BY <2>2, <2>5, <2>6 DEF Promised
      <3> QED
        BY <1>2, <2>5, <3>1, <3>2, <3>3, <3>4
    <2>7. CASE s # r
      BY <1>2, <2>2, <2>4, <2>5, <2>7 DEF Promised
    <2> QED
      BY <2>6, <2>7
  <1> QED
    BY <1>3, <1>4

\* A pusher that has pushed is one no more.
LEMMA PushCounts ==
  ASSUME TypeOK, TypeOK', PushesCounted, NEW w \in Workers, Push(w)
  PROVE  PushesCounted'
  <1>1. PICK r \in Runs :
          worker[w] \in Task /\ worker[w].step = "push" /\ worker[w].run = r
    BY AtTask DEF Push, Task
  <1>2. record' = record /\ pushes' = [pushes EXCEPT ![r] = @ + 1]
    BY <1>1 DEF Push, table
  <1>3. PICK ok \in SUBSET worker[w].tokens,
             temporary \in SUBSET worker[w].tokens,
             invalid \in SUBSET worker[w].tokens :
          Outcome(w, ok, temporary, invalid)
    BY DEF Push
  <1>4. /\ worker'[w].step = "finalize"
        /\ \A v \in Workers : v # w => worker'[v] = worker[v]
    BY <1>1, <1>3 DEF Outcome, Goto, TypeOK, Task
  <1>5. /\ Pushers(r)' = Pushers(r) \ {w} /\ w \in Pushers(r)
        /\ \A s \in Runs : s # r => Pushers(s)' = Pushers(s)
    BY <1>1, <1>4 DEF Pushers
  <1> SUFFICES ASSUME NEW s \in Runs
               PROVE  /\ IsFiniteSet(Pushers(s)')
                      /\ pushes'[s] + Cardinality(Pushers(s)') + Promised(s)'
                           <= record'[s].attempts
    BY DEF PushesCounted
  <1>6. /\ IsFiniteSet(Pushers(s))
        /\ pushes[s] + Cardinality(Pushers(s)) + Promised(s)
             <= record[s].attempts
        /\ pushes[s] \in Nat /\ record[s].attempts \in Nat
        /\ Cardinality(Pushers(s)) \in Nat /\ Promised(s) \in Nat
    BY Numbers, FS_CardinalityType DEF PushesCounted
  <1>7. Promised(s)' = Promised(s)
    BY <1>2 DEF Promised
  <1>8. CASE s = r
    <2>1. /\ IsFiniteSet(Pushers(s) \ {w})
          /\ Cardinality(Pushers(s) \ {w}) = Cardinality(Pushers(s)) - 1
          /\ Pushers(s)' = Pushers(s) \ {w}
      BY <1>5, <1>6, <1>8, FS_RemoveElement
    <2>2. pushes'[s] = pushes[s] + 1
      BY <1>2, <1>8 DEF TypeOK
    <2> QED
      BY <1>2, <1>6, <1>7, <2>1, <2>2
  <1>9. CASE s # r
    <2>1. pushes'[s] = pushes[s]
      BY <1>2, <1>9 DEF TypeOK
    <2> QED
      BY <1>2, <1>5, <1>6, <1>7, <1>9, <2>1
  <1> QED
    BY <1>8, <1>9

\* A recovery counts the attempt it permits.
LEMMA RecoverCounts ==
  ASSUME IInv, TypeOK', PushesCounted, NEW w \in Workers, Recover(w)
  PROVE  PushesCounted'
  <1>0. TypeOK /\ RetriesCounted /\ StaleIsProcessing
    BY DEF IInv
  <1>1. PICK r \in Runs : worker[w] \in Task /\ worker[w].run = r
    BY <1>0, AtTask DEF Recover, Task
  <1>2. /\ worker'[w].step = "devices"
        /\ \A v \in Workers : v # w => worker'[v] = worker[v]
    BY <1>0, <1>1 DEF Recover, Goto, Step, TypeOK, Task
  <1>3. \A s \in Runs : Pushers(s)' \subseteq Pushers(s)
    BY <1>2 DEF Pushers
  <1>4. pushes' = pushes
    BY DEF Recover
  <1>5. \A s \in Runs : record[s].attempts + Promised(s)'
                          <= record'[s].attempts + Promised(s)
    <2>1. CASE r \notin stale
      <3>1. record' = record
        BY <1>1, <2>1 DEF Recover
      <3> QED
        BY <1>0, <3>1, Numbers DEF Promised
    <2>2. CASE r \in stale
      <3> DEFINE old == record[r]
                 new == Recovered(r)
                 retry == old.attempts < MaxAttempts
                 counted == IF retry THEN old.attempts + 1 ELSE old.attempts
      <3>1. record' = [record EXCEPT ![r] = new]
        BY <1>1, <2>2 DEF Recover
      <3>2. ~old.recovered /\ old \in Record /\ old.attempts \in Nat
        BY <1>0, <1>1, <2>2, Numbers DEF StaleIsProcessing, RetriesCounted
      <3>3. new = [old EXCEPT !.status = "failed", !.attempts = counted,
                              !.temporary = retry, !.recovered = retry]
        BY DEF Recovered
      <3> HIDE DEF old, new
      <3>4. new.attempts = counted /\ (new.recovered <=> retry)
        BY <3>2, <3>3 DEF Record
      <3>5. record'[r] = new /\ \A s \in Runs : s # r => record'[s] = record[s]
        BY <1>0, <1>1, <3>1 DEF TypeOK
      <3>6. old.attempts + Promised(r)' <= new.attempts + Promised(r)
        <4>1. Promised(r) = 0
          BY <3>2 DEF Promised, old
        <4>2. Promised(r)' = IF retry THEN 1 ELSE 0
          BY <3>4, <3>5 DEF Promised
        <4> QED
          BY <3>2, <3>4, <4>1, <4>2
      <3>7. \A s \in Runs : s # r => Promised(s)' = Promised(s)
        BY <3>5 DEF Promised
      <3>8. record[r].attempts + Promised(r)'
              <= record'[r].attempts + Promised(r)
        BY <3>5, <3>6 DEF old
      <3>9. \A s \in Runs : s # r =>
              record[s].attempts + Promised(s)'
                <= record'[s].attempts + Promised(s)
        BY <1>0, <3>5, <3>7, Numbers
      <3> QED
        BY <3>8, <3>9
    <2> QED
      BY <2>1, <2>2
  <1> QED
    BY <1>0, <1>3, <1>4, <1>5, NoNewPusher

\* The other steps make no pusher and leave the count.
LEMMA OthersCount ==
  ASSUME TypeOK, TypeOK', PushesCounted, pushes' = pushes,
         NEW w \in Workers, NEW next,
         \/ worker' = worker
         \/ worker' = [worker EXCEPT ![w] = next] /\ next.step # "push",
         \A r \in Runs : /\ record'[r].attempts = record[r].attempts
                         /\ record'[r].recovered => record[r].recovered
  PROVE  PushesCounted'
  <1>1. \A v \in Workers : worker'[v].step = "push" => worker'[v] = worker[v]
    BY DEF TypeOK
  <1>2. \A r \in Runs : Pushers(r)' \subseteq Pushers(r)
    BY <1>1 DEF Pushers
  <1>3. \A r \in Runs : record[r].attempts + Promised(r)'
                          <= record'[r].attempts + Promised(r)
    BY Numbers DEF Promised
  <1> QED
    BY <1>2, <1>3, NoNewPusher

\* Every step keeps the pushes counted.
LEMMA CountedStep == IInv /\ IInv' /\ PushesCounted /\ [Next]_vars => PushesCounted'
  <1> SUFFICES ASSUME IInv, TypeOK', PushesCounted, [Next]_vars
               PROVE  PushesCounted'
    BY DEF IInv
  <1>0. TypeOK
    BY DEF IInv
  <1>1. ASSUME NEW w \in Workers, Claim(w) PROVE PushesCounted'
    BY <1>0, <1>1, ClaimCounts
  <1>2. ASSUME NEW w \in Workers, Push(w) PROVE PushesCounted'
    BY <1>0, <1>2, PushCounts
  <1>3. ASSUME NEW w \in Workers, Recover(w) PROVE PushesCounted'
    BY <1>3, RecoverCounts
  <1>4. ASSUME NEW w \in Workers, Import(w) \/ Administer(w) PROVE PushesCounted'
    <2>1. PICK next : /\ worker' = [worker EXCEPT ![w] = next]
                      /\ next.step = "recover"
      <3>1. PICK r, locked : Start(w, r, locked)
        BY <1>4 DEF Import, Administer
      <3> DEFINE task == [step |-> "recover", run |-> r, locked |-> locked,
                          tokens |-> {}, price |-> NoOffer, invalid |-> {},
                          sent |-> FALSE, temporary |-> FALSE]
      <3>2. worker' = [worker EXCEPT ![w] = task] /\ task.step = "recover"
        BY <3>1 DEF Start
      <3> QED
        BY <3>2
    <2>2. record' = record /\ pushes' = pushes
      BY <1>4 DEF Import, Administer, Start, table
    <2> QED
      BY <1>0, <2>1, <2>2, OthersCount
  <1>5. ASSUME NEW w \in Workers, ReadDevicesAndBest(w) PROVE PushesCounted'
    <2>0. worker[w] \in Task
      BY <1>0, <1>5, AtTask DEF ReadDevicesAndBest
    <2>1. PICK best \in Prices \cup {NoOffer} :
            worker' = [worker EXCEPT ![w] =
               IF active # {} /\ best # NoOffer
                 THEN [worker[w] EXCEPT !.step = "last", !.tokens = active,
                                        !.price = best]
                 ELSE Resting]
      BY <1>5 DEF ReadDevicesAndBest, Read, Goto
    <2>2. [worker[w] EXCEPT !.step = "last", !.tokens = active,
                            !.price = best].step = "last"
      BY <2>0 DEF Task
    <2>3. PICK next : worker' = [worker EXCEPT ![w] = next] /\ next.step # "push"
      BY <2>1, <2>2, RestingStep
    <2>4. record' = record /\ pushes' = pushes
      BY <1>5 DEF ReadDevicesAndBest, Read, table, history
    <2> QED
      BY <1>0, <2>3, <2>4, OthersCount
  <1>6. ASSUME NEW w \in Workers, ReadLast(w) PROVE PushesCounted'
    <2>0. worker[w] \in Task
      BY <1>0, <1>6, AtTask DEF ReadLast
    <2>1. Step(w, "claim").step = "claim"
      BY <2>0 DEF Step, Task
    <2>2. PICK next : worker' = [worker EXCEPT ![w] = next] /\ next.step # "push"
      BY <1>6, <2>1, RestingStep DEF ReadLast, Read, Goto
    <2>3. record' = record /\ pushes' = pushes
      BY <1>6 DEF ReadLast, Read, table, history
    <2> QED
      BY <1>0, <2>2, <2>3, OthersCount
  <1>7. ASSUME NEW w \in Workers, Finalize(w) PROVE PushesCounted'
    <2>1. PICK r \in Runs : worker[w] \in Task /\ worker[w].run = r
      BY <1>0, <1>7, AtTask DEF Finalize, Task
    <2> DEFINE new == IF worker[w].sent THEN Sent(r)
                      ELSE Failed(r, worker[w].temporary)
    <2>2. record[r] \in Record
      BY <1>0 DEF TypeOK
    <2>3. new.attempts = record[r].attempts /\ new.recovered = FALSE
      BY <2>2 DEF Sent, Failed, Record
    <2>4. record' = [record EXCEPT ![r] = new]
      BY <1>7, <2>1 DEF Finalize
    <2> HIDE DEF new
    <2>5. \A s \in Runs : /\ record'[s].attempts = record[s].attempts
                          /\ record'[s].recovered => record[s].recovered
      BY <1>0, <2>3, <2>4 DEF TypeOK
    <2>6. /\ worker' = [worker EXCEPT ![w] = Resting] /\ pushes' = pushes
          /\ Resting.step # "push"
      BY <1>7, RestingStep DEF Finalize, Goto, history
    <2> QED
      BY <1>0, <2>5, <2>6, OthersCount
  <1>8. ASSUME NEW w \in Workers, NEW d \in Devices, Deactivate(w, d)
        PROVE  PushesCounted'
    <2>0. worker[w] \in Task /\ worker[w].step = "finalize"
      BY <1>0, <1>8, AtTask DEF Deactivate
    <2> DEFINE next == [worker[w] EXCEPT !.invalid = @ \ {d}]
    <2>1. next.step # "push"
      BY <2>0 DEF Task
    <2> HIDE DEF next
    <2>2. worker' = [worker EXCEPT ![w] = next]
      BY <1>8 DEF Deactivate, Goto, next
    <2>3. record' = record /\ pushes' = pushes
      BY <1>8 DEF Deactivate, table, history
    <2> QED
      BY <1>0, <2>1, <2>2, <2>3, OthersCount
  <1>9. ASSUME NEW w \in Workers, Stop(w) PROVE PushesCounted'
    <2>1. /\ worker' = [worker EXCEPT ![w] = Resting] /\ Resting.step # "push"
          /\ record' = record /\ pushes' = pushes
      BY <1>9, RestingStep DEF Stop, table
    <2> QED
      BY <1>0, <2>1, OthersCount
  <1>10. CASE \/ \E d \in Devices : Register(d) \/ Unregister(d)
              \/ \E r \in Runs : Age(r)
              \/ UNCHANGED vars
    <2>1. UNCHANGED <<worker, record, pushes>>
      BY <1>10 DEF Register, Unregister, Age, vars, table, history
    <2> QED
      BY <2>1 DEF PushesCounted, Pushers, Promised
  <1> QED
    BY <1>1, <1>2, <1>3, <1>4, <1>5, <1>6, <1>7, <1>8, <1>9, <1>10
    DEF Next, WorkerStep

\* PushesBounded: the record of a run counts every push of its alert, so that
\* with TypeOK no alert is pushed more than MaxAttempts times.
THEOREM PushesAreCounted == Spec => []PushesBounded
  <1>1. Init => PushesCounted
    <2> SUFFICES ASSUME Init, NEW r \in Runs
                 PROVE  /\ IsFiniteSet(Pushers(r))
                        /\ pushes[r] + Cardinality(Pushers(r)) + Promised(r)
                             <= record[r].attempts
      BY DEF PushesCounted
    <2>1. Pushers(r) = {}
      BY RestingStep DEF Init, Pushers
    <2>2. IsFiniteSet({}) /\ Cardinality({}) = 0
      BY FS_EmptySet
    <2>3. pushes[r] = 0 /\ Promised(r) = 0 /\ record[r].attempts = 0
      BY DEF Init, NoRecord, Promised
    <2> QED
      BY <2>1, <2>2, <2>3
  <1>2. IInv /\ PushesCounted => PushesBounded
    <2> SUFFICES ASSUME IInv, PushesCounted, NEW r \in Runs
                 PROVE  pushes[r] <= record[r].attempts
      BY DEF PushesBounded
    <2>1. /\ pushes[r] + Cardinality(Pushers(r)) + Promised(r)
               <= record[r].attempts
          /\ IsFiniteSet(Pushers(r))
      BY DEF PushesCounted
    <2>2. Cardinality(Pushers(r)) \in Nat
      BY <2>1, FS_CardinalityType
    <2>3. /\ pushes[r] \in Nat /\ Promised(r) \in Nat
          /\ record[r].attempts \in Nat
      BY Numbers DEF IInv
    <2> QED
      BY <2>1, <2>2, <2>3
  <1> QED
    BY <1>1, <1>2, CountedStep, Invariant, PTL DEF Spec

-----------------------------------------------------------------------------
(***************************************************************************)
(* Alerts improve while workers run one after the other.                   *)
(***************************************************************************)
Last == accepted[Len(accepted)]

\* One worker at a time, and no record is taken from it.
Alone ==
  /\ \A v, w \in Workers : Working(v) /\ Working(w) => v = w
  /\ recovered = {}
  /\ \A r \in Runs :
       record[r].status = "processing" => \E w \in Workers : Holds(w, r)

Finalizing(w) == worker[w].step = "finalize" /\ worker[w].sent

\* The last alert is recorded as the newest sent, or its worker is about to.
LastIsRecorded ==
  /\ \A r \in Runs : record[r].status = "sent" => record[r].sentAt <= clock
  /\ accepted # <<>> =>
       \/ \E w \in Workers : Finalizing(w)
       \/ /\ record[Last.run].status = "sent"
          /\ record[Last.run].sentAt = clock
          /\ record[Last.run].price = Last.price
  /\ \A w \in Workers :
       Finalizing(w) =>
         /\ accepted # <<>> /\ Last.run = worker[w].run
         /\ record[Last.run].price = Last.price

\* What a worker is about to push improves on the last alert.
NextImproves ==
  \A w \in Workers :
    /\ worker[w].step \in {"claim", "push"} /\ accepted # <<>>
         => worker[w].price + Threshold <= Last.price
    /\ worker[w].step = "push" => record[worker[w].run].price = worker[w].price

Sequential ==
  ~disturbed =>
    /\ Alone /\ LastIsRecorded /\ NextImproves
    /\ \A i \in DOMAIN accepted :
         i > 1 => accepted[i].price + Threshold <= accepted[i - 1].price

LEMMA LastFacts ==
  ASSUME TypeOK, accepted # <<>>
  PROVE  /\ Len(accepted) \in DOMAIN accepted
         /\ Last.run \in Runs /\ Last.price \in Prices /\ Last.price \in Nat
  <1> DEFINE Alerts == [run: Runs, price: Prices]
             n == Len(accepted)
  <1>1. accepted \in Seq(Alerts)
    BY DEF TypeOK
  <1> HIDE DEF Alerts
  <1>2. n \in Nat /\ n > 0 /\ DOMAIN accepted = 1 .. n
    BY <1>1
  <1>3. n \in DOMAIN accepted /\ accepted \in [1 .. n -> Alerts]
    BY <1>1, <1>2
  <1> HIDE DEF n
  <1>4. accepted[n] \in Alerts
    BY <1>2, <1>3
  <1>5. Last \in Alerts
    BY <1>4 DEF Last, n
  <1>6. Last.run \in Runs /\ Last.price \in Prices
    BY <1>5 DEF Alerts
  <1> QED
    BY <1>3, <1>6, NotificationsAssumption DEF n

\* A worker at work has a task.
LEMMA WorkingStep ==
  ASSUME TypeOK, NEW w \in Workers
  PROVE  /\ Working(w) => worker[w] \in Task
         /\ worker[w].step # "resting" => Working(w)
  BY RestingStep DEF TypeOK, Working

\* A step that leaves the records, the clock and the alerts alone and takes
\* its worker to no push.
LEMMA CalmStep ==
  ASSUME TypeOK, TypeOK', Sequential, ~disturbed, NEW w \in Workers,
         NEW next \in Task \cup {Resting},
         worker' = [worker EXCEPT ![w] = next],
         UNCHANGED <<record, clock, accepted, recovered>>,
         \A v \in Workers : Working(v) => v = w,
         \/ /\ next.step \notin {"push", "finalize"}
            /\ worker[w].step \notin {"push", "finalize"}
         \/ /\ next.step = "finalize" /\ worker[w].step = "finalize"
            /\ next.run = worker[w].run /\ next.sent = worker[w].sent,
         next.step = "claim" /\ accepted # <<>> =>
           next.price + Threshold <= Last.price
  PROVE  Sequential'
  <1>0. /\ Alone /\ LastIsRecorded /\ NextImproves
        /\ \A i \in DOMAIN accepted :
             i > 1 => accepted[i].price + Threshold <= accepted[i - 1].price
    BY DEF Sequential
  <1>1. /\ worker'[w] = next
        /\ \A v \in Workers : v # w => worker'[v] = worker[v]
    BY DEF TypeOK
  <1>2. \A v \in Workers : v # w => /\ worker[v].step = "resting"
                                    /\ worker'[v].step = "resting"
    BY <1>1, RestingStep DEF Working
  <1>3. \A v \in Workers, r \in Runs : Holds(v, r)' <=> Holds(v, r)
    BY <1>1, <1>2 DEF Holds
  <1>4. \A v \in Workers : Finalizing(v)' <=> Finalizing(v)
    BY <1>1, <1>2 DEF Finalizing
  <1>5. Last' = Last
    BY DEF Last
  <1>6. Alone'
    <2>1. \A v \in Workers : Working(v)' => v = w
      BY <1>1 DEF Working
    <2> QED
      BY <1>0, <1>3, <2>1 DEF Alone
  <1>7. LastIsRecorded'
    <2>1. \A v \in Workers : Finalizing(v) => worker'[v].run = worker[v].run
      BY <1>1, <1>2 DEF Finalizing
    <2> QED
      BY <1>0, <1>4, <1>5, <2>1 DEF LastIsRecorded
  <1>8. NextImproves'
    BY <1>1, <1>2, <1>5 DEF NextImproves
  <1> QED
    BY <1>0, <1>6, <1>7, <1>8 DEF Sequential

\* An alert is recorded by its worker after the push, if it was accepted.
LEMMA PushImproves ==
  ASSUME IInv, TypeOK', Sequential, ~disturbed, NEW w \in Workers, Push(w)
  PROVE  Sequential'
  <1>0. /\ TypeOK /\ Alone /\ LastIsRecorded /\ NextImproves
        /\ \A i \in DOMAIN accepted :
             i > 1 => accepted[i].price + Threshold <= accepted[i - 1].price
    BY DEF Sequential, IInv
  <1>1. PICK r \in Runs :
          worker[w] \in Task /\ worker[w].step = "push" /\ worker[w].run = r
    BY <1>0, AtTask DEF Push, Task
  <1>2. PICK ok \in SUBSET worker[w].tokens,
             temporary \in SUBSET worker[w].tokens,
             invalid \in SUBSET worker[w].tokens :
          Outcome(w, ok, temporary, invalid)
    BY DEF Push
  <1>3. /\ worker'[w].step = "finalize" /\ worker'[w].run = r
        /\ worker'[w].sent <=> ok # {}
        /\ \A v \in Workers : v # w => worker'[v] = worker[v]
    BY <1>0, <1>1, <1>2 DEF Outcome, Goto, TypeOK, Task
  <1>4. record' = record /\ clock' = clock /\ recovered' = recovered
    BY DEF Push, table
  <1>5. \A v \in Workers : Working(v) => v = w
    BY <1>0, <1>1, WorkingStep DEF Alone
  <1>6. \A v \in Workers : v # w => /\ worker[v].step = "resting"
                                    /\ worker'[v].step = "resting"
                                    /\ ~Working(v)'
    BY <1>3, <1>5, RestingStep DEF Working
  <1>7. record[r].price = worker[w].price
    BY <1>0, <1>1 DEF NextImproves
  <1>8. Alone'
    <2>1. \A v \in Workers, s \in Runs : Holds(v, s) => Holds(v, s)'
      BY <1>1, <1>3, <1>6 DEF Holds
    <2> QED
      BY <1>0, <1>4, <1>6, <2>1 DEF Alone
  <1>9. CASE ok = {}
    <2>1. accepted' = accepted /\ Last' = Last
      BY <1>2, <1>9 DEF Outcome, Last
    <2>2. \A v \in Workers : ~Finalizing(v)
      BY <1>1, <1>6 DEF Finalizing
    <2>3. \A v \in Workers : ~Finalizing(v)'
      BY <1>3, <1>6, <1>9 DEF Finalizing
    <2>4. LastIsRecorded'
      BY <1>0, <1>4, <2>1, <2>2, <2>3 DEF LastIsRecorded
    <2>5. NextImproves'
      BY <1>3, <1>6 DEF NextImproves
    <2> QED
      BY <1>0, <1>8, <2>1, <2>4, <2>5 DEF Sequential
  <1>10. CASE ok # {}
    <2> DEFINE alert == [run |-> r, price |-> worker[w].price]
               n == Len(accepted)
    <2>1. accepted' = Append(accepted, alert)
      BY <1>1, <1>2, <1>10 DEF Outcome
    <2>2. alert.run = r /\ alert.price = worker[w].price
      OBVIOUS
    <2> HIDE DEF alert
    <2>3. /\ n \in Nat /\ DOMAIN accepted = 1 .. n
          /\ DOMAIN accepted' = 1 .. n + 1 /\ Len(accepted') = n + 1
          /\ \A i \in 1 .. n : accepted'[i] = accepted[i]
          /\ accepted'[n + 1] = alert
          /\ accepted # <<>> <=> n > 0
      BY <1>0, <2>1 DEF TypeOK
    <2>4. Last' = alert /\ (n > 0 => Last = accepted[n])
      BY <2>3 DEF Last
    <2>5. accepted' # <<>>
      BY <2>3
    <2> HIDE DEF n
    <2>6. \A v \in Workers : Finalizing(v)' <=> v = w
      BY <1>3, <1>6, <1>10 DEF Finalizing
    <2>7. LastIsRecorded'
      BY <1>0, <1>3, <1>4, <1>7, <2>2, <2>4, <2>5, <2>6 DEF LastIsRecorded
    <2>8. NextImproves'
      BY <1>3, <1>6 DEF NextImproves
    <2>9. n > 0 => alert.price + Threshold <= accepted[n].price
      BY <1>0, <1>1, <2>2, <2>3, <2>4 DEF NextImproves
    <2>10. ASSUME NEW i \in DOMAIN accepted', i > 1
           PROVE  accepted'[i].price + Threshold <= accepted'[i - 1].price
      <3>1. CASE i \in 1 .. n
        BY <1>0, <2>3, <2>10, <3>1
      <3>2. CASE i = n + 1
        BY <2>3, <2>9, <2>10, <3>2
      <3> QED
        BY <2>3, <2>10, <3>1, <3>2
    <2> QED
      BY <1>8, <2>7, <2>8, <2>10 DEF Sequential
  <1> QED
    BY <1>9, <1>10

\* A claim takes a record that is not sent, for the price just compared.
LEMMA ClaimImproves ==
  ASSUME IInv, TypeOK', Sequential, ~disturbed, NEW w \in Workers, Claim(w)
  PROVE  Sequential'
  <1>0. /\ TypeOK /\ Alone /\ LastIsRecorded /\ NextImproves
        /\ \A i \in DOMAIN accepted :
             i > 1 => accepted[i].price + Threshold <= accepted[i - 1].price
    BY DEF Sequential, IInv
  <1>1. PICK r \in Runs :
          worker[w] \in Task /\ worker[w].step = "claim" /\ worker[w].run = r
    BY <1>0, AtTask DEF Claim, Task
  <1>2. \A v \in Workers : Working(v) => v = w
    BY <1>0, <1>1, WorkingStep DEF Alone
  <1>3. accepted' = accepted /\ recovered' = recovered /\ clock' = clock
    BY DEF Claim, history
  <1>4. CASE ~Claimable(r)
    <2>1. record' = record /\ worker' = [worker EXCEPT ![w] = Resting]
      BY <1>1, <1>4 DEF Claim, Goto
    <2> QED
      BY <1>0, <1>1, <1>2, <1>3, <2>1, RestingStep, CalmStep
  <1>5. CASE Claimable(r)
    <2>1. /\ worker'[w].step = "push" /\ worker'[w].run = r
          /\ worker'[w].price = worker[w].price
          /\ \A v \in Workers : v # w => worker'[v] = worker[v]
      BY <1>0, <1>1, <1>5 DEF Claim, Goto, Step, TypeOK, Task
    <2>2. /\ record'[r].status = "processing"
          /\ record'[r].price = worker[w].price
          /\ \A s \in Runs : s # r => record'[s] = record[s]
      BY <1>0, <1>1, <1>5 DEF Claim, TypeOK
    <2>3. record[r].status # "sent"
      BY <1>5 DEF Claimable
    <2>4. \A v \in Workers : v # w => /\ worker[v].step = "resting"
                                      /\ worker'[v].step = "resting"
                                      /\ ~Working(v)'
      BY <1>2, <2>1, RestingStep DEF Working
    <2>5. \A v \in Workers : ~Finalizing(v) /\ ~Finalizing(v)'
      BY <1>1, <2>1, <2>4 DEF Finalizing
    <2>6. Last' = Last
      BY <1>3 DEF Last
    <2>7. Alone'
      <3>1. \A s \in Runs : s # r => record[s].status # "processing"
        BY <1>0, <1>1, <2>4 DEF Alone, Holds
      <3>2. Holds(w, r)'
        BY <2>1 DEF Holds
      <3> QED
        BY <1>0, <1>3, <2>2, <2>4, <3>1, <3>2 DEF Alone
    <2>8. LastIsRecorded'
      <3>1. accepted # <<>> =>
              /\ Last.run # r /\ Last.run \in Runs
              /\ record[Last.run].status = "sent"
              /\ record[Last.run].sentAt = clock
              /\ record[Last.run].price = Last.price
        BY <1>0, <2>3, <2>5, LastFacts DEF LastIsRecorded
      <3>2. \A s \in Runs : record'[s].status = "sent" =>
                              record'[s].sentAt <= clock
        BY <1>0, <2>2 DEF LastIsRecorded
      <3> QED
        BY <1>3, <2>2, <2>5, <2>6, <3>1, <3>2 DEF LastIsRecorded
    <2>9. NextImproves'
      BY <1>0, <1>1, <1>3, <2>1, <2>2, <2>4, <2>6 DEF NextImproves
    <2> QED
      BY <1>0, <1>3, <2>7, <2>8, <2>9 DEF Sequential
  <1> QED
    BY <1>4, <1>5

\* The outcome of a push is recorded on the record that was claimed, which
\* is not the one of the last alert unless that was this worker's.
LEMMA FinalizeImproves ==
  ASSUME IInv, TypeOK', Sequential, ~disturbed, NEW w \in Workers, Finalize(w)
  PROVE  Sequential'
  <1>0. /\ TypeOK /\ OneHolder /\ Alone /\ LastIsRecorded /\ NextImproves
        /\ \A i \in DOMAIN accepted :
             i > 1 => accepted[i].price + Threshold <= accepted[i - 1].price
    BY DEF Sequential, IInv
  <1>1. PICK r \in Runs :
          worker[w] \in Task /\ worker[w].step = "finalize" /\ worker[w].run = r
    BY <1>0, AtTask DEF Finalize, Task
  <1>2. \A v \in Workers : Working(v) => v = w
    BY <1>0, <1>1, WorkingStep DEF Alone
  <1>3. accepted' = accepted /\ recovered' = recovered
    BY DEF Finalize, history
  <1>4. worker'[w] = Resting /\ \A v \in Workers : v # w => worker'[v] = worker[v]
    BY <1>0 DEF Finalize, Goto, TypeOK
  <1>5. \A v \in Workers : ~Working(v)' /\ worker'[v].step = "resting"
    BY <1>2, <1>4, RestingStep DEF Working
  <1>6. record[r].status = "processing"
    BY <1>0, <1>1 DEF OneHolder, Alone, Holds
  <1>7. /\ \A s \in Runs : s # r => record'[s] = record[s]
        /\ record'[r].status \in {"sent", "failed"}
        /\ worker[w].sent =>
             /\ clock' = clock + 1 /\ record'[r].status = "sent"
             /\ record'[r].sentAt = clock + 1
             /\ record'[r].price = record[r].price
        /\ ~worker[w].sent => clock' = clock /\ record'[r].status = "failed"
    <2> DEFINE new == IF worker[w].sent THEN Sent(r)
                      ELSE Failed(r, worker[w].temporary)
    <2>1. record[r] \in Record
      BY <1>0 DEF TypeOK
    <2>2. /\ Sent(r).status = "sent" /\ Sent(r).sentAt = clock + 1
          /\ Sent(r).price = record[r].price
          /\ Failed(r, worker[w].temporary).status = "failed"
      BY <2>1 DEF Sent, Failed, Record
    <2>3. record' = [record EXCEPT ![r] = new]
      BY <1>1 DEF Finalize
    <2>4. record'[r] = new /\ \A s \in Runs : s # r => record'[s] = record[s]
      BY <1>0, <2>3 DEF TypeOK
    <2>5. clock' = IF worker[w].sent THEN clock + 1 ELSE clock
      BY DEF Finalize
    <2> QED
      BY <2>2, <2>4, <2>5
  <1>8. \A s \in Runs : s # r => record[s].status # "processing"
    BY <1>0, <1>1, <1>2, WorkingStep DEF Alone, Holds
  <1>9. Alone'
    BY <1>0, <1>3, <1>5, <1>7, <1>8 DEF Alone
  <1>10. Last' = Last /\ \A v \in Workers : ~Finalizing(v)'
    BY <1>3, <1>5 DEF Last, Finalizing
  <1>11. clock \in Nat /\ \A s \in Runs : record[s].sentAt \in Nat
    BY <1>0 DEF TypeOK, Record
  <1>12. \A s \in Runs : record'[s].status = "sent" =>
                           record'[s].sentAt <= clock'
    BY <1>0, <1>7, <1>11 DEF LastIsRecorded
  <1>13. accepted # <<>> =>
           /\ record'[Last.run].status = "sent"
           /\ record'[Last.run].sentAt = clock'
           /\ record'[Last.run].price = Last.price
    <2> SUFFICES ASSUME accepted # <<>>
                 PROVE  /\ record'[Last.run].status = "sent"
                        /\ record'[Last.run].sentAt = clock'
                        /\ record'[Last.run].price = Last.price
      OBVIOUS
    <2>1. Last.run \in Runs
      BY <1>0, LastFacts
    <2>2. CASE worker[w].sent
      <3>1. Last.run = r /\ record[r].price = Last.price
        BY <1>0, <1>1, <2>2 DEF LastIsRecorded, Finalizing
      <3> QED
        BY <1>7, <2>2, <3>1
    <2>3. CASE ~worker[w].sent
      <3>1. \A v \in Workers : ~Finalizing(v)
        BY <1>0, <1>1, <1>2, <2>3, WorkingStep DEF Finalizing
      <3>2. /\ record[Last.run].status = "sent"
            /\ record[Last.run].sentAt = clock
            /\ record[Last.run].price = Last.price
        BY <1>0, <3>1 DEF LastIsRecorded
      <3>3. Last.run # r
        BY <1>6, <3>2
      <3> QED
        BY <1>7, <2>1, <2>3, <3>2, <3>3
    <2> QED
      BY <2>2, <2>3
  <1>14. LastIsRecorded'
    BY <1>3, <1>10, <1>12, <1>13 DEF LastIsRecorded
  <1>15. NextImproves'
    BY <1>5 DEF NextImproves
  <1> QED
    BY <1>0, <1>3, <1>9, <1>14, <1>15 DEF Sequential

\* The price of the last sent record is the last alert's, so the reading of
\* find_last_sent_price_notification compares with it.
LEMMA ReadImproves ==
  ASSUME IInv, TypeOK', Sequential, ~disturbed, NEW w \in Workers, ReadLast(w)
  PROVE  Sequential'
  <1>0. TypeOK /\ Alone /\ LastIsRecorded
    BY DEF Sequential, IInv
  <1>1. worker[w] \in Task /\ worker[w].step = "last"
    BY <1>0, AtTask DEF ReadLast
  <1>2. \A v \in Workers : Working(v) => v = w
    BY <1>0, <1>1, WorkingStep DEF Alone
  <1>3. UNCHANGED <<record, clock, accepted, recovered>>
    BY DEF ReadLast, Read, table, history
  <1>4. CASE ~Improves(worker[w].price)
    <2>1. worker' = [worker EXCEPT ![w] = Resting]
      BY <1>4 DEF ReadLast, Read, Goto
    <2> QED
      BY <1>0, <1>1, <1>2, <1>3, <2>1, RestingStep, CalmStep
  <1>5. CASE Improves(worker[w].price)
    <2> DEFINE next == Step(w, "claim")
    <2>1. worker' = [worker EXCEPT ![w] = next]
      BY <1>5 DEF ReadLast, Read, Goto
    <2>2. /\ next \in Task /\ next.step = "claim"
          /\ next.price = worker[w].price
      BY <1>1, StepTask DEF Step, Task
    <2> HIDE DEF next
    <2>3. accepted # <<>> => worker[w].price + Threshold <= Last.price
      <3> SUFFICES ASSUME accepted # <<>>
                   PROVE  worker[w].price + Threshold <= Last.price
        OBVIOUS
      <3>1. \A v \in Workers : ~Finalizing(v)
        BY <1>0, <1>1, <1>2, WorkingStep DEF Finalizing
      <3>2. /\ Last.run \in Runs /\ record[Last.run].status = "sent"
            /\ record[Last.run].sentAt = clock
            /\ record[Last.run].price = Last.price
        BY <1>0, <3>1, LastFacts DEF LastIsRecorded
      <3>3. Last.run \in LastSent
        BY <1>0, <3>2 DEF LastSent, LastIsRecorded
      <3> QED
        BY <1>5, <3>2, <3>3 DEF Improves
    <2> QED
      BY <1>0, <1>1, <1>2, <1>3, <2>1, <2>2, <2>3, CalmStep
  <1> QED
    BY <1>4, <1>5

\* Every step keeps the workers one after the other or disturbs them.
LEMMA SequentialStep == IInv /\ IInv' /\ Sequential /\ [Next]_vars => Sequential'
  <1> SUFFICES ASSUME IInv, TypeOK', Sequential, [Next]_vars, ~disturbed'
               PROVE  Sequential'
    BY DEF IInv, Sequential
  <1>0. TypeOK /\ OneHolder /\ StaleIsProcessing
    BY DEF IInv
  <1>1. ASSUME NEW w \in Workers, Import(w) \/ Administer(w) PROVE Sequential'
    <2>1. PICK r, locked : Start(w, r, locked)
      BY <1>1 DEF Import, Administer
    <2> DEFINE task == [step |-> "recover", run |-> r, locked |-> locked,
                        tokens |-> {}, price |-> NoOffer, invalid |-> {},
                        sent |-> FALSE, temporary |-> FALSE]
    <2>2. worker' = [worker EXCEPT ![w] = task] /\ task.step = "recover"
      BY <2>1 DEF Start
    <2> HIDE DEF task
    <2>3. ~disturbed /\ \A v \in Workers : ~Working(v)
      BY <2>1 DEF Start
    <2>4. UNCHANGED <<record, clock, accepted, recovered>>
      BY <2>1 DEF Start, table
    <2>5. task \in Task \cup {Resting} /\ worker[w].step = "resting"
      BY <1>0, <2>2, <2>3, RestingStep DEF TypeOK, Working
    <2> QED
      BY <1>0, <2>2, <2>3, <2>4, <2>5, CalmStep
  <1>2. ASSUME NEW w \in Workers, Recover(w) PROVE Sequential'
    <2>1. ~disturbed /\ Alone
      BY <1>2 DEF Recover, Sequential
    <2>2. worker[w] \in Task /\ worker[w].step = "recover"
      BY <1>0, <1>2, AtTask DEF Recover
    <2>3. \A v \in Workers : Working(v) => v = w
      BY <1>0, <2>1, <2>2, WorkingStep DEF Alone
    <2>4. worker[w].run \notin stale
      <3>1. \A v \in Workers, r \in Runs : ~Holds(v, r)
        BY <1>0, <2>2, <2>3, WorkingStep DEF Holds
      <3>2. stale \subseteq Runs
        BY <1>0 DEF TypeOK
      <3> QED
        BY <1>0, <2>1, <3>1, <3>2 DEF Alone, StaleIsProcessing
    <2>5. UNCHANGED <<record, clock, accepted, recovered>>
      BY <1>2, <2>4 DEF Recover
    <2> DEFINE next == Step(w, "devices")
    <2>6. worker' = [worker EXCEPT ![w] = next]
      BY <1>2 DEF Recover, Goto
    <2>7. next \in Task /\ next.step = "devices"
      BY <2>2, StepTask DEF Step, Task
    <2> HIDE DEF next
    <2> QED
      BY <1>0, <2>1, <2>2, <2>3, <2>5, <2>6, <2>7, CalmStep
  <1>3. ASSUME NEW w \in Workers, ReadDevicesAndBest(w) PROVE Sequential'
    <2>1. ~disturbed /\ Alone
      BY <1>3 DEF ReadDevicesAndBest, Read, history, Sequential
    <2>2. worker[w] \in Task /\ worker[w].step = "devices"
      BY <1>0, <1>3, AtTask DEF ReadDevicesAndBest
    <2>3. \A v \in Workers : Working(v) => v = w
      BY <1>0, <2>1, <2>2, WorkingStep DEF Alone
    <2>4. PICK best \in Prices \cup {NoOffer} :
            worker' = [worker EXCEPT ![w] =
               IF active # {} /\ best # NoOffer
                 THEN [worker[w] EXCEPT !.step = "last", !.tokens = active,
                                        !.price = best]
                 ELSE Resting]
      BY <1>3 DEF ReadDevicesAndBest, Read, Goto
    <2> DEFINE found == [worker[w] EXCEPT !.step = "last", !.tokens = active,
                                          !.price = best]
    <2>5. found.step = "last" /\ found \in Task
      BY <1>0, <2>2 DEF TypeOK, Task
    <2> HIDE DEF found
    <2>6. PICK next \in Task \cup {Resting} :
            /\ worker' = [worker EXCEPT ![w] = next]
            /\ next.step \in {"last", "resting"}
      BY <2>4, <2>5, RestingStep DEF found
    <2>7. UNCHANGED <<record, clock, accepted, recovered>>
      BY <1>3 DEF ReadDevicesAndBest, Read, table, history
    <2> QED
      BY <1>0, <2>1, <2>2, <2>3, <2>6, <2>7, CalmStep
  <1>4. ASSUME NEW w \in Workers, ReadLast(w) PROVE Sequential'
    BY <1>4, ReadImproves DEF ReadLast, Read, history
  <1>5. ASSUME NEW w \in Workers, Claim(w) PROVE Sequential'
    BY <1>5, ClaimImproves DEF Claim, history
  <1>6. ASSUME NEW w \in Workers, Push(w) PROVE Sequential'
    BY <1>6, PushImproves DEF Push
  <1>7. ASSUME NEW w \in Workers, Finalize(w) PROVE Sequential'
    BY <1>7, FinalizeImproves DEF Finalize, history
  <1>8. ASSUME NEW w \in Workers, NEW d \in Devices, Deactivate(w, d)
        PROVE  Sequential'
    <2>1. ~disturbed /\ Alone
      BY <1>8 DEF Deactivate, history, Sequential
    <2>2. worker[w] \in Task /\ worker[w].step = "finalize"
      BY <1>0, <1>8, AtTask DEF Deactivate
    <2>3. \A v \in Workers : Working(v) => v = w
      BY <1>0, <2>1, <2>2, WorkingStep DEF Alone
    <2> DEFINE next == [worker[w] EXCEPT !.invalid = @ \ {d}]
    <2>4. /\ next \in Task /\ next.step = "finalize"
          /\ next.run = worker[w].run /\ next.sent = worker[w].sent
      BY <2>2 DEF Task
    <2>5. worker' = [worker EXCEPT ![w] = next]
      BY <1>8 DEF Deactivate, Goto
    <2> HIDE DEF next
    <2>6. UNCHANGED <<record, clock, accepted, recovered>>
      BY <1>8 DEF Deactivate, table, history
    <2> QED
      BY <1>0, <2>1, <2>2, <2>3, <2>4, <2>5, <2>6, CalmStep
  <1>9. ASSUME NEW w \in Workers, Stop(w) PROVE Sequential'
    BY <1>9 DEF Stop
  <1>10. CASE \/ \E d \in Devices : Register(d) \/ Unregister(d)
              \/ \E r \in Runs : Age(r)
              \/ UNCHANGED vars
    <2>1. UNCHANGED <<worker, record, clock, accepted, recovered, disturbed>>
      BY <1>10 DEF Register, Unregister, Age, vars, table, history
    <2> QED
      BY <2>1 DEF Sequential, Alone, LastIsRecorded, NextImproves, Last,
                  Finalizing, Holds, Working
  <1> QED
    BY <1>1, <1>2, <1>3, <1>4, <1>5, <1>6, <1>7, <1>8, <1>9, <1>10
    DEF Next, WorkerStep

\* AlertsImprove: while workers run one after the other, each alert improves
\* on the one before by PRICE_NOTIFICATION_MIN_IMPROVEMENT_EUR.
THEOREM AlertsGetBetter == Spec => []AlertsImprove
  <1>1. Init => Sequential
    <2> SUFFICES ASSUME Init PROVE Alone /\ LastIsRecorded /\ NextImproves
      <3>1. Init => DOMAIN accepted = {}
        BY DEF Init
      <3> QED
        BY <3>1 DEF Sequential
    <2>1. \A w \in Workers : ~Working(w) /\ worker[w].step = "resting"
      BY RestingStep DEF Init, Working
    <2>2. \A r \in Runs : record[r].status = "none"
      BY DEF Init, NoRecord
    <2> QED
      BY <2>1, <2>2 DEF Init, Alone, LastIsRecorded, NextImproves, Finalizing
  <1>2. Sequential => AlertsImprove
    BY DEF Sequential, AlertsImprove
  <1> QED
    BY <1>1, <1>2, SequentialStep, Invariant, PTL DEF Spec
=============================================================================
