------------------------- MODULE MimitImportProofs -------------------------
(* Proofs about MimitImport, for every set of servers, every file MIMIT may *)
(* publish and every bound on the runs: a run gets one result, the          *)
(* selection of the prices does not depend on the order of a file, and      *)
(* readers see the prices of one whole file.                                *)
EXTENDS MimitImport, WellFoundedInduction, TLAPS

\* A server in one of these phases has not reported its result yet.
Reporting == {"download", "stations", "clear", "insert", "commit",
              "finish", "fail"}

\* The session that is alive holds the advisory lock, so it is the only one;
\* its run is the latest one and is recorded as running until it reports;
\* runs are recorded in the order of their ids.
LockedInv ==
  \A s \in Servers :
    connected[s] => lock = s /\ phase[s] # "idle" /\ run[s] = last
RecordedInv == \A s \in Servers : phase[s] # "idle" => run[s] \in 1..last
RunningInv ==
  \A s \in Servers :
    connected[s] /\ phase[s] \in Reporting => status[run[s]] = "running"
LatestInv == \A r \in Runs : status[r] = "none" <=> r > last

IInv == TypeOK /\ LockedInv /\ RecordedInv /\ RunningInv /\ LatestInv

\* The averages: every step but the two of a refresh, and a crash, leaves
\* them alone.
LEMMA AveragesNext ==
  ASSUME AveragesTypeOK, phase \in [Servers -> Phases], [Next]_vars
  PROVE  AveragesTypeOK' /\ (LatestAverages => LatestAverages')
<1> USE DEF AveragesTypeOK
<1>1. ASSUME NEW s \in Servers, StartRefresh(s)
      PROVE  AveragesTypeOK' /\ UNCHANGED <<averages, answers>>
  <2>1. /\ clock' = clock + 1 /\ fetch' = [fetch EXCEPT ![s] = clock + 1]
        /\ UNCHANGED <<averages, answers>>
    BY <1>1 DEF StartRefresh
  <2>2. clock' \in Nat /\ clock' \in 0..clock' /\ 0..clock \subseteq 0..clock'
    BY <2>1
  <2>3. fetch' \in [Servers -> 0..clock']
    BY <2>1, <2>2
  <2>4. answers' \subseteq [date : Dates, started : 0..clock']
    BY <2>1, <2>2
  <2> QED
    BY <2>1, <2>2, <2>3, <2>4
<1>2. ASSUME NEW s \in Servers, SaveSnapshot(s)
      PROVE  AveragesTypeOK' /\ (LatestAverages => LatestAverages')
  <2>1. fetch' = [fetch EXCEPT ![s] = 0] /\ clock' = clock
    BY <1>2 DEF SaveSnapshot
  <2>2. fetch' \in [Servers -> 0..clock']
    BY <2>1
  <2>3. CASE UNCHANGED <<averages, answers>>
    BY <2>1, <2>2, <2>3 DEF LatestAverages
  <2>4. ASSUME NEW date \in Dates, NEW answer,
               answer = [date |-> date, started |-> fetch[s]],
               answers' = answers \cup {answer},
               averages' = IF Supersedes(answer, averages) THEN answer ELSE averages
        PROVE  AveragesTypeOK' /\ (LatestAverages => LatestAverages')
    <3>1. answer.date \in Dates /\ answer.started \in 0..clock
      BY <2>4
    <3>2. answer \in [date : Dates, started : 0..clock]
      BY <2>4
    <3>3. AveragesTypeOK'
      BY <2>1, <2>2, <2>4, <3>2
    <3>4. /\ averages.date \in Nat /\ averages.started \in Nat
          /\ \A a \in answers \cup {answer} : a.date \in Nat /\ a.started \in Nat
      <4>1. \A a \in [date : Dates, started : 0..clock] :
              a.date \in Nat /\ a.started \in Nat
        <5>1. \A d \in Dates : d \in Nat
          BY DatesAssumption
        <5>2. \A n \in 0..clock : n \in Nat
          OBVIOUS
        <5> QED
          BY <5>1, <5>2
      <4>2. averages \in answers \/ averages = [date |-> 0, started |-> 0]
        OBVIOUS
      <4> QED
        BY <3>2, <4>1, <4>2
    <3>5. LatestAverages => LatestAverages'
      BY <2>4, <3>4 DEF Supersedes, LatestAverages
    <3> QED
      BY <3>3, <3>5
  <2> QED
    BY <1>2, <2>3, <2>4, Zenon DEF SaveSnapshot
<1>3. ASSUME NEW s \in Servers, Crash(s)
      PROVE  AveragesTypeOK' /\ UNCHANGED <<averages, answers>>
  BY <1>3 DEF Crash
<1>4. CASE UNCHANGED averageVars
  BY <1>4 DEF averageVars, LatestAverages
<1>5. ASSUME UNCHANGED <<averages, answers>> PROVE LatestAverages => LatestAverages'
  BY <1>5 DEF LatestAverages
<1>6. \/ \E s \in Servers : StartRefresh(s) \/ SaveSnapshot(s) \/ Crash(s)
      \/ UNCHANGED averageVars
  BY Zenon DEF Next, vars, Start, Work, Download, ImportStations, ClearPrices,
     InsertPrices, CommitPrices, FailImport, FinishRun, FailRun, Release,
     LoseConnection, Probe, EndProbe
<1> QED
  BY <1>1, <1>2, <1>3, <1>4, <1>5, <1>6

\* Every step keeps the types; the lock and the runs are not needed for it.
LEMMA TypeNext ==
  ASSUME TypeOK, [Next]_vars
  PROVE  TypeOK'
<1>a. AveragesTypeOK'
  BY AveragesNext DEF TypeOK
<1> USE RunsAssumption, <1>a DEF TypeOK, Phases, Runs
<1>1. ASSUME NEW s \in Servers, Start(s) PROVE TypeOK'
  BY <1>1 DEF Start, To, dataVars
<1>2. ASSUME NEW s \in Servers, Work(s) PROVE TypeOK'
  <2>1. CASE Download(s)
    BY <2>1 DEF Download, To, runVars
  <2>2. CASE ImportStations(s)
    BY <2>2 DEF ImportStations, To, runVars
  <2>3. CASE ClearPrices(s)
    BY <2>3 DEF ClearPrices, To, runVars
  <2>4. CASE InsertPrices(s)
    BY <2>4 DEF InsertPrices, To, runVars
  <2>5. CASE CommitPrices(s)
    BY <2>5 DEF CommitPrices, To, runVars
  <2>6. CASE FailImport(s)
    BY <2>6 DEF FailImport, To, runVars
  <2>7. CASE FinishRun(s)
    BY <2>7 DEF FinishRun, To, dataVars
  <2>8. CASE FailRun(s)
    BY <2>8 DEF FailRun, To, dataVars
  <2>9. CASE StartRefresh(s)
    BY <2>9 DEF StartRefresh, To, runVars, dataVars
  <2>10. CASE SaveSnapshot(s)
    BY <2>10 DEF SaveSnapshot, To, runVars, dataVars
  <2>11. CASE Release(s)
    BY <2>11 DEF Release, To, runVars, dataVars
  <2> QED
    BY <1>2, <2>1, <2>2, <2>3, <2>4, <2>5, <2>6, <2>7, <2>8, <2>9, <2>10,
       <2>11 DEF Work
<1>3. ASSUME NEW s \in Servers, LoseConnection(s) PROVE TypeOK'
  BY <1>3 DEF LoseConnection, runVars, dataVars
<1>4. ASSUME NEW s \in Servers, Crash(s) PROVE TypeOK'
  BY <1>4 DEF Crash, To, runVars
<1>5. CASE Probe
  BY <1>5 DEF Probe, runVars, dataVars
<1>6. CASE EndProbe
  BY <1>6 DEF EndProbe, dataVars
<1>7. CASE UNCHANGED vars
  BY <1>7 DEF vars, runVars, dataVars
<1> QED
  BY <1>1, <1>2, <1>3, <1>4, <1>5, <1>6, <1>7 DEF Next

LEMMA IInvInit == Init => IInv
  BY RunsAssumption, ServersAssumption
     DEF Init, IInv, TypeOK, AveragesTypeOK, LockedInv, RecordedInv, RunningInv,
         LatestInv, Phases, Runs, Reporting

\* What the inductive invariant needs of a step, and keeps: the facts about
\* the lock, the recorded runs and their results.
LEMMA IInvNext ==
  ASSUME IInv, [Next]_vars
  PROVE  IInv'
<1>t. TypeOK'
  BY TypeNext DEF IInv
<1> USE RunsAssumption, ServersAssumption, <1>t
    DEF IInv, TypeOK, LockedInv, RecordedInv, RunningInv, LatestInv, Phases,
        Runs, Reporting
<1>1. ASSUME NEW s \in Servers, Start(s) PROVE IInv'
  BY <1>1 DEF Start, To, dataVars
<1>2. ASSUME NEW s \in Servers, Work(s) PROVE IInv'
  <2>1. CASE Download(s)
    BY <2>1 DEF Download, To, runVars
  <2>2. CASE ImportStations(s)
    BY <2>2 DEF ImportStations, To, runVars
  <2>3. CASE ClearPrices(s)
    BY <2>3 DEF ClearPrices, To, runVars
  <2>4. CASE InsertPrices(s)
    BY <2>4 DEF InsertPrices, To, runVars
  <2>5. CASE CommitPrices(s)
    BY <2>5 DEF CommitPrices, To, runVars
  <2>6. CASE FailImport(s)
    BY <2>6 DEF FailImport, To, runVars
  <2>7. CASE FinishRun(s)
    BY <2>7 DEF FinishRun, To, dataVars
  <2>8. CASE FailRun(s)
    BY <2>8 DEF FailRun, To, dataVars
  <2>9. CASE StartRefresh(s)
    BY <2>9 DEF StartRefresh, To, runVars, dataVars
  <2>10. CASE SaveSnapshot(s)
    BY <2>10 DEF SaveSnapshot, To, runVars, dataVars
  <2>11. CASE Release(s)
    BY <2>11 DEF Release, To, runVars, dataVars
  <2> QED
    BY <1>2, <2>1, <2>2, <2>3, <2>4, <2>5, <2>6, <2>7, <2>8, <2>9, <2>10,
       <2>11 DEF Work
<1>3. ASSUME NEW s \in Servers, LoseConnection(s) PROVE IInv'
  BY <1>3 DEF LoseConnection, runVars, dataVars
<1>4. ASSUME NEW s \in Servers, Crash(s) PROVE IInv'
  BY <1>4 DEF Crash, To, runVars
<1>5. CASE Probe
  BY <1>5 DEF Probe, runVars, dataVars
<1>6. CASE EndProbe
  BY <1>6 DEF EndProbe, dataVars
<1>7. CASE UNCHANGED vars
  BY <1>7 DEF vars, runVars, dataVars
<1> QED
  BY <1>1, <1>2, <1>3, <1>4, <1>5, <1>6, <1>7 DEF Next

\* The state of the import stays in the domains of its tables and locks.
THEOREM TypeCorrect == Spec => []TypeOK
<1>1. Init => TypeOK
  BY IInvInit DEF IInv
<1>2. TypeOK /\ [Next]_vars => TypeOK'
  BY TypeNext
<1> QED
  BY <1>1, <1>2, PTL DEF Spec

\* A session that lives holds the lock, and its run is recorded as running
\* until it reports (try_acquire_mimit_lock).
THEOREM Inductive == Spec => []IInv
  BY IInvInit, IInvNext, PTL DEF Spec

\* Of the servers at work one at most can still report a result, and it works
\* for the latest run, which waits for that result.  A server that lost its
\* session goes on writing prices beside it, without the lock
\* (try_acquire_mimit_lock, finish_mimit_import_run).
LoneReporter ==
  \A s \in Servers : connected[s] =>
    /\ run[s] = last /\ \A q \in Servers \ {s} : ~connected[q]
    /\ phase[s] \in Reporting => status[last] = "running"

THEOREM OnlyLatestReports == Spec => []LoneReporter
<1>1. IInv => LoneReporter
  BY DEF IInv, LockedInv, RunningInv, LoneReporter
<1> QED
  BY <1>1, Inductive, PTL

\* LatestAverages: refreshes of servers that lost their sessions may finish in
\* any order, the page and the answer that should win do (save_snapshot).
THEOREM AveragesAreLatest == Spec => []LatestAverages
<1>1. Init => LatestAverages
  BY DEF Init, LatestAverages
<1>2. TypeOK /\ LatestAverages /\ [Next]_vars => LatestAverages'
  BY AveragesNext DEF TypeOK
<1> QED
  BY <1>1, <1>2, TypeCorrect, PTL DEF Spec

\* One step gives no run that ended another result.
LEMMA DecidedOnceStep ==
  ASSUME IInv, [Next]_vars, NEW r \in Runs, status[r] \in {"success", "failed"}
  PROVE  status'[r] = status[r]
<1> USE RunsAssumption, ServersAssumption
    DEF IInv, TypeOK, LockedInv, RecordedInv, RunningInv, LatestInv, Phases,
        Runs, Reporting
<1>1. ASSUME NEW s \in Servers, Start(s) PROVE status'[r] = status[r]
  BY <1>1 DEF Start
<1>2. ASSUME NEW s \in Servers, FinishRun(s) \/ FailRun(s)
      PROVE  status'[r] = status[r]
  BY <1>2 DEF FinishRun, FailRun
<1>3. CASE EndProbe
  BY <1>3 DEF EndProbe
<1>4. CASE UNCHANGED status
  BY <1>4
<1> QED
  BY <1>1, <1>2, <1>3, <1>4
     DEF Next, vars, Work, Download, ImportStations, ClearPrices, InsertPrices,
         CommitPrices, FailImport, StartRefresh, SaveSnapshot, Release,
         LoseConnection, Crash, Probe, runVars

\* A run that ended keeps its result, whoever may still write it: its worker,
\* the next update or a lock check (mark_mimit_import_run_orphaned,
\* finish_mimit_import_run).
THEOREM DecidedOnce == Spec => RunsDecidedOnce
<1>1. IInv /\ [Next]_vars
      => [\A r \in Runs : status[r] \in {"success", "failed"}
                          => status'[r] = status[r]]_vars
  BY DecidedOnceStep
<1> QED
  BY <1>1, Inductive, PTL DEF Spec, RunsDecidedOnce

---------------------------------------------------------------------------
(* The selection: what the import keeps of a file does not depend on the   *)
(* order of its rows.                                                      *)

\* The usable reports no other report of the same price wins against.
Unbeaten(S) ==
  {r \in S : /\ r.usable
             /\ \A q \in S : q.usable /\ q.key = r.key => ~Wins(q, r)}

\* No price is lost: one of its reports is unbeaten, whatever is in S. Of an
\* infinite set this need not hold; of the rows of a file it does.
Settled(S) == \A r \in S : r.usable => \E q \in Unbeaten(S) : q.key = r.key

\* The first i reports of a file.
UpTo(rows, i) == {rows[j] : j \in 1..i}

\* Wins is an order of the reports of one price ...
LEMMA WinsIsOrder ==
  ASSUME NEW r \in Reports
  PROVE  /\ ~Wins(r, r)
         /\ \A q, p \in Reports : Wins(r, q) /\ Wins(q, p) => Wins(r, p)
BY DEF Wins, Reports

\* ... and a total one where the ties are decided.
LEMMA WinsIsTotal ==
  ASSUME NEW S \in SUBSET Reports, TiesDecide(S), NEW r \in S, NEW q \in S,
         r.usable, q.usable, r.key = q.key, ~Wins(r, q), ~Wins(q, r)
  PROVE  r = q
<1>1. r \in Reports /\ q \in Reports
  OBVIOUS
<1>2. r.at = q.at /\ r.priority = q.priority /\ r.tie = q.tie
  BY <1>1 DEF Wins, Reports
<1> QED
  BY <1>2 DEF TiesDecide

\* The newest, the most canonical and the first of those: the unbeaten ones.
LEMMA ReferenceIsUnbeaten ==
  ASSUME NEW S \in SUBSET Reports
  PROVE  Reference(S) = Unbeaten(S)
<1> SUFFICES ASSUME NEW r \in S
             PROVE  r \in Reference(S) <=> r \in Unbeaten(S)
  BY DEF Reference, Unbeaten
<1> DEFINE rivals == {q \in S : q.usable /\ q.key = r.key}
           newest == {q \in rivals : \A p \in rivals : p.at <= q.at}
           named  == {q \in newest : \A p \in newest : p.priority >= q.priority}
<1>1. r \in Reference(S) <=> r \in named /\ \A q \in named : q.tie >= r.tie
  BY DEF Reference
<1>2. r \in Unbeaten(S) <=> r.usable /\ \A q \in rivals : ~Wins(q, r)
  BY DEF Unbeaten
<1>3. \A q \in S : q.at \in Nat /\ q.priority \in Nat /\ q.tie \in Nat
  BY DEF Reports
<1>4. ASSUME r \in named, \A q \in named : q.tie >= r.tie
      PROVE  \A q \in rivals : ~Wins(q, r)
  <2> SUFFICES ASSUME NEW q \in rivals, Wins(q, r) PROVE FALSE
    OBVIOUS
  <2>1. q.at <= r.at /\ r \in newest
    BY <1>4
  <2>2. q.at = r.at
    BY <1>3, <2>1 DEF Wins
  <2>3. q \in newest
    BY <2>1, <2>2
  <2>4. q.priority >= r.priority
    BY <1>4, <2>3
  <2>5. q.priority = r.priority /\ q.tie < r.tie
    BY <1>3, <2>2, <2>4 DEF Wins
  <2>6. q \in named
    BY <1>4, <2>3, <2>5
  <2> QED
    BY <1>3, <1>4, <2>5, <2>6
<1>5. ASSUME r.usable, \A q \in rivals : ~Wins(q, r)
      PROVE  r \in named /\ \A q \in named : q.tie >= r.tie
  <2>1. \A q \in rivals : q.at <= r.at
    BY <1>3, <1>5 DEF Wins
  <2>2. r \in newest
    BY <1>5, <2>1
  <2>3. \A q \in newest : q.at = r.at
    BY <1>3, <2>1, <2>2
  <2>4. \A q \in newest : q.priority >= r.priority
    BY <1>3, <1>5, <2>3 DEF Wins
  <2>5. r \in named
    BY <2>2, <2>4
  <2>6. \A q \in named : q.priority = r.priority
    BY <1>3, <2>4, <2>2
  <2> QED
    BY <1>3, <1>5, <2>3, <2>5, <2>6 DEF Wins
<1> QED
  BY <1>1, <1>2, <1>4, <1>5

\* One more report changes what was selected as it changes the unbeaten ones.
LEMMA ConsiderKeepsUnbeaten ==
  ASSUME NEW S \in SUBSET Reports, NEW row \in Reports,
         TiesDecide(S \cup {row}), Settled(S)
  PROVE  /\ Consider(Unbeaten(S), row) = Unbeaten(S \cup {row})
         /\ Settled(S \cup {row})
<1> DEFINE T == S \cup {row}
           current == {r \in Unbeaten(S) : r.key = row.key}
<1>1. T \in SUBSET Reports /\ S \subseteq T /\ row \in T
  OBVIOUS
<1>2. \A r \in Unbeaten(S) : r \in S /\ r.usable
  BY DEF Unbeaten
<1>3. \A r \in S : r \in Unbeaten(T) => r \in Unbeaten(S)
  BY DEF Unbeaten
<1>4. \A r \in Unbeaten(S) : r.key # row.key => r \in Unbeaten(T)
  BY DEF Unbeaten
<1>5. CASE ~row.usable
  <2>1. Unbeaten(T) = Unbeaten(S)
    BY <1>5 DEF Unbeaten
  <2> QED
    BY <1>5, <2>1 DEF Consider, Settled
<1>6. CASE row.usable /\ \A r \in current : Wins(row, r)
  <2>1. Consider(Unbeaten(S), row) = (Unbeaten(S) \ current) \cup {row}
    BY <1>6 DEF Consider, Select
  <2>2. row \in Unbeaten(T)
    <3> SUFFICES ASSUME NEW q \in T, q.usable, q.key = row.key, Wins(q, row)
                 PROVE  FALSE
      BY <1>6 DEF Unbeaten
    <3>1. q \in S
      BY WinsIsOrder
    <3>2. PICK c \in Unbeaten(S) : c.key = q.key
      BY <3>1 DEF Settled
    <3>3. Wins(row, c) /\ ~Wins(q, c)
      BY <1>6, <3>1, <3>2 DEF Unbeaten
    <3>4. Wins(q, c)
      BY <1>1, <1>2, <3>1, <3>2, <3>3, WinsIsOrder
    <3> QED
      BY <3>3, <3>4
  <2>3. \A r \in current : r \notin Unbeaten(T) \/ r = row
    BY <1>6 DEF Unbeaten
  <2>4. Unbeaten(T) = (Unbeaten(S) \ current) \cup {row}
    <3>1. \A r \in Unbeaten(T) : r \in (Unbeaten(S) \ current) \cup {row}
      <4> SUFFICES ASSUME NEW r \in Unbeaten(T), r # row
                   PROVE  r \in Unbeaten(S) \ current
        OBVIOUS
      <4>1. r \in S
        BY DEF Unbeaten
      <4> QED
        BY <1>3, <2>3, <4>1
    <3>2. \A r \in Unbeaten(S) \ current : r \in Unbeaten(T)
      BY <1>4
    <3> QED
      BY <2>2, <3>1, <3>2
  <2>5. Settled(T)
    <3> SUFFICES ASSUME NEW r \in T, r.usable
                 PROVE  \E q \in Unbeaten(T) : q.key = r.key
      BY DEF Settled
    <3>1. CASE r.key = row.key
      BY <2>2, <3>1
    <3>2. CASE r.key # row.key
      <4>1. PICK q \in Unbeaten(S) : q.key = r.key
        BY <3>2 DEF Settled
      <4> QED
        BY <1>4, <3>2, <4>1
    <3> QED
      BY <3>1, <3>2
  <2> QED
    BY <2>1, <2>4, <2>5
<1>7. CASE row.usable /\ \E r \in current : ~Wins(row, r)
  <2>1. Consider(Unbeaten(S), row) = Unbeaten(S)
    BY <1>7 DEF Consider, Select
  <2>2. PICK c \in Unbeaten(S) : c.key = row.key /\ ~Wins(row, c)
    BY <1>7
  <2>3. c \in S /\ c.usable
    BY <1>2, <2>2
  <2>4. row \in Unbeaten(T) => row = c
    <3> SUFFICES ASSUME row \in Unbeaten(T) PROVE row = c
      OBVIOUS
    <3>1. ~Wins(c, row)
      BY <1>1, <2>2, <2>3 DEF Unbeaten
    <3> QED
      BY <1>1, <1>7, <2>2, <2>3, <3>1, WinsIsTotal
  <2>5. \A r \in Unbeaten(S) : r.key = row.key => r = c
    <3> SUFFICES ASSUME NEW r \in Unbeaten(S), r.key = row.key PROVE r = c
      OBVIOUS
    <3>1. r \in S /\ r.usable
      BY <1>2
    <3>2. ~Wins(r, c) /\ ~Wins(c, r)
      BY <2>2, <2>3, <3>1 DEF Unbeaten
    <3> QED
      BY <1>1, <2>2, <2>3, <3>1, <3>2, WinsIsTotal
  <2>6. c \in Unbeaten(T)
    BY <2>2 DEF Unbeaten
  <2>7. Unbeaten(T) = Unbeaten(S)
    <3>1. \A r \in Unbeaten(T) : r \in Unbeaten(S)
      <4> SUFFICES ASSUME NEW r \in Unbeaten(T) PROVE r \in Unbeaten(S)
        OBVIOUS
      <4>1. r \in T
        BY DEF Unbeaten
      <4> QED
        BY <1>3, <2>2, <2>4, <4>1
    <3>2. \A r \in Unbeaten(S) : r \in Unbeaten(T)
      BY <1>4, <2>5, <2>6
    <3> QED
      BY <3>1, <3>2
  <2>8. Settled(T)
    BY <2>2, <2>7 DEF Settled
  <2> QED
    BY <2>1, <2>7, <2>8
<1> QED
  BY <1>5, <1>6, <1>7

\* The reports considered first are settled: if not, a smallest number of
\* them is not, and the one before it is.
LEMMA FirstReportsSettled ==
  ASSUME NEW rows \in Seq(Reports), TiesDecide(ToSet(rows))
  PROVE  /\ UpTo(rows, 0) = {} /\ Unbeaten({}) = {}
         /\ \A i \in 1..Len(rows) :
              /\ rows[i] \in Reports
              /\ UpTo(rows, i) = UpTo(rows, i - 1) \cup {rows[i]}
              /\ Unbeaten(UpTo(rows, i))
                   = Consider(Unbeaten(UpTo(rows, i - 1)), rows[i])
<1> DEFINE Unsettled == {i \in 0..Len(rows) : ~Settled(UpTo(rows, i))}
<1>1. Len(rows) \in Nat /\ \A i \in 1..Len(rows) : rows[i] \in Reports
  OBVIOUS
<1>2. UpTo(rows, 0) = {} /\ Unbeaten({}) = {}
  BY DEF UpTo, Unbeaten
<1>3. \A i \in 1..Len(rows) : UpTo(rows, i) = UpTo(rows, i - 1) \cup {rows[i]}
  <2> SUFFICES ASSUME NEW i \in 1..Len(rows)
               PROVE  UpTo(rows, i) = UpTo(rows, i - 1) \cup {rows[i]}
    OBVIOUS
  <2>1. 1..i = 1..(i - 1) \cup {i}
    BY <1>1
  <2> QED
    BY <2>1 DEF UpTo
<1>4. \A i \in 0..Len(rows) :
        UpTo(rows, i) \in SUBSET Reports /\ UpTo(rows, i) \subseteq ToSet(rows)
  BY <1>1 DEF UpTo, ToSet
<1>5. ASSUME NEW i \in 1..Len(rows), Settled(UpTo(rows, i - 1))
      PROVE  /\ Consider(Unbeaten(UpTo(rows, i - 1)), rows[i])
                  = Unbeaten(UpTo(rows, i))
             /\ Settled(UpTo(rows, i))
  <2>1. i - 1 \in 0..Len(rows) /\ i \in 0..Len(rows)
    BY <1>1
  <2>2. UpTo(rows, i - 1) \in SUBSET Reports /\ rows[i] \in Reports
    BY <1>1, <1>4, <2>1
  <2>3. UpTo(rows, i) \subseteq ToSet(rows)
    BY <1>4, <2>1
  <2>4. TiesDecide(UpTo(rows, i - 1) \cup {rows[i]})
    BY <1>3, <2>3 DEF TiesDecide
  <2>5. /\ Consider(Unbeaten(UpTo(rows, i - 1)), rows[i])
               = Unbeaten(UpTo(rows, i - 1) \cup {rows[i]})
        /\ Settled(UpTo(rows, i - 1) \cup {rows[i]})
    BY <1>5, <2>2, <2>4, ConsiderKeepsUnbeaten
  <2> QED
    BY <1>3, <2>5
<1>6. Unsettled = {}
  <2> SUFFICES ASSUME Unsettled # {} PROVE FALSE
    OBVIOUS
  <2>1. Unsettled \subseteq Nat
    BY <1>1
  <2>2. \E n \in Unsettled :
          \A m \in Unsettled : <<m, n>> \notin OpToRel(<, Nat)
    BY <2>1, NatLessThanWellFounded, WFMin
  <2>3. PICK n \in Unsettled : \A m \in Unsettled : ~(m < n)
    BY <2>1, <2>2 DEF OpToRel
  <2>4. n # 0
    BY <1>2 DEF Settled
  <2>5. n \in 1..Len(rows) /\ n - 1 \in 0..Len(rows) /\ n - 1 < n
    BY <1>1, <2>4
  <2>6. Settled(UpTo(rows, n - 1))
    BY <2>3, <2>5
  <2> QED
    BY <1>5, <2>5, <2>6
<1> QED
  <2> SUFFICES ASSUME NEW i \in 1..Len(rows)
               PROVE  Unbeaten(UpTo(rows, i))
                        = Consider(Unbeaten(UpTo(rows, i - 1)), rows[i])
    BY <1>1, <1>2, <1>3
  <2>1. i - 1 \in 0..Len(rows)
    BY <1>1
  <2> QED
    BY <1>5, <1>6, <2>1

\* What the import prepares of a file is what the file stands for: the reads
\* of its rows one by one are a function of how many were read, and the
\* only one.
THEOREM SelectionIgnoresOrder ==
  ASSUME NEW rows \in Seq(Reports), TiesDecide(ToSet(rows))
  PROVE  Prepared(rows) = Reference(ToSet(rows))
<1> DEFINE n == Len(rows)
           Reads(f) == f = [i \in 0..n |-> IF i = 0 THEN {}
                                           ELSE Consider(f[i - 1], rows[i])]
           best == [i \in 0..n |-> Unbeaten(UpTo(rows, i))]
           first == CHOOSE f : Reads(f)
<1>1. n \in Nat
  OBVIOUS
<1>2. \A i \in 0..n :
        best[i] = IF i = 0 THEN {} ELSE Consider(best[i - 1], rows[i])
  <2> SUFFICES ASSUME NEW i \in 0..n
               PROVE  best[i] = IF i = 0 THEN {}
                                ELSE Consider(best[i - 1], rows[i])
    OBVIOUS
  <2>1. CASE i = 0
    BY <2>1, FirstReportsSettled
  <2>2. CASE i # 0
    <3>1. i \in 1..n /\ i - 1 \in 0..n
      BY <1>1, <2>2
    <3>2. best[i] = Unbeaten(UpTo(rows, i))
      OBVIOUS
    <3>3. best[i - 1] = Unbeaten(UpTo(rows, i - 1))
      BY <3>1
    <3> HIDE DEF best
    <3> QED
      BY <2>2, <3>1, <3>2, <3>3, FirstReportsSettled
  <2> QED
    BY <2>1, <2>2
<1>3. \E f : Reads(f)
  <2>1. best = [i \in 0..n |-> best[i]]
    OBVIOUS
  <2>2. Reads(best)
    <3> HIDE DEF best
    <3> QED
      BY <1>2, <2>1
  <2> QED
    BY <2>2
<1>4. Reads(first)
  <2> HIDE DEF Reads
  <2> QED
    BY <1>3
<1>5. Prepared(rows) = first[n]
  BY DEF Prepared
<1>6. \A i \in 0..n :
        first[i] = IF i = 0 THEN {} ELSE Consider(first[i - 1], rows[i])
  <2> HIDE DEF first
  <2> QED
    BY <1>4
<1> HIDE DEF first, best
<1>7. {i \in 0..n : first[i] # best[i]} = {}
  <2> DEFINE Odd == {i \in 0..n : first[i] # best[i]}
  <2> SUFFICES ASSUME Odd # {} PROVE FALSE
    OBVIOUS
  <2>1. Odd \subseteq Nat
    BY <1>1
  <2>2. \E k \in Odd : \A m \in Odd : <<m, k>> \notin OpToRel(<, Nat)
    BY <2>1, NatLessThanWellFounded, WFMin
  <2>3. PICK k \in Odd : \A m \in Odd : ~(m < k)
    BY <2>1, <2>2 DEF OpToRel
  <2>4. k # 0
    BY <1>1, <1>2, <1>6
  <2>5. k - 1 \in 0..n /\ k - 1 < k
    BY <1>1, <2>4
  <2>6. first[k - 1] = best[k - 1]
    BY <2>3, <2>5
  <2>7. first[k] = best[k]
    BY <1>2, <1>6, <2>4, <2>6
  <2> QED
    BY <2>7
<1>8. n \in 0..n
  BY <1>1
<1>9. best[n] = Unbeaten(UpTo(rows, n))
  BY <1>8 DEF best
<1>10. UpTo(rows, n) = ToSet(rows) /\ ToSet(rows) \in SUBSET Reports
  BY <1>1 DEF UpTo, ToSet
<1> QED
  BY <1>5, <1>7, <1>8, <1>9, <1>10, ReferenceIsUnbeaten

---------------------------------------------------------------------------
(* The prices readers see.                                                 *)

\* A server that has not committed knows the file it downloaded; between the
\* deletion of the old prices and the commit its draft holds only what the
\* selection left of that file.
FileInv ==
  /\ DOMAIN file = Servers /\ DOMAIN draft = Servers
  /\ \A s \in Servers :
       /\ phase[s] \in {"stations", "clear", "insert", "commit"}
            => file[s] \in Files
       /\ phase[s] = "insert" => draft[s] = {}
       /\ phase[s] = "commit" => draft[s] = Prepared(file[s])

\* The prices of one whole file.
Whole == /\ Cardinality(prices) >= MinRows
         /\ \E f \in Files : prices = Reference(ToSet(f))

\* No run is a success, and none is about to be one, before a commit.
PricesInv ==
  \/ Whole
  \/ /\ prices = {}
     /\ \A r \in Runs : status[r] # "success"
     /\ \A s \in Servers : phase[s] # "finish"

DataInv == TypeOK /\ FileInv /\ PricesInv

\* Steps of one server that leave the prices and the successes as they are
\* and do not commit keep the prices.
LEMMA PricesStay ==
  ASSUME PricesInv, UNCHANGED prices,
         \A r \in Runs : status'[r] = "success" => status[r] = "success",
         \A s \in Servers : phase'[s] = "finish" => phase[s] = "finish"
  PROVE  PricesInv'
BY DEF PricesInv, Whole

\* What a commit publishes is what the file stands for.
LEMMA CommitPublishes ==
  ASSUME DataInv, NEW s \in Servers, CommitPrices(s)
  PROVE  PricesInv'
<1>1. file[s] \in Files /\ draft[s] = Prepared(file[s])
  BY DEF DataInv, FileInv, CommitPrices
<1>2. file[s] \in Seq(Reports) /\ TiesDecide(ToSet(file[s]))
  BY <1>1, FilesAssumption
<1>3. Prepared(file[s]) = Reference(ToSet(file[s]))
  BY <1>2, SelectionIgnoresOrder
<1>4. prices' = Reference(ToSet(file[s])) /\ Cardinality(prices') >= MinRows
  BY <1>1, <1>3 DEF CommitPrices
<1> QED
  BY <1>1, <1>4 DEF PricesInv, Whole

LEMMA DataInvInit == Init => DataInv
<1> SUFFICES ASSUME Init PROVE DataInv
  OBVIOUS
<1>1. TypeOK
  BY IInvInit DEF IInv
<1>2. FileInv
  BY DEF Init, FileInv
<1>3. PricesInv
  BY DEF Init, PricesInv, Runs
<1> QED
  BY <1>1, <1>2, <1>3 DEF DataInv

LEMMA DataInvNext ==
  ASSUME DataInv, [Next]_vars
  PROVE  DataInv'
<1>t. TypeOK /\ TypeOK'
  BY TypeNext DEF DataInv
<1>p. PricesInv /\ FileInv
  BY DEF DataInv
<1> SUFFICES FileInv' /\ PricesInv'
  BY <1>t DEF DataInv
<1>1. ASSUME NEW s \in Servers, Start(s) PROVE FileInv' /\ PricesInv'
  <2>1. FileInv'
    BY <1>t, <1>p, <1>1 DEF TypeOK, FileInv, Start, To, dataVars
  <2>2. PricesInv'
    BY <1>t, <1>p, <1>1, PricesStay DEF TypeOK, Start, To, dataVars
  <2> QED
    BY <2>1, <2>2
<1>2. ASSUME NEW s \in Servers, Work(s) PROVE FileInv' /\ PricesInv'
  <2>1. CASE Download(s)
    <3>1. FileInv'
      BY <1>t, <1>p, <2>1 DEF TypeOK, FileInv, Download, To
    <3>2. PricesInv'
      BY <1>t, <1>p, <2>1, PricesStay DEF TypeOK, Download, To, runVars
    <3> QED
      BY <3>1, <3>2
  <2>2. CASE ImportStations(s)
    <3>1. FileInv'
      BY <1>t, <1>p, <2>2 DEF TypeOK, FileInv, ImportStations, To
    <3>2. PricesInv'
      BY <1>t, <1>p, <2>2, PricesStay
         DEF TypeOK, ImportStations, To, runVars
    <3> QED
      BY <3>1, <3>2
  <2>3. CASE ClearPrices(s)
    <3>1. FileInv'
      BY <1>t, <1>p, <2>3 DEF TypeOK, FileInv, ClearPrices, To
    <3>2. PricesInv'
      BY <1>t, <1>p, <2>3, PricesStay DEF TypeOK, ClearPrices, To, runVars
    <3> QED
      BY <3>1, <3>2
  <2>4. CASE InsertPrices(s)
    <3>1. FileInv'
      BY <1>t, <1>p, <2>4 DEF TypeOK, FileInv, InsertPrices, To
    <3>2. PricesInv'
      BY <1>t, <1>p, <2>4, PricesStay DEF TypeOK, InsertPrices, To, runVars
    <3> QED
      BY <3>1, <3>2
  <2>5. CASE CommitPrices(s)
    <3>1. FileInv'
      BY <1>t, <1>p, <2>5 DEF TypeOK, FileInv, CommitPrices, To
    <3> QED
      BY <2>5, <3>1, CommitPublishes
  <2>6. CASE FailImport(s)
    <3>1. FileInv'
      BY <1>t, <1>p, <2>6 DEF TypeOK, FileInv, FailImport, To
    <3>2. PricesInv'
      BY <1>t, <1>p, <2>6, PricesStay DEF TypeOK, FailImport, To, runVars
    <3> QED
      BY <3>1, <3>2
  <2>7. CASE FinishRun(s)
    <3>1. FileInv'
      BY <1>t, <1>p, <2>7 DEF TypeOK, FileInv, FinishRun, To, dataVars
    <3>2. PricesInv'
      BY <1>p, <2>7 DEF PricesInv, Whole, FinishRun, dataVars
    <3> QED
      BY <3>1, <3>2
  <2>8. CASE FailRun(s)
    <3>1. FileInv'
      BY <1>t, <1>p, <2>8 DEF TypeOK, FileInv, FailRun, To, dataVars
    <3>2. PricesInv'
      BY <1>t, <1>p, <2>8, PricesStay DEF TypeOK, FailRun, To, dataVars
    <3> QED
      BY <3>1, <3>2
  <2>9. CASE StartRefresh(s)
    <3>1. FileInv'
      BY <1>t, <1>p, <2>9 DEF TypeOK, FileInv, StartRefresh, To, dataVars
    <3>2. PricesInv'
      BY <1>t, <1>p, <2>9, PricesStay
         DEF TypeOK, StartRefresh, To, runVars, dataVars
    <3> QED
      BY <3>1, <3>2
  <2>10. CASE SaveSnapshot(s)
    <3>1. FileInv'
      BY <1>t, <1>p, <2>10 DEF TypeOK, FileInv, SaveSnapshot, To, dataVars
    <3>2. PricesInv'
      BY <1>t, <1>p, <2>10, PricesStay
         DEF TypeOK, SaveSnapshot, To, runVars, dataVars
    <3> QED
      BY <3>1, <3>2
  <2>11. CASE Release(s)
    <3>1. FileInv'
      BY <1>t, <1>p, <2>11 DEF TypeOK, FileInv, Release, To, dataVars
    <3>2. PricesInv'
      BY <1>t, <1>p, <2>11, PricesStay
         DEF TypeOK, Release, To, runVars, dataVars
    <3> QED
      BY <3>1, <3>2
  <2> QED
    BY <1>2, <2>1, <2>2, <2>3, <2>4, <2>5, <2>6, <2>7, <2>8, <2>9, <2>10,
       <2>11 DEF Work
<1>3. ASSUME NEW s \in Servers, LoseConnection(s)
      PROVE  FileInv' /\ PricesInv'
  <2>1. FileInv'
    BY <1>p, <1>3 DEF FileInv, LoseConnection, dataVars
  <2>2. PricesInv'
    BY <1>p, <1>3, PricesStay DEF LoseConnection, runVars, dataVars
  <2> QED
    BY <2>1, <2>2
<1>4. ASSUME NEW s \in Servers, Crash(s) PROVE FileInv' /\ PricesInv'
  <2>1. FileInv'
    BY <1>t, <1>p, <1>4 DEF TypeOK, FileInv, Crash, To
  <2>2. PricesInv'
    BY <1>t, <1>p, <1>4, PricesStay DEF TypeOK, Crash, To, runVars
  <2> QED
    BY <2>1, <2>2
<1>5. CASE Probe
  BY <1>p, <1>5 DEF FileInv, PricesInv, Whole, Probe, runVars, dataVars
<1>6. CASE EndProbe
  <2>1. FileInv'
    BY <1>p, <1>6 DEF FileInv, EndProbe, dataVars
  <2>2. PricesInv'
    BY <1>p, <1>6, PricesStay DEF EndProbe, dataVars
  <2> QED
    BY <2>1, <2>2
<1>7. CASE UNCHANGED vars
  BY <1>p, <1>7 DEF FileInv, PricesInv, Whole, vars, runVars, dataVars
<1> QED
  BY <1>1, <1>2, <1>3, <1>4, <1>5, <1>6, <1>7 DEF Next

\* Readers see the prices of one whole file, however its rows are ordered and
\* whatever fails, stops or runs at the same time; a run is a success only
\* after such prices were committed (import_local_mimit_files).
THEOREM DatasetStaysWhole == Spec => []DatasetWhole
<1>1. DataInv => DatasetWhole
  BY DEF DataInv, PricesInv, Whole, DatasetWhole
<1>2. DataInv /\ [Next]_vars => DataInv'
  BY DataInvNext
<1> QED
  BY <1>1, <1>2, DataInvInit, PTL DEF Spec
=============================================================================
