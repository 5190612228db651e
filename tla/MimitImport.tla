---------------------------- MODULE MimitImport ----------------------------
(* The import of the MIMIT files: an advisory lock, held by a session that *)
(* waits idle while the import runs on another one, a record per run, the  *)
(* replacement of all prices in one transaction, and the snapshot of the   *)
(* national averages, refreshed before the lock is given back.             *)
EXTENDS Naturals, FiniteSets, SequencesExt

CONSTANTS Servers,   \* processes, each with its in-process update lock
          Nobody,
          Checker,   \* the session of an administrator's lock check
          Keys,      \* the prices there are: station, fuel and service mode
          Files,     \* what MIMIT may publish: sequences of reports
          MinRows,   \* MIMIT_MIN_FINAL_PRICE_ROWS
          MaxRuns,   \* bound on the runs recorded
          Dates      \* reference dates of the national averages

ASSUME RunsAssumption == MaxRuns \in Nat
ASSUME DatesAssumption == Dates \subseteq Nat \ {0}
ASSUME ServersAssumption == Nobody \notin Servers /\ Checker \notin Servers
                            /\ Nobody # Checker

\* A row of the file: when the price was reported, the priority of the name
\* it gives the fuel, its place in the fixed order of names and prices.
Reports == [key : Keys, at : Nat, priority : Nat, tie : Nat, usable : BOOLEAN]

\* The fixed order compares what a candidate is made of: two candidates for
\* one price, reported at one time, differ in it unless they are equal.
TiesDecide(reports) ==
  \A r, q \in reports :
    /\ r.usable /\ q.usable /\ r.key = q.key
    /\ r.at = q.at /\ r.priority = q.priority /\ r.tie = q.tie
    => r = q

ASSUME FilesAssumption ==
  /\ Files \subseteq Seq(Reports)
  /\ \A rows \in Files : TiesDecide(ToSet(rows))

VARIABLES lock,      \* who holds the advisory lock
          phase,     \* what the background update of a server is doing
          connected, \* is the session that took the lock still alive
          run,       \* the run a server works for
          last,      \* the id of the latest run
          status,    \* mimit_import_runs.status
          file,      \* what a server downloaded
          draft,     \* fuel_prices as its open transaction sees them
          writer,    \* who holds the row locks of the stations
          prices,    \* fuel_prices as committed
          clock,     \* when refreshes of the averages started
          fetch,     \* the start of the refresh of a server
          averages,  \* the row of mimit_national_average_snapshot
          answers    \* what MIMIT answered the refreshes (for the
                     \* properties)

runVars == <<last, status>>
dataVars == <<file, draft, writer, prices>>
averageVars == <<clock, fetch, averages, answers>>
vars == <<lock, phase, connected, run, runVars, dataVars, averageVars>>

Runs == 1..MaxRuns
Phases == {"idle", "download", "stations", "clear", "insert", "commit",
           "finish", "fail", "refresh", "save", "release"}

Init == /\ lock = Nobody
        /\ phase = [s \in Servers |-> "idle"]
        /\ connected = [s \in Servers |-> FALSE]
        /\ run = [s \in Servers |-> 0]
        /\ last = 0
        /\ status = [r \in Runs |-> "none"]
        /\ file = [s \in Servers |-> <<>>]
        /\ draft = [s \in Servers |-> {}]
        /\ writer = Nobody
        /\ prices = {}
        /\ clock = 0
        /\ fetch = [s \in Servers |-> 0]
        /\ averages = [date |-> 0, started |-> 0]
        /\ answers = {}

---------------------------------------------------------------------------
(* The selection of one report per station, fuel and service mode.         *)

\* Later reports win, then the canonical names of the fuel, then a fixed
\* order of name and price.
Wins(row, current) ==
  \/ row.at > current.at
  \/ row.at = current.at /\ row.priority < current.priority
  \/ /\ row.at = current.at /\ row.priority = current.priority
     /\ row.tie < current.tie

\* What one more report does to the reports selected so far.
Select(selected, row) ==
  LET current == {r \in selected : r.key = row.key} IN
    IF \A r \in current : Wins(row, r) THEN (selected \ current) \cup {row}
                                       ELSE selected

\* Reports of unknown stations or fuels, or with invalid prices, are skipped.
Consider(selected, row) ==
  IF row.usable THEN Select(selected, row) ELSE selected

Prepared(rows) ==
  LET first[i \in 0..Len(rows)] ==
        IF i = 0 THEN {} ELSE Consider(first[i - 1], rows[i])
  IN first[Len(rows)]

---------------------------------------------------------------------------
To(s, p) == phase' = [phase EXCEPT ![s] = p]

\* Mutated: an update relies on the in-process lock alone.
StartUnlocked(s) ==
  /\ phase[s] = "idle" /\ last < MaxRuns
  /\ lock' = s
  /\ connected' = [connected EXCEPT ![s] = TRUE]
  /\ last' = last + 1
  /\ run' = [run EXCEPT ![s] = last + 1]
  /\ status' = [r \in Runs |-> IF r = last + 1 THEN "running"
                               ELSE IF status[r] = "running" THEN "failed"
                               ELSE status[r]]
  /\ To(s, "download")
  /\ UNCHANGED <<dataVars, averageVars>>

\* Mutated: an update leaves the runs of dead sessions alone.
StartWithoutReconciling(s) ==
  /\ phase[s] = "idle" /\ lock = Nobody /\ last < MaxRuns
  /\ lock' = s
  /\ connected' = [connected EXCEPT ![s] = TRUE]
  /\ last' = last + 1
  /\ run' = [run EXCEPT ![s] = last + 1]
  /\ status' = [status EXCEPT ![last + 1] = "running"]
  /\ To(s, "download")
  /\ UNCHANGED <<dataVars, averageVars>>

\* An update starts: the runs left running are orphans of dead sessions.
Start(s) ==
  /\ phase[s] = "idle" /\ lock = Nobody /\ last < MaxRuns
  /\ lock' = s
  /\ connected' = [connected EXCEPT ![s] = TRUE]
  /\ last' = last + 1
  /\ run' = [run EXCEPT ![s] = last + 1]
  /\ status' = [r \in Runs |-> IF r = last + 1 THEN "running"
                               ELSE IF status[r] = "running" THEN "failed"
                               ELSE status[r]]
  /\ To(s, "download")
  /\ UNCHANGED <<dataVars, averageVars>>

Download(s) ==
  /\ phase[s] = "download" /\ To(s, "stations")
  /\ \E f \in Files : file' = [file EXCEPT ![s] = f]
  /\ UNCHANGED <<lock, connected, run, runVars, draft, writer, prices, averageVars>>

\* The upsert of the stations waits for the rows another import has locked.
ImportStations(s) ==
  /\ phase[s] = "stations" /\ writer = Nobody
  /\ writer' = s
  /\ draft' = [draft EXCEPT ![s] = prices]
  /\ To(s, "clear")
  /\ UNCHANGED <<lock, connected, run, runVars, file, prices, averageVars>>

\* Too few candidates are refused before the old prices are deleted.
ClearPrices(s) ==
  /\ phase[s] = "clear"
  /\ Cardinality(Prepared(file[s])) >= MinRows
  /\ draft' = [draft EXCEPT ![s] = {}]
  /\ To(s, "insert")
  /\ UNCHANGED <<lock, connected, run, runVars, file, writer, prices, averageVars>>

InsertPrices(s) ==
  /\ phase[s] = "insert"
  /\ draft' = [draft EXCEPT ![s] = @ \cup Prepared(file[s])]
  /\ To(s, "commit")
  /\ UNCHANGED <<lock, connected, run, runVars, file, writer, prices, averageVars>>

\* Too few prices, or another number than were selected, are refused.
CommitPrices(s) ==
  /\ phase[s] = "commit" /\ Cardinality(draft[s]) >= MinRows
  /\ Cardinality(draft[s]) = Cardinality(Prepared(file[s]))
  /\ prices' = draft[s] /\ writer' = Nobody
  /\ draft' = [draft EXCEPT ![s] = {}]
  /\ file' = [file EXCEPT ![s] = <<>>]
  /\ To(s, "finish")
  /\ UNCHANGED <<lock, connected, run, runVars, averageVars>>

\* Mutated: what a failed import wrote is kept.
FailImportHalfway(s) ==
  /\ phase[s] \in {"download", "stations", "clear", "insert", "commit"}
  /\ prices' = IF writer = s THEN draft[s] ELSE prices
  /\ writer' = IF writer = s THEN Nobody ELSE writer
  /\ draft' = [draft EXCEPT ![s] = {}]
  /\ file' = [file EXCEPT ![s] = <<>>]
  /\ To(s, "fail")
  /\ UNCHANGED <<lock, connected, run, runVars, averageVars>>

\* A download, a validation or a statement fails: the import is rolled back.
FailImport(s) ==
  /\ phase[s] \in {"download", "stations", "clear", "insert", "commit"}
  /\ writer' = IF writer = s THEN Nobody ELSE writer
  /\ draft' = [draft EXCEPT ![s] = {}]
  /\ file' = [file EXCEPT ![s] = <<>>]
  /\ To(s, "fail")
  /\ UNCHANGED <<lock, connected, run, runVars, prices, averageVars>>

\* The result is written by run id, on the session that holds the lock.
FinishRun(s) ==
  /\ phase[s] = "finish"
  /\ \/ /\ connected[s]
        /\ status' = [status EXCEPT ![run[s]] = "success"]
        /\ To(s, "refresh")
     \/ UNCHANGED status /\ To(s, "fail")
  /\ UNCHANGED <<lock, connected, run, last, dataVars, averageVars>>

FailRun(s) ==
  /\ phase[s] = "fail" /\ To(s, "refresh")
  /\ \/ connected[s] /\ status' = [status EXCEPT ![run[s]] = "failed"]
     \/ UNCHANGED status
  /\ UNCHANGED <<lock, connected, run, last, dataVars, averageVars>>

StartRefresh(s) ==
  /\ phase[s] = "refresh" /\ To(s, "save")
  /\ clock' = clock + 1
  /\ fetch' = [fetch EXCEPT ![s] = clock + 1]
  /\ UNCHANGED <<lock, connected, run, runVars, dataVars, averages, answers>>

\* Mutated: a page of the same date always replaces the snapshot.
SupersedesByDate(new, old) == new.date >= old.date

\* The WHERE of the upsert.
Supersedes(new, old) ==
  \/ new.date > old.date
  \/ new.date = old.date /\ new.started > old.started

\* The page of a newer date, or of the same date to a refresh that started
\* later, replaces the snapshot; another answer, or none, leaves it.
SaveSnapshot(s) ==
  /\ phase[s] = "save" /\ To(s, "release")
  /\ \/ \E date \in Dates :
          LET answer == [date |-> date, started |-> fetch[s]]
          IN /\ answers' = answers \cup {answer}
             /\ averages' = IF Supersedes(answer, averages) THEN answer
                            ELSE averages
     \/ UNCHANGED <<averages, answers>>
  /\ fetch' = [fetch EXCEPT ![s] = 0]
  /\ UNCHANGED <<lock, connected, run, runVars, dataVars, clock>>

\* A server whose session died no longer holds the advisory lock.
Release(s) ==
  /\ phase[s] = "release" /\ To(s, "idle")
  /\ lock' = IF connected[s] THEN Nobody ELSE lock
  /\ connected' = [connected EXCEPT ![s] = FALSE]
  /\ run' = [run EXCEPT ![s] = 0]
  /\ UNCHANGED <<runVars, dataVars, averageVars>>

\* The idle session breaks: PostgreSQL frees its lock, the import goes on.
LoseConnection(s) ==
  /\ connected[s]
  /\ connected' = [connected EXCEPT ![s] = FALSE]
  /\ lock' = Nobody
  /\ UNCHANGED <<phase, run, runVars, dataVars, averageVars>>

Crash(s) ==
  /\ phase[s] # "idle" /\ To(s, "idle")
  /\ lock' = IF connected[s] THEN Nobody ELSE lock
  /\ connected' = [connected EXCEPT ![s] = FALSE]
  /\ run' = [run EXCEPT ![s] = 0]
  /\ writer' = IF writer = s THEN Nobody ELSE writer
  /\ draft' = [draft EXCEPT ![s] = {}]
  /\ file' = [file EXCEPT ![s] = <<>>]
  /\ fetch' = [fetch EXCEPT ![s] = 0]
  /\ UNCHANGED <<runVars, prices, clock, averages, answers>>

\* An administrator's lock check takes the lock for a moment ...
Probe ==
  /\ lock = Nobody
  /\ lock' = Checker
  /\ UNCHANGED <<phase, connected, run, runVars, dataVars, averageVars>>

\* ... and, when it got it, fails the run that is still recorded as running.
\* An error or a stop of its server undoes that and gives the lock back.
EndProbe ==
  /\ lock = Checker
  /\ lock' = Nobody
  /\ \/ status' = [r \in Runs |-> IF status[r] = "running" THEN "failed"
                                  ELSE status[r]]
     \/ UNCHANGED status
  /\ UNCHANGED <<phase, connected, run, last, dataVars, averageVars>>

Work(s) ==
  \/ Download(s) \/ ImportStations(s) \/ ClearPrices(s) \/ InsertPrices(s)
  \/ CommitPrices(s) \/ FailImport(s) \/ FinishRun(s) \/ FailRun(s)
  \/ StartRefresh(s) \/ SaveSnapshot(s) \/ Release(s)

Next == \/ \E s \in Servers : Start(s) \/ Work(s) \/ LoseConnection(s) \/ Crash(s)
        \/ Probe \/ EndProbe

Spec == Init /\ [][Next]_vars

\* The threads of a server go on unless it stops, and the cron calls again.
FairSpec == /\ Spec
            /\ \A s \in Servers : WF_vars(Work(s))
            /\ SF_vars(\E s \in Servers : Start(s))
            /\ WF_vars(EndProbe)

---------------------------------------------------------------------------
AveragesTypeOK ==
  /\ clock \in Nat /\ fetch \in [Servers -> 0..clock]
  /\ answers \subseteq [date : Dates, started : 0..clock]
  /\ averages \in answers \cup {[date |-> 0, started |-> 0]}

TypeOK ==
  /\ lock \in Servers \cup {Nobody, Checker}
  /\ phase \in [Servers -> Phases]
  /\ connected \in [Servers -> BOOLEAN]
  /\ run \in [Servers -> 0..MaxRuns]
  /\ last \in 0..MaxRuns
  /\ status \in [Runs -> {"none", "running", "success", "failed"}]
  /\ writer \in Servers \cup {Nobody}
  /\ AveragesTypeOK

\* The prices a file stands for, said without an order of its rows: of the
\* newest usable reports the most canonical, and of those the first.
Reference(reports) ==
  {r \in reports :
             LET rivals == {q \in reports : q.usable /\ q.key = r.key}
                 newest == {q \in rivals : \A p \in rivals : p.at <= q.at}
                 named == {q \in newest : \A p \in newest : p.priority >= q.priority}
             IN r \in named /\ \A q \in named : q.tie >= r.tie}

\* Readers always see the prices of one whole file, chosen independently of
\* the order of its rows, or none before the first import succeeded: whatever
\* fails, stops or runs at the same time, no file below the minimum is
\* published (import_local_mimit_files).
DatasetWhole ==
  \/ prices = {} /\ \A r \in Runs : status[r] # "success"
  \/ Cardinality(prices) >= MinRows /\ \E f \in Files : prices = Reference(ToSet(f))

\* A run that ended is never given another result, by its worker, by the
\* next update or by a lock check: the one that fails a run as orphaned must
\* know that its worker can no longer report (mark_mimit_import_run_orphaned,
\* finish_mimit_import_run).
RunsDecidedOnce ==
  [][\A r \in Runs : status[r] \in {"success", "failed"} => status'[r] = status[r]]_vars

\* The averages are those of the newest page, and of its answers the one to
\* the refresh that started last, in whatever order the refreshes of servers
\* that no longer exclude each other finish (save_snapshot).
LatestAverages ==
  \A answer \in answers :
    /\ averages.date >= answer.date
    /\ averages.date = answer.date => averages.started >= answer.started

\* Every run, crashed ones included, is in the end recorded as a success or
\* a failure, if later updates are started (fail_orphaned_mimit_import_runs).
RunsEnd ==
  \A r \in Runs \ {MaxRuns} :
    status[r] = "running" ~> status[r] \in {"success", "failed"}
=============================================================================
