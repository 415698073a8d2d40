----------------------------- MODULE Simulator -----------------------------
(***************************************************************************)
(* The life cycle of a simulation (pkg/simulator/simulator.go): Run starts *)
(* servers, workers and a reporter, waits for the workers, takes the final *)
(* snapshot and saves the report (pkg/metrics/filewriter.go); Stop ends    *)
(* servers and clients.  The command calls Run and Stop in turn            *)
(* (cmd/simulator/main.go).                                                *)
(*                                                                         *)
(* Client and Server model how a request travels, MetricsCollector how it  *)
(* is recorded.  Here it adds to the total and then to the outcomes, and a *)
(* snapshot reads the two in that order.  A Run that finds running set,    *)
(* and a Stop that does not, change nothing.  Start of a server fails only *)
(* if the server runs, which LifeCycle excludes.                           *)
(***************************************************************************)
EXTENDS Integers, Sequences, FiniteSets, SequencesExt

CONSTANTS
  Workers,       \* the workers of all clients
  EndsBy,        \* how workers may end: "requests", "time" or "context"
  PerClient,     \* requests_per_client
  MaxSent,       \* bound on the requests of one Run
  MaxSnapshots,  \* bound on the snapshots of all reporters
  MaxRuns        \* bound on the calls of Run

ASSUME SimulatorAssumption ==
  /\ IsFiniteSet(Workers)
  /\ EndsBy \subseteq {"requests", "time", "context"}
  /\ PerClient \in Nat \ {0}
  /\ MaxSent \in Nat /\ MaxSnapshots \in Nat /\ MaxRuns \in Nat

VARIABLES
  endBy,       \* how the workers end, by the configuration
  main,        \* where the goroutine that calls Run and Stop is
  running,     \* running, under runMu
  stopClosed,  \* whether stopCh is closed
  serversUp,   \* whether the servers run
  closed,      \* whether the clients are closed
  runs,        \* history: calls of Run
  timeUp,      \* whether the deadline of the clients has passed
  ctxDone,     \* whether the context of the Run is done
  loop,        \* where a worker is
  drawn,       \* requestCounter
  sent,        \* history: requests sent in this Run
  counts,      \* the collector: total and settled requests, and its resets
  reporter,    \* where the reporter of each Run is
  snap,        \* the snapshot each of them is taking
  taken,       \* history: the number of snapshots they have taken
  final,       \* finalSnapshot
  report,      \* the report of the file writer: snapshots and final result
  saved        \* the file

runVars == <<endBy, running, stopClosed, serversUp, closed, runs>>
endVars == <<timeUp, ctxDone>>
workVars == <<loop, drawn, sent, counts>>
reporterVars == <<reporter, snap, taken>>
fileVars == <<final, report, saved>>
vars == <<main, runVars, endVars, workVars, reporterVars, fileVars>>

RunIds == 1..MaxRuns
Counts == [epoch : 0..MaxRuns, total : Nat, settled : Nat]
Nothing == [epoch |-> 0, total |-> 0, settled |-> 0]
NoReport == [snapshots |-> << >>, final |-> Nothing]

TypeOK ==
  /\ endBy \in EndsBy
  /\ main \in {"idle", "start", "reset", "wait", "add", "result", "save", "stop", "close",
               "panic"}
  /\ running \in BOOLEAN /\ stopClosed \in BOOLEAN
  /\ serversUp \in BOOLEAN /\ closed \in BOOLEAN
  /\ runs \in 0..MaxRuns
  /\ timeUp \in BOOLEAN /\ ctxDone \in BOOLEAN
  /\ loop \in [Workers -> {"off", "next", "send", "record"}]
  /\ drawn \in Nat /\ sent \in 0..MaxSent
  /\ counts \in Counts
  /\ reporter \in [RunIds -> {"off", "select", "read", "add"}]
  /\ snap \in [RunIds -> Counts]
  /\ taken \in 0..MaxSnapshots
  /\ final \in Counts
  /\ report \in [snapshots : Seq(Counts), final : Counts]
  /\ saved \in [snapshots : Seq(Counts), final : Counts]

Init ==
  /\ endBy \in EndsBy
  /\ main = "idle"
  /\ running = FALSE /\ stopClosed = FALSE
  /\ serversUp = FALSE /\ closed = FALSE
  /\ runs = 0
  /\ timeUp = FALSE /\ ctxDone = FALSE
  /\ loop = [w \in Workers |-> "off"]
  /\ drawn = 0 /\ sent = 0
  /\ counts = Nothing
  /\ reporter = [r \in RunIds |-> "off"]
  /\ snap = [r \in RunIds |-> Nothing]
  /\ taken = 0
  /\ final = Nothing
  /\ report = NoReport /\ saved = NoReport

-----------------------------------------------------------------------------
(* Run, by the goroutine of the caller. *)

Run ==
  /\ main = "idle" /\ ~running /\ runs < MaxRuns
  /\ running' = TRUE
  /\ runs' = runs + 1
  /\ main' = "start"
  /\ UNCHANGED <<endBy, stopClosed, serversUp, closed, endVars, workVars, reporterVars,
                 fileVars>>

\* The servers start and the context of the simulation begins.
StartServers ==
  /\ main = "start" /\ ~serversUp
  /\ serversUp' = TRUE
  /\ ctxDone' = FALSE
  /\ main' = "reset"
  /\ UNCHANGED <<endBy, running, stopClosed, closed, runs, timeUp, workVars, reporterVars,
                 fileVars>>

\* After the warm-up, which does not look at the context, the metrics are
\* reset, when no reporter of an earlier Run holds the collector's mu, and
\* reporter and workers start.
Begin ==
  /\ main = "reset" /\ \A r \in RunIds : reporter[r] # "read"
  /\ counts' = [Nothing EXCEPT !.epoch = counts.epoch + 1]
  /\ timeUp' = FALSE
  /\ loop' = [w \in Workers |-> "next"]
  /\ drawn' = 0 /\ sent' = 0
  /\ reporter' = [reporter EXCEPT ![runs] = "select"]
  /\ main' = "wait"
  /\ UNCHANGED <<runVars, ctxDone, snap, taken, fileVars>>

\* A slip: a worker that has not started yet is not waited for.
JoinAny ==
  /\ main = "wait" /\ \E w \in Workers : loop[w] = "off"
  /\ final' = counts
  /\ main' = "add"
  /\ UNCHANGED <<runVars, endVars, workVars, reporterVars, report, saved>>

\* wg.Wait returns, the reporter is told to end, and the final snapshot is
\* taken: nothing is recorded any more, so that it is exact.
Join ==
  /\ main = "wait" /\ \A w \in Workers : loop[w] = "off"
  /\ final' = counts
  /\ main' = "add"
  /\ UNCHANGED <<runVars, endVars, workVars, reporterVars, report, saved>>

\* FileWriter.AddSnapshot, SetFinalResult and Save, under its mutex each.
AddFinal ==
  /\ main = "add"
  /\ report' = [report EXCEPT !.snapshots = Append(@, final)]
  /\ main' = "result"
  /\ UNCHANGED <<runVars, endVars, workVars, reporterVars, final, saved>>

SetFinalResult ==
  /\ main = "result"
  /\ report' = [report EXCEPT !.final = final]
  /\ main' = "save"
  /\ UNCHANGED <<runVars, endVars, workVars, reporterVars, final, saved>>

\* A failed write, which Run only reports, leaves no report behind.  Run then
\* returns and cancels its context; running stays set.
Save ==
  /\ main = "save"
  /\ saved' \in {report, NoReport}
  /\ ctxDone' = TRUE
  /\ main' = "idle"
  /\ UNCHANGED <<runVars, timeUp, workVars, reporterVars, final, report>>

-----------------------------------------------------------------------------
(* Stop, by the same goroutine. *)

\* Closing stopCh a second time panics.
Stop ==
  /\ main = "idle" /\ running
  /\ running' = FALSE
  /\ stopClosed' = TRUE
  /\ main' = IF stopClosed THEN "panic" ELSE "stop"
  /\ UNCHANGED <<endBy, serversUp, closed, runs, endVars, workVars, reporterVars, fileVars>>

\* A slip: the servers are left running.
StopServersNot ==
  /\ main = "stop"
  /\ main' = "close"
  /\ UNCHANGED <<runVars, endVars, workVars, reporterVars, fileVars>>

StopServers ==
  /\ main = "stop"
  /\ serversUp' = FALSE
  /\ main' = "close"
  /\ UNCHANGED <<endBy, running, stopClosed, closed, runs, endVars, workVars, reporterVars,
                 fileVars>>

CloseClients ==
  /\ main = "close"
  /\ closed' = TRUE
  /\ main' = "idle"
  /\ UNCHANGED <<endBy, running, stopClosed, serversUp, runs, endVars, workVars,
                 reporterVars, fileVars>>

-----------------------------------------------------------------------------
(* The workers of runClient. *)

\* The deadline of the clients passes; the context ends, by its timeout or by
\* a signal.
TimePasses ==
  /\ main = "wait" /\ endBy = "time" /\ ~timeUp
  /\ timeUp' = TRUE
  /\ UNCHANGED <<main, runVars, ctxDone, workVars, reporterVars, fileVars>>

CtxEnds ==
  /\ main \in {"reset", "wait"} /\ ~ctxDone
  /\ ctxDone' = TRUE
  /\ UNCHANGED <<main, runVars, timeUp, workVars, reporterVars, fileVars>>

\* The condition that a worker checks before its context.
Over ==
  \/ endBy = "time" /\ timeUp
  \/ endBy = "requests" /\ drawn + 1 > PerClient

\* A slip: the context is not looked at.
NextRequestDeaf(w) ==
  /\ loop[w] = "next"
  /\ drawn' = IF endBy = "requests" THEN drawn + 1 ELSE drawn
  /\ \/ Over /\ loop' = [loop EXCEPT ![w] = "off"] /\ UNCHANGED sent
     \/ /\ ~Over /\ sent < MaxSent
        /\ loop' = [loop EXCEPT ![w] = "send"]
        /\ sent' = sent + 1
  /\ UNCHANGED <<main, runVars, endVars, counts, reporterVars, fileVars>>

\* The head of the loop and the wait for the client's rate limiter, which ends
\* with the context as well.
NextRequest(w) ==
  /\ loop[w] = "next"
  /\ drawn' = IF endBy = "requests" THEN drawn + 1 ELSE drawn
  /\ \/ (Over \/ ctxDone) /\ loop' = [loop EXCEPT ![w] = "off"] /\ UNCHANGED sent
     \/ /\ ~Over /\ ~ctxDone /\ sent < MaxSent
        /\ loop' = [loop EXCEPT ![w] = "send"]
        /\ sent' = sent + 1
  /\ UNCHANGED <<main, runVars, endVars, counts, reporterVars, fileVars>>

\* Send returns, with an answer or an error, and the request is recorded.
Send(w) ==
  /\ loop[w] = "send"
  /\ counts' = [counts EXCEPT !.total = @ + 1]
  /\ loop' = [loop EXCEPT ![w] = "record"]
  /\ UNCHANGED <<main, runVars, endVars, drawn, sent, reporterVars, fileVars>>

RecordOutcome(w) ==
  /\ loop[w] = "record"
  /\ counts' = [counts EXCEPT !.settled = @ + 1]
  /\ loop' = [loop EXCEPT ![w] = "next"]
  /\ UNCHANGED <<main, runVars, endVars, drawn, sent, reporterVars, fileVars>>

Work(w) == NextRequest(w) \/ Send(w) \/ RecordOutcome(w)

-----------------------------------------------------------------------------
(* The reporter of Run r, which nobody waits for. *)

At(r, where) == reporter' = [reporter EXCEPT ![r] = where]

\* reporterDone is closed, or the context is done.  A tick may win over both.
ReporterEnds(r) ==
  /\ reporter[r] = "select"
  /\ r < runs \/ main # "wait" \/ ctxDone
  /\ At(r, "off")
  /\ UNCHANGED <<main, runVars, endVars, workVars, snap, taken, fileVars>>

\* Snapshot reads the total and later the outcomes.
ReadTotal(r) ==
  /\ reporter[r] = "select" /\ taken < MaxSnapshots
  /\ taken' = taken + 1
  /\ snap' = [snap EXCEPT ![r] = [counts EXCEPT !.settled = 0]]
  /\ At(r, "read")
  /\ UNCHANGED <<main, runVars, endVars, workVars, fileVars>>

ReadOutcomes(r) ==
  /\ reporter[r] = "read"
  /\ snap' = [snap EXCEPT ![r].settled = counts.settled]
  /\ At(r, "add")
  /\ UNCHANGED <<main, runVars, endVars, workVars, taken, fileVars>>

AddSnapshot(r) ==
  /\ reporter[r] = "add"
  /\ report' = [report EXCEPT !.snapshots = Append(@, snap[r])]
  /\ snap' = [snap EXCEPT ![r] = Nothing]
  /\ At(r, "select")
  /\ UNCHANGED <<main, runVars, endVars, workVars, taken, final, saved>>

-----------------------------------------------------------------------------

Main ==
  \/ StartServers \/ Begin \/ Join \/ AddFinal \/ SetFinalResult \/ Save
  \/ StopServers \/ CloseClients

Next ==
  \/ Run \/ Stop \/ Main
  \/ \E w \in Workers : Work(w)
  \/ \E r \in RunIds : ReporterEnds(r) \/ ReadTotal(r) \/ ReadOutcomes(r) \/ AddSnapshot(r)
  \/ TimePasses \/ CtxEnds

Spec == Init /\ [][Next]_vars

\* Goroutines that can run do, the deadline and the timeout come, and a
\* reporter leaves the collector's mu again.  Nobody is obliged to call Run or
\* Stop, and no reporter to end.
Fairness ==
  /\ WF_vars(Main) /\ WF_vars(TimePasses) /\ WF_vars(CtxEnds)
  /\ \A w \in Workers : WF_vars(Work(w))
  /\ \A r \in RunIds : WF_vars(ReadOutcomes(r))

FairSpec == Spec /\ Fairness

-----------------------------------------------------------------------------

(***************************************************************************)
(* The order of Run and Stop: no server runs when Run starts them, so that *)
(* it cannot fail half-way with running set (line 197); after Stop the     *)
(* servers are down, the clients closed and no worker is left; and closing *)
(* stopCh panics only when a simulator that was stopped is run and stopped *)
(* again (line 500).                                                       *)
(***************************************************************************)
LifeCycle ==
  /\ main = "start" => ~serversUp
  /\ main = "panic" => runs > 1
  /\ main = "idle" /\ ~running /\ runs > 0 =>
       /\ ~serversUp /\ closed
       /\ \A w \in Workers : loop[w] = "off"

(***************************************************************************)
(* The report that Run saves: its final result counts every request sent,  *)
(* each with an outcome, and is in the list of snapshots.  A reporter that *)
(* was not waited for may add a snapshot behind it or one it took earlier, *)
(* but none of this Run that shows more (lines 231-252).                   *)
(***************************************************************************)
ReportComplete ==
  /\ main = "idle" /\ running /\ saved # NoReport =>
       /\ saved.final.total = sent /\ saved.final.settled = sent
       /\ saved.final \in Range(saved.snapshots)
  /\ \A s \in Range(saved.snapshots) :
       s.epoch = saved.final.epoch => s.total <= saved.final.total

(***************************************************************************)
(* Run and Stop come back, whichever way the workers end: by the number of *)
(* requests, by the deadline or only by the context (lines 287-342).       *)
(***************************************************************************)
CallsReturn == main \notin {"idle", "panic"} ~> main \in {"idle", "panic"}
=============================================================================
