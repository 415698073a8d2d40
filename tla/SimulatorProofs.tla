-------------------------- MODULE SimulatorProofs --------------------------
(***************************************************************************)
(* Proofs about the life cycle of a simulation and the report it saves,    *)
(* for every number of workers, requests, snapshots and calls of Run.  The *)
(* inductive invariant is SimulatorInv.                                    *)
(***************************************************************************)
EXTENDS Simulator, FiniteSetTheorems, SequenceTheorems, TLAPS

-----------------------------------------------------------------------------
(* The inductive invariant. *)

(***************************************************************************)
(* Where Run and Stop are decides what runs.  Closing stopCh for the first *)
(* time needs a Run before it, and closing it again another one.           *)
(***************************************************************************)
Cycle ==
  /\ main \in {"start", "reset", "wait", "add", "result", "save"} => running
  /\ main \in {"stop", "close", "panic"} => ~running
  /\ main \in {"start", "close"} => ~serversUp
  /\ main = "idle" /\ ~running => ~serversUp
  /\ main = "idle" /\ ~running /\ runs > 0 => closed
  /\ running \/ stopClosed => runs > 0
  /\ running /\ stopClosed => runs > 1
  /\ main = "panic" => runs > 1

\* The collector is reset once in every Run.
Epochs == counts.epoch = IF main \in {"start", "reset"} THEN runs - 1 ELSE runs

\* Workers run only while Run waits for them.
Joined == main # "wait" => \A w \in Workers : loop[w] = "off"

Sending == {w \in Workers : loop[w] = "send"}
Recording == {w \in Workers : loop[w] = "record"}

\* Every request sent is under way, being recorded, or settled.
Ledger ==
  /\ sent = counts.total + Cardinality(Sending)
  /\ counts.total = counts.settled + Cardinality(Recording)

\* What Run does with the final snapshot.
Finals ==
  /\ main \in {"add", "result", "save"} => final = counts
  /\ main \in {"result", "save"} => final \in Range(report.snapshots)
  /\ main = "save" => report.final = final

\* A snapshot of the present Run does not show more than there is.
Behind(s, c) ==
  /\ s.epoch <= c.epoch
  /\ s.epoch = c.epoch => s.total <= c.total

Snapshots ==
  /\ \A r \in RunIds : Behind(snap[r], counts)
  /\ \A s \in Range(report.snapshots) : Behind(s, counts)

SimulatorInv ==
  /\ TypeOK
  /\ Cycle
  /\ Epochs
  /\ Joined
  /\ Ledger
  /\ Finals
  /\ Snapshots
  /\ ReportComplete

-----------------------------------------------------------------------------
(* Counts and reports. *)

Reports == [snapshots : Seq(Counts), final : Counts]

LEMMA CountsFacts ==
  ASSUME NEW c \in Counts, NEW n \in Nat
  PROVE  /\ c.epoch \in 0..MaxRuns /\ c.total \in Nat /\ c.settled \in Nat
         /\ [c EXCEPT !.total = n] \in Counts
         /\ [c EXCEPT !.total = n].epoch = c.epoch
         /\ [c EXCEPT !.total = n].total = n
         /\ [c EXCEPT !.total = n].settled = c.settled
         /\ [c EXCEPT !.settled = n] \in Counts
         /\ [c EXCEPT !.settled = n].epoch = c.epoch
         /\ [c EXCEPT !.settled = n].total = c.total
         /\ [c EXCEPT !.settled = n].settled = n
  BY DEF Counts

LEMMA NothingFacts ==
  /\ Nothing \in Counts /\ Nothing.epoch = 0 /\ Nothing.total = 0 /\ Nothing.settled = 0
  /\ NoReport \in Reports /\ NoReport.snapshots = << >> /\ NoReport.final = Nothing
  <1>1. Nothing \in Counts /\ Nothing.epoch = 0 /\ Nothing.total = 0 /\ Nothing.settled = 0
    BY SimulatorAssumption DEF Nothing, Counts
  <1>2. << >> \in Seq(Counts)
    BY EmptySeq
  <1> QED BY <1>1, <1>2 DEF NoReport, Reports

LEMMA RangeAppend ==
  ASSUME NEW q \in Seq(Counts), NEW c \in Counts
  PROVE  Append(q, c) \in Seq(Counts) /\ Range(Append(q, c)) = Range(q) \cup {c}
  <1>1. /\ Append(q, c) \in Seq(Counts)
        /\ Len(Append(q, c)) = Len(q) + 1
        /\ \A i \in 1..Len(q) : Append(q, c)[i] = q[i]
        /\ Append(q, c)[Len(q) + 1] = c
    BY AppendProperties
  <1>2. DOMAIN q = 1..Len(q) /\ DOMAIN Append(q, c) = 1..(Len(q) + 1) /\ Len(q) \in Nat
    BY <1>1, LenProperties
  <1>3. 1..(Len(q) + 1) = (1..Len(q)) \cup {Len(q) + 1}
    BY <1>2
  <1> QED BY <1>1, <1>2, <1>3 DEF Range

\* AddSnapshot of the file writer.
LEMMA ReportAppend ==
  ASSUME NEW p \in Reports, NEW c \in Counts
  PROVE  /\ [p EXCEPT !.snapshots = Append(@, c)] \in Reports
         /\ [p EXCEPT !.snapshots = Append(@, c)].final = p.final
         /\ Range([p EXCEPT !.snapshots = Append(@, c)].snapshots) = Range(p.snapshots) \cup {c}
  <1>1. p.snapshots \in Seq(Counts) /\ p.final \in Counts
    BY DEF Reports
  <1>2. PICK q : q = Append(p.snapshots, c)
    OBVIOUS
  <1>3. q \in Seq(Counts) /\ Range(q) = Range(p.snapshots) \cup {c}
    BY <1>1, <1>2, RangeAppend
  <1>4. [p EXCEPT !.snapshots = Append(@, c)] = [p EXCEPT !.snapshots = q]
    BY <1>2
  <1>5. [p EXCEPT !.snapshots = q] \in Reports /\ [p EXCEPT !.snapshots = q].final = p.final
        /\ [p EXCEPT !.snapshots = q].snapshots = q
    BY <1>3 DEF Reports
  <1> QED BY <1>3, <1>4, <1>5

LEMMA StateTypes ==
  ASSUME TypeOK
  PROVE  /\ counts \in Counts /\ final \in Counts /\ report \in Reports /\ saved \in Reports
         /\ counts.epoch \in 0..MaxRuns /\ counts.total \in Nat /\ counts.settled \in Nat
         /\ \A r \in RunIds : snap[r] \in Counts /\ snap[r].epoch \in Nat /\ snap[r].total \in Nat
         /\ sent \in Nat /\ runs \in Nat
         /\ loop \in [Workers -> {"off", "next", "send", "record"}]
         /\ reporter \in [RunIds -> {"off", "select", "read", "add"}]
         /\ snap \in [RunIds -> Counts]
  <1>1. /\ counts \in Counts /\ final \in Counts /\ report \in Reports /\ saved \in Reports
        /\ snap \in [RunIds -> Counts]
    BY DEF TypeOK, Reports
  <1>2. \A r \in RunIds : snap[r] \in Counts
    BY <1>1
  <1>3. \A c \in Counts : c.epoch \in 0..MaxRuns /\ c.epoch \in Nat /\ c.total \in Nat
                        /\ c.settled \in Nat
    BY SimulatorAssumption DEF Counts
  <1>4. sent \in Nat /\ runs \in Nat
    BY SimulatorAssumption DEF TypeOK
  <1> QED BY <1>1, <1>2, <1>3, <1>4 DEF TypeOK

\* The steps of the workers, seen from the collector.
LEMMA CountsStep ==
  ASSUME TypeOK, [Next]_vars
  PROVE  \/ counts' = counts
         \/ Begin /\ counts' = [Nothing EXCEPT !.epoch = counts.epoch + 1]
         \/ \E w \in Workers : Send(w) /\ counts' = [counts EXCEPT !.total = counts.total + 1]
         \/ \E w \in Workers :
              RecordOutcome(w) /\ counts' = [counts EXCEPT !.settled = counts.settled + 1]
  <1>1. ASSUME NEW w \in Workers, Work(w)
        PROVE  \/ counts' = counts
               \/ Send(w) /\ counts' = [counts EXCEPT !.total = counts.total + 1]
               \/ RecordOutcome(w) /\ counts' = [counts EXCEPT !.settled = counts.settled + 1]
    BY <1>1 DEF Work, NextRequest, Send, RecordOutcome
  <1>2. CASE Main
    BY <1>2 DEF Main, StartServers, Begin, Join, AddFinal, SetFinalResult, Save, StopServers,
       CloseClients, workVars
  <1>3. CASE Run \/ Stop \/ TimePasses \/ CtxEnds
    BY <1>3 DEF Run, Stop, TimePasses, CtxEnds, workVars
  <1>4. ASSUME NEW r \in RunIds,
               ReporterEnds(r) \/ ReadTotal(r) \/ ReadOutcomes(r) \/ AddSnapshot(r)
        PROVE  counts' = counts
    BY <1>4 DEF ReporterEnds, ReadTotal, ReadOutcomes, AddSnapshot, workVars
  <1>5. CASE UNCHANGED vars
    BY <1>5 DEF vars, workVars
  <1> QED BY <1>1, <1>2, <1>3, <1>4, <1>5 DEF Next

-----------------------------------------------------------------------------
(* Every conjunct of the invariant is kept. *)

LEMMA TypeStep ==
  ASSUME TypeOK, Epochs, [Next]_vars
  PROVE  TypeOK'
  <1>a. /\ counts \in Counts /\ final \in Counts /\ report \in Reports /\ saved \in Reports
        /\ counts.epoch \in 0..MaxRuns /\ counts.total \in Nat /\ counts.settled \in Nat
        /\ runs \in 0..MaxRuns /\ MaxRuns \in Nat
        /\ snap \in [RunIds -> Counts]
    BY StateTypes, SimulatorAssumption DEF TypeOK
  <1>1. CASE Run
    BY <1>1, SimulatorAssumption DEF Run, TypeOK, endVars, workVars, reporterVars, fileVars
  <1>2. CASE StartServers \/ StopServers \/ CloseClients
    BY <1>2 DEF StartServers, StopServers, CloseClients, TypeOK, endVars, workVars, reporterVars,
       fileVars
  <1>3. CASE Begin
    <2>1. counts.epoch + 1 \in 0..MaxRuns /\ runs \in RunIds
      BY <1>a, <1>3 DEF Begin, Epochs, RunIds
    <2>2. counts' \in Counts
      BY <1>3, <2>1 DEF Begin, Nothing, Counts
    <2>3. loop' \in [Workers -> {"off", "next", "send", "record"}]
      BY <1>3 DEF Begin
    <2>4. reporter' \in [RunIds -> {"off", "select", "read", "add"}]
      BY <1>3, <2>1 DEF Begin, TypeOK
    <2>5. drawn' \in Nat /\ sent' \in 0..MaxSent
      BY <1>3, SimulatorAssumption DEF Begin
    <2>6. /\ timeUp' = FALSE /\ main' = "wait"
          /\ UNCHANGED <<runVars, ctxDone, snap, taken, fileVars>>
      BY <1>3 DEF Begin
    <2> QED BY <2>2, <2>3, <2>4, <2>5, <2>6 DEF TypeOK, runVars, fileVars
  <1>4. CASE Join
    BY <1>a, <1>4 DEF Join, TypeOK, runVars, endVars, workVars, reporterVars
  <1>5. CASE AddFinal
    <2>1. report' \in Reports
      BY <1>a, <1>5, ReportAppend DEF AddFinal
    <2> QED BY <1>5, <2>1 DEF AddFinal, TypeOK, Reports, runVars, endVars, workVars, reporterVars
  <1>6. CASE SetFinalResult
    <2>1. report' \in Reports
      BY <1>a, <1>6 DEF SetFinalResult, Reports
    <2> QED BY <1>6, <2>1 DEF SetFinalResult, TypeOK, Reports, runVars, endVars, workVars,
            reporterVars
  <1>7. CASE Save
    <2>1. saved' \in Reports
      BY <1>a, <1>7, NothingFacts DEF Save
    <2> QED BY <1>7, <2>1 DEF Save, TypeOK, Reports, runVars, workVars, reporterVars
  <1>8. CASE Stop
    BY <1>8 DEF Stop, TypeOK, endVars, workVars, reporterVars, fileVars
  <1>9. CASE TimePasses \/ CtxEnds
    BY <1>9 DEF TimePasses, CtxEnds, TypeOK, runVars, workVars, reporterVars, fileVars
  <1>10. ASSUME NEW w \in Workers, NextRequest(w) PROVE TypeOK'
    <2>1. drawn' \in Nat
      BY <1>10 DEF NextRequest, TypeOK
    <2>2. sent' \in 0..MaxSent
      BY <1>10, SimulatorAssumption DEF NextRequest, TypeOK
    <2>3. loop' \in [Workers -> {"off", "next", "send", "record"}]
      BY <1>10 DEF NextRequest, TypeOK
    <2> QED BY <1>10, <2>1, <2>2, <2>3 DEF NextRequest, TypeOK, runVars, endVars, reporterVars,
            fileVars
  <1>11. ASSUME NEW w \in Workers, Send(w) \/ RecordOutcome(w) PROVE TypeOK'
    <2>1. counts' \in Counts
      <3>1. \/ counts' = [counts EXCEPT !.total = counts.total + 1]
            \/ counts' = [counts EXCEPT !.settled = counts.settled + 1]
        BY <1>11 DEF Send, RecordOutcome
      <3>2. counts.total + 1 \in Nat /\ counts.settled + 1 \in Nat
        BY <1>a
      <3>3. /\ [counts EXCEPT !.total = counts.total + 1] \in Counts
            /\ [counts EXCEPT !.settled = counts.settled + 1] \in Counts
        BY <1>a, <3>2, CountsFacts, Zenon
      <3> QED BY <3>1, <3>3
    <2>2. loop' \in [Workers -> {"off", "next", "send", "record"}]
      BY <1>11 DEF Send, RecordOutcome, TypeOK
    <2> QED BY <1>11, <2>1, <2>2 DEF Send, RecordOutcome, TypeOK, runVars, endVars, reporterVars,
            fileVars
  <1>12. ASSUME NEW r \in RunIds,
                ReporterEnds(r) \/ ReadTotal(r) \/ ReadOutcomes(r) \/ AddSnapshot(r)
         PROVE  TypeOK'
    <2>1. reporter' \in [RunIds -> {"off", "select", "read", "add"}]
      BY <1>12 DEF ReporterEnds, ReadTotal, ReadOutcomes, AddSnapshot, At, TypeOK
    <2>2. taken' \in 0..MaxSnapshots
      BY <1>12, SimulatorAssumption DEF ReporterEnds, ReadTotal, ReadOutcomes, AddSnapshot, TypeOK
    <2>3. snap' \in [RunIds -> Counts]
      <3>1. CASE ReporterEnds(r)
        BY <1>a, <3>1 DEF ReporterEnds
      <3>2. CASE ReadTotal(r)
        <4>1. [counts EXCEPT !.settled = 0] \in Counts
          BY <1>a, CountsFacts
        <4> QED BY <1>a, <3>2, <4>1 DEF ReadTotal
      <3>3. CASE ReadOutcomes(r)
        <4>1. snap[r] \in Counts
          BY <1>a
        <4>2. [snap[r] EXCEPT !.settled = counts.settled] \in Counts
          BY <1>a, <4>1, CountsFacts
        <4> QED BY <1>a, <3>3, <4>2 DEF ReadOutcomes
      <3>4. CASE AddSnapshot(r)
        BY <1>a, <3>4, NothingFacts DEF AddSnapshot
      <3> QED BY <1>12, <3>1, <3>2, <3>3, <3>4
    <2>4. report' \in Reports
      <3>1. CASE AddSnapshot(r)
        <4>1. snap[r] \in Counts
          BY <1>a
        <4> QED BY <1>a, <3>1, <4>1, ReportAppend DEF AddSnapshot
      <3>2. CASE ~AddSnapshot(r)
        BY <1>a, <1>12, <3>2 DEF ReporterEnds, ReadTotal, ReadOutcomes, fileVars
      <3> QED BY <3>1, <3>2
    <2>5. UNCHANGED <<main, runVars, endVars, workVars, final, saved>>
      BY <1>12 DEF ReporterEnds, ReadTotal, ReadOutcomes, AddSnapshot, fileVars
    <2> QED BY <2>1, <2>2, <2>3, <2>4, <2>5 DEF TypeOK, Reports, runVars, endVars, workVars
  <1>13. CASE UNCHANGED vars
    BY <1>13 DEF vars, TypeOK, runVars, endVars, workVars, reporterVars, fileVars
  <1> QED BY <1>1, <1>2, <1>3, <1>4, <1>5, <1>6, <1>7, <1>8, <1>9, <1>10, <1>11, <1>12, <1>13
          DEF Next, Main, Work

\* Steps of workers and reporters do not touch the state of Run and Stop.
Goroutines ==
  \/ \E w \in Workers : Work(w)
  \/ \E r \in RunIds : ReporterEnds(r) \/ ReadTotal(r) \/ ReadOutcomes(r) \/ AddSnapshot(r)
  \/ TimePasses \/ CtxEnds

LEMMA GoroutinesKeep ==
  ASSUME Goroutines \/ UNCHANGED vars
  PROVE  UNCHANGED <<main, runVars>>
  BY DEF Goroutines, Work, NextRequest, Send, RecordOutcome, ReporterEnds, ReadTotal, ReadOutcomes,
     AddSnapshot, TimePasses, CtxEnds, vars

LEMMA CycleStep ==
  ASSUME TypeOK, Cycle, [Next]_vars
  PROVE  Cycle'
  <1>a. runs \in Nat
    BY StateTypes
  <1>1. CASE Run
    BY <1>a, <1>1 DEF Run, Cycle
  <1>2. CASE StartServers
    BY <1>a, <1>2 DEF StartServers, Cycle
  <1>3. CASE Begin \/ Join \/ AddFinal \/ SetFinalResult \/ Save
    BY <1>a, <1>3 DEF Begin, Join, AddFinal, SetFinalResult, Save, Cycle, runVars
  <1>4. CASE Stop
    BY <1>a, <1>4 DEF Stop, Cycle, TypeOK
  <1>5. CASE StopServers \/ CloseClients
    BY <1>a, <1>5 DEF StopServers, CloseClients, Cycle
  <1>6. CASE Goroutines \/ UNCHANGED vars
    BY <1>6, GoroutinesKeep DEF Cycle, runVars
  <1> QED BY <1>1, <1>2, <1>3, <1>4, <1>5, <1>6 DEF Next, Main, Goroutines

LEMMA EpochsStep ==
  ASSUME TypeOK, Epochs, [Next]_vars
  PROVE  Epochs'
  <1>a. /\ counts.epoch \in Nat /\ runs \in Nat
        /\ counts \in Counts /\ counts.total + 1 \in Nat /\ counts.settled + 1 \in Nat
    BY StateTypes, SimulatorAssumption
  <1>1. CASE Begin
    <2>1. counts'.epoch = counts.epoch + 1 /\ main' = "wait" /\ main = "reset" /\ runs' = runs
      BY <1>1 DEF Begin, Nothing, runVars
    <2> QED BY <1>a, <2>1 DEF Epochs
  <1>2. CASE ~Begin
    <2>1. counts'.epoch = counts.epoch
      <3>1. /\ [counts EXCEPT !.total = counts.total + 1].epoch = counts.epoch
            /\ [counts EXCEPT !.settled = counts.settled + 1].epoch = counts.epoch
        BY <1>a, CountsFacts, Zenon
      <3> QED BY <1>2, <3>1, CountsStep
    <2>2. CASE Run
      <3>1. main = "idle" /\ main' = "start" /\ runs' = runs + 1
        BY <2>2 DEF Run
      <3> QED BY <1>a, <2>1, <3>1 DEF Epochs
    <2>3. CASE Stop \/ Main
      <3>1. runs' = runs /\ (main \in {"start", "reset"} <=> main' \in {"start", "reset"})
        BY <1>2, <2>3 DEF Stop, Main, StartServers, Join, AddFinal, SetFinalResult, Save,
           StopServers, CloseClients, runVars
      <3> QED BY <2>1, <3>1 DEF Epochs
    <2>4. CASE Goroutines \/ UNCHANGED vars
      BY <2>1, <2>4, GoroutinesKeep DEF Epochs, runVars
    <2> QED BY <2>2, <2>3, <2>4 DEF Next, Goroutines
  <1> QED BY <1>1, <1>2

LEMMA JoinedStep ==
  ASSUME TypeOK, Joined, [Next]_vars
  PROVE  Joined'
  <1>1. CASE Begin
    BY <1>1 DEF Begin, Joined
  <1>2. ASSUME NEW w \in Workers, Work(w) PROVE Joined'
    <2>1. main = "wait" /\ main' = main
      BY <1>2 DEF Work, NextRequest, Send, RecordOutcome, Joined
    <2> QED BY <2>1 DEF Joined
  <1>3. CASE Join
    BY <1>3 DEF Join, Joined, workVars
  <1>4. ASSUME loop' = loop, main = "wait" => main' = "wait" PROVE Joined'
    BY <1>4 DEF Joined
  <1>5. CASE Run \/ Stop \/ (Main /\ ~Begin /\ ~Join)
    BY <1>4, <1>5 DEF Run, Stop, Main, StartServers, AddFinal, SetFinalResult, Save, StopServers,
       CloseClients, workVars
  <1>6. CASE TimePasses \/ CtxEnds \/ UNCHANGED vars
    BY <1>4, <1>6 DEF TimePasses, CtxEnds, vars, workVars
  <1>7. ASSUME NEW r \in RunIds,
               ReporterEnds(r) \/ ReadTotal(r) \/ ReadOutcomes(r) \/ AddSnapshot(r)
        PROVE  Joined'
    BY <1>4, <1>7 DEF ReporterEnds, ReadTotal, ReadOutcomes, AddSnapshot, workVars
  <1> QED BY <1>1, <1>2, <1>3, <1>5, <1>6, <1>7 DEF Next

LEMMA LedgerStep ==
  ASSUME TypeOK, Joined, Ledger, [Next]_vars
  PROVE  Ledger'
  <1>a. /\ counts \in Counts /\ counts.total \in Nat /\ counts.settled \in Nat /\ sent \in Nat
        /\ loop \in [Workers -> {"off", "next", "send", "record"}]
    BY StateTypes
  <1>b. /\ IsFiniteSet(Sending) /\ Cardinality(Sending) \in Nat
        /\ IsFiniteSet(Recording) /\ Cardinality(Recording) \in Nat
    BY SimulatorAssumption, FS_Subset, FS_CardinalityType DEF Sending, Recording
  <1>0. ASSUME UNCHANGED <<loop, sent, counts>> PROVE Ledger'
    BY <1>0 DEF Ledger, Sending, Recording
  <1>1. CASE Begin
    <2>1. Sending' = {} /\ Recording' = {}
      BY <1>1 DEF Begin, Sending, Recording
    <2>2. sent' = 0 /\ counts'.total = 0 /\ counts'.settled = 0
      BY <1>1 DEF Begin, Nothing
    <2> QED BY <2>1, <2>2, FS_EmptySet DEF Ledger
  <1>2. ASSUME NEW w \in Workers, NextRequest(w) PROVE Ledger'
    <2>1. counts' = counts /\ w \notin Sending /\ w \notin Recording
      BY <1>2 DEF NextRequest, Sending, Recording
    <2>2. CASE loop' = [loop EXCEPT ![w] = "off"] /\ sent' = sent
      <3>1. Sending' = Sending /\ Recording' = Recording
        BY <1>a, <2>1, <2>2 DEF Sending, Recording
      <3> QED BY <2>1, <2>2, <3>1 DEF Ledger
    <2>3. CASE loop' = [loop EXCEPT ![w] = "send"] /\ sent' = sent + 1
      <3>1. Sending' = Sending \cup {w} /\ Recording' = Recording
        BY <1>a, <2>1, <2>3 DEF Sending, Recording
      <3>2. Cardinality(Sending') = Cardinality(Sending) + 1
        BY <1>b, <2>1, <3>1, FS_AddElement
      <3> QED BY <1>a, <1>b, <2>1, <2>3, <3>1, <3>2 DEF Ledger
    <2> QED BY <1>2, <2>2, <2>3 DEF NextRequest
  <1>3. ASSUME NEW w \in Workers, Send(w) PROVE Ledger'
    <2>1. /\ w \in Sending /\ w \notin Recording /\ sent' = sent
          /\ counts' = [counts EXCEPT !.total = counts.total + 1]
      BY <1>3 DEF Send, Sending, Recording
    <2>2. counts'.total = counts.total + 1 /\ counts'.settled = counts.settled
      BY <1>a, <2>1 DEF Counts
    <2>3. Sending' = Sending \ {w} /\ Recording' = Recording \cup {w}
      BY <1>a, <1>3 DEF Send, Sending, Recording
    <2>4. Cardinality(Sending') = Cardinality(Sending) - 1
      BY <1>b, <2>1, <2>3, FS_RemoveElement
    <2>5. Cardinality(Recording') = Cardinality(Recording) + 1
      BY <1>b, <2>1, <2>3, FS_AddElement
    <2> QED BY <1>a, <1>b, <2>1, <2>2, <2>4, <2>5 DEF Ledger
  <1>4. ASSUME NEW w \in Workers, RecordOutcome(w) PROVE Ledger'
    <2>1. /\ w \in Recording /\ w \notin Sending /\ sent' = sent
          /\ counts' = [counts EXCEPT !.settled = counts.settled + 1]
      BY <1>4 DEF RecordOutcome, Sending, Recording
    <2>2. counts'.total = counts.total /\ counts'.settled = counts.settled + 1
      BY <1>a, <2>1 DEF Counts
    <2>3. Sending' = Sending /\ Recording' = Recording \ {w}
      BY <1>a, <1>4 DEF RecordOutcome, Sending, Recording
    <2>4. Cardinality(Recording') = Cardinality(Recording) - 1
      BY <1>b, <2>1, <2>3, FS_RemoveElement
    <2> QED BY <1>a, <1>b, <2>1, <2>2, <2>3, <2>4 DEF Ledger
  <1>5. CASE Run \/ Stop \/ (Main /\ ~Begin)
    BY <1>0, <1>5 DEF Run, Stop, Main, StartServers, Join, AddFinal, SetFinalResult, Save,
       StopServers, CloseClients, workVars
  <1>6. CASE TimePasses \/ CtxEnds \/ UNCHANGED vars
    BY <1>0, <1>6 DEF TimePasses, CtxEnds, vars, workVars
  <1>7. ASSUME NEW r \in RunIds,
               ReporterEnds(r) \/ ReadTotal(r) \/ ReadOutcomes(r) \/ AddSnapshot(r)
        PROVE  Ledger'
    BY <1>0, <1>7 DEF ReporterEnds, ReadTotal, ReadOutcomes, AddSnapshot, workVars
  <1> QED BY <1>1, <1>2, <1>3, <1>4, <1>5, <1>6, <1>7 DEF Next, Work

LEMMA FinalsStep ==
  ASSUME TypeOK, Joined, Finals, [Next]_vars
  PROVE  Finals'
  <1>a. counts \in Counts /\ final \in Counts /\ report \in Reports
    BY StateTypes
  <1>0. ASSUME UNCHANGED <<main, counts, final, report>> PROVE Finals'
    BY <1>0 DEF Finals
  <1>1. CASE Join
    BY <1>1 DEF Join, Finals, workVars
  <1>2. CASE AddFinal
    <2>1. final \in Range(report'.snapshots)
      BY <1>a, <1>2, ReportAppend DEF AddFinal
    <2>2. main = "add" /\ main' = "result" /\ final' = final /\ counts' = counts
      BY <1>2 DEF AddFinal, workVars
    <2> QED BY <2>1, <2>2 DEF Finals
  <1>3. CASE SetFinalResult
    <2>1. report'.final = final /\ report'.snapshots = report.snapshots
      BY <1>a, <1>3 DEF SetFinalResult, Reports
    <2>2. main = "result" /\ main' = "save" /\ final' = final /\ counts' = counts
      BY <1>3 DEF SetFinalResult, workVars
    <2> QED BY <2>1, <2>2 DEF Finals
  <1>4. CASE Run \/ Stop \/ StartServers \/ Begin \/ Save \/ StopServers \/ CloseClients
    <2>1. main' \notin {"add", "result", "save"}
      BY <1>4 DEF Run, Stop, StartServers, Begin, Save, StopServers, CloseClients
    <2> QED BY <2>1 DEF Finals
  <1>5. ASSUME NEW w \in Workers, Work(w) PROVE Finals'
    <2>1. main' = "wait"
      BY <1>5 DEF Work, NextRequest, Send, RecordOutcome, Joined
    <2> QED BY <2>1 DEF Finals
  <1>6. ASSUME NEW r \in RunIds, AddSnapshot(r) PROVE Finals'
    <2>1. snap[r] \in Counts
      BY StateTypes
    <2>2. report'.final = report.final /\ Range(report.snapshots) \subseteq Range(report'.snapshots)
      BY <1>a, <1>6, <2>1, ReportAppend DEF AddSnapshot
    <2>3. UNCHANGED <<main, counts, final>>
      BY <1>6 DEF AddSnapshot, workVars
    <2> QED BY <2>2, <2>3 DEF Finals
  <1>7. ASSUME NEW r \in RunIds, ReporterEnds(r) \/ ReadTotal(r) \/ ReadOutcomes(r)
        PROVE  Finals'
    BY <1>0, <1>7 DEF ReporterEnds, ReadTotal, ReadOutcomes, workVars, fileVars
  <1>8. CASE TimePasses \/ CtxEnds \/ UNCHANGED vars
    BY <1>0, <1>8 DEF TimePasses, CtxEnds, vars, workVars, fileVars
  <1> QED BY <1>1, <1>2, <1>3, <1>4, <1>5, <1>6, <1>7, <1>8 DEF Next, Main

\* The collector moves on: what was behind it stays behind.
LEMMA BehindStep ==
  ASSUME TypeOK, [Next]_vars, NEW s \in Counts, Behind(s, counts)
  PROVE  Behind(s, counts')
  <1>a. /\ counts \in Counts /\ counts.epoch \in Nat /\ counts.total \in Nat
        /\ counts.settled \in Nat /\ s.epoch \in Nat /\ s.total \in Nat
    BY StateTypes, SimulatorAssumption DEF Counts
  <1>1. CASE counts' = counts
    BY <1>1 DEF Behind
  <1>2. CASE counts' = [Nothing EXCEPT !.epoch = counts.epoch + 1]
    <2>1. counts'.epoch = counts.epoch + 1
      BY <1>2 DEF Nothing
    <2> QED BY <1>a, <2>1 DEF Behind
  <1>3. CASE counts' = [counts EXCEPT !.total = counts.total + 1]
    <2>1. counts'.epoch = counts.epoch /\ counts'.total = counts.total + 1
      BY <1>a, <1>3 DEF Counts
    <2> QED BY <1>a, <2>1 DEF Behind
  <1>4. CASE counts' = [counts EXCEPT !.settled = counts.settled + 1]
    <2>1. counts'.epoch = counts.epoch /\ counts'.total = counts.total
      BY <1>a, <1>4 DEF Counts
    <2> QED BY <2>1 DEF Behind
  <1> QED BY <1>1, <1>2, <1>3, <1>4, CountsStep

LEMMA SnapshotsStep ==
  ASSUME TypeOK, Finals, Snapshots, [Next]_vars
  PROVE  Snapshots'
  <1>a. /\ counts \in Counts /\ final \in Counts /\ report \in Reports
        /\ counts.epoch \in Nat /\ counts.total \in Nat
        /\ snap \in [RunIds -> Counts] /\ \A r \in RunIds : snap[r] \in Counts
    BY StateTypes, SimulatorAssumption
  <1>b. \A s \in Range(report.snapshots) : s \in Counts
    <2>1. report.snapshots \in Seq(Counts)
      BY <1>a DEF Reports
    <2>2. DOMAIN report.snapshots = 1..Len(report.snapshots)
          /\ \A i \in 1..Len(report.snapshots) : report.snapshots[i] \in Counts
      BY <2>1, LenProperties, ElementOfSeq
    <2> QED BY <2>2 DEF Range
  <1>1. \A s \in Range(report.snapshots) : Behind(s, counts')
    BY <1>b, BehindStep DEF Snapshots
  <1>2. \A r \in RunIds : Behind(snap[r], counts')
    BY <1>a, BehindStep DEF Snapshots
  <1>0. ASSUME snap' = snap, report'.snapshots = report.snapshots PROVE Snapshots'
    BY <1>0, <1>1, <1>2 DEF Snapshots
  <1>3. CASE AddFinal
    <2>1. final = counts /\ counts' = counts /\ snap' = snap
      BY <1>3 DEF AddFinal, Finals, workVars, reporterVars
    <2>2. Range(report'.snapshots) = Range(report.snapshots) \cup {final}
      BY <1>a, <1>3, ReportAppend DEF AddFinal
    <2>3. Behind(final, counts')
      BY <1>a, <2>1 DEF Behind
    <2> QED BY <1>1, <1>2, <2>1, <2>2, <2>3 DEF Snapshots
  <1>4. CASE SetFinalResult
    <2>1. report'.snapshots = report.snapshots /\ snap' = snap
      BY <1>a, <1>4 DEF SetFinalResult, Reports, reporterVars
    <2> QED BY <1>0, <2>1
  <1>5. CASE Run \/ Stop \/ StartServers \/ Begin \/ Join \/ Save \/ StopServers \/ CloseClients
    BY <1>0, <1>5 DEF Run, Stop, StartServers, Begin, Join, Save, StopServers, CloseClients,
       reporterVars, fileVars
  <1>6. ASSUME NEW w \in Workers, Work(w) PROVE Snapshots'
    BY <1>0, <1>6 DEF Work, NextRequest, Send, RecordOutcome, reporterVars, fileVars
  <1>7. ASSUME NEW r \in RunIds, NEW n, snap' = [snap EXCEPT ![r] = n], Behind(n, counts'),
               \A s \in Range(report'.snapshots) : Behind(s, counts')
        PROVE  Snapshots'
    <2>1. \A q \in RunIds : snap'[q] = IF q = r THEN n ELSE snap[q]
      BY <1>a, <1>7
    <2> QED BY <1>2, <1>7, <2>1 DEF Snapshots
  <1>8. ASSUME NEW r \in RunIds, ReadTotal(r) PROVE Snapshots'
    <2>1. PICK n : n = [counts EXCEPT !.settled = 0]
      OBVIOUS
    <2>2. /\ snap' = [snap EXCEPT ![r] = n] /\ counts' = counts /\ report' = report
      BY <1>8, <2>1 DEF ReadTotal, workVars, fileVars
    <2>3. n.epoch = counts.epoch /\ n.total = counts.total
      BY <1>a, <2>1 DEF Counts
    <2>4. Behind(n, counts')
      BY <1>a, <2>2, <2>3 DEF Behind
    <2> QED BY <1>1, <1>7, <2>2, <2>4
  <1>9. ASSUME NEW r \in RunIds, ReadOutcomes(r) PROVE Snapshots'
    <2>1. PICK n : n = [snap[r] EXCEPT !.settled = counts.settled]
      OBVIOUS
    <2>2. /\ snap' = [snap EXCEPT ![r] = n] /\ report' = report
      BY <1>9, <2>1 DEF ReadOutcomes, fileVars
    <2>3. n.epoch = snap[r].epoch /\ n.total = snap[r].total
      BY <1>a, <2>1 DEF Counts
    <2>4. Behind(n, counts')
      BY <1>2, <2>3 DEF Behind
    <2> QED BY <1>1, <1>7, <2>2, <2>4
  <1>10. ASSUME NEW r \in RunIds, AddSnapshot(r) PROVE Snapshots'
    <2>1. snap' = [snap EXCEPT ![r] = Nothing] /\ counts' = counts
      BY <1>10 DEF AddSnapshot, workVars
    <2>2. Range(report'.snapshots) = Range(report.snapshots) \cup {snap[r]}
      <3>1. snap[r] \in Counts
        BY <1>a
      <3> QED BY <1>a, <1>10, <3>1, ReportAppend DEF AddSnapshot
    <2>3. Behind(Nothing, counts')
      BY <1>a, <2>1, NothingFacts DEF Behind
    <2> QED BY <1>1, <1>2, <1>7, <2>1, <2>2, <2>3
  <1>11. ASSUME NEW r \in RunIds, ReporterEnds(r) PROVE Snapshots'
    BY <1>0, <1>11 DEF ReporterEnds, fileVars
  <1>12. CASE TimePasses \/ CtxEnds \/ UNCHANGED vars
    BY <1>0, <1>12 DEF TimePasses, CtxEnds, vars, reporterVars, fileVars
  <1> QED BY <1>3, <1>4, <1>5, <1>6, <1>8, <1>9, <1>10, <1>11, <1>12 DEF Next, Main

LEMMA ReportStep ==
  ASSUME TypeOK, Cycle, Joined, Ledger, Finals, Snapshots, ReportComplete, [Next]_vars
  PROVE  ReportComplete'
  <1>0. ASSUME UNCHANGED saved,
               main' = "idle" /\ running' => main = "idle" /\ running /\ sent' = sent
        PROVE  ReportComplete'
    BY <1>0 DEF ReportComplete
  <1>1. CASE Save
    <2>1. /\ main = "save" /\ UNCHANGED <<sent, counts, loop>> /\ saved' \in {report, NoReport}
      BY <1>1 DEF Save, workVars
    <2>2. CASE saved' = NoReport
      <3>1. Range(saved'.snapshots) = {}
        BY <2>2, NothingFacts DEF Range
      <3> QED BY <2>2, <3>1 DEF ReportComplete
    <2>3. CASE saved' = report
      <3>1. report.final = counts /\ counts \in Range(report.snapshots)
        BY <2>1 DEF Finals
      <3>2. \A s \in Range(report.snapshots) : s.epoch = counts.epoch => s.total <= counts.total
        BY DEF Snapshots, Behind
      <3>3. counts.total = sent /\ counts.settled = sent
        <4>1. Sending = {} /\ Recording = {}
          BY <2>1 DEF Joined, Sending, Recording
        <4>2. counts.total \in Nat /\ counts.settled \in Nat /\ Cardinality({}) = 0
          BY StateTypes, FS_EmptySet
        <4> QED BY <4>1, <4>2 DEF Ledger
      <3> QED BY <2>1, <2>3, <3>1, <3>2, <3>3 DEF ReportComplete
    <2> QED BY <2>1, <2>2, <2>3
  <1>2. CASE Run \/ Stop \/ (Main /\ ~Save)
    <2>1. saved' = saved
      BY <1>2 DEF Run, Stop, Main, StartServers, Begin, Join, AddFinal, SetFinalResult,
         StopServers, CloseClients, fileVars
    <2>2. ~(main' = "idle" /\ running')
      BY <1>2 DEF Run, Stop, Main, StartServers, Begin, Join, AddFinal, SetFinalResult,
         StopServers, CloseClients, Cycle
    <2> QED BY <1>0, <2>1, <2>2
  <1>3. ASSUME NEW w \in Workers, Work(w) PROVE ReportComplete'
    <2>1. main' = "wait" /\ saved' = saved
      BY <1>3 DEF Work, NextRequest, Send, RecordOutcome, Joined, fileVars
    <2> QED BY <1>0, <2>1
  <1>4. ASSUME NEW r \in RunIds,
               ReporterEnds(r) \/ ReadTotal(r) \/ ReadOutcomes(r) \/ AddSnapshot(r)
        PROVE  ReportComplete'
    BY <1>0, <1>4 DEF ReporterEnds, ReadTotal, ReadOutcomes, AddSnapshot, workVars, runVars,
       fileVars
  <1>5. CASE TimePasses \/ CtxEnds \/ UNCHANGED vars
    BY <1>0, <1>5 DEF TimePasses, CtxEnds, vars, workVars, runVars, fileVars
  <1> QED BY <1>1, <1>2, <1>3, <1>4, <1>5 DEF Next

-----------------------------------------------------------------------------
(* The theorems. *)

LEMMA InitSimulatorInv == Init => SimulatorInv
  <1> SUFFICES ASSUME Init PROVE SimulatorInv
    OBVIOUS
  <1>1. TypeOK
    <2>1. counts \in Counts /\ final \in Counts /\ report \in Reports /\ saved \in Reports
          /\ snap \in [RunIds -> Counts]
      BY NothingFacts DEF Init
    <2>2. runs \in 0..MaxRuns /\ sent \in 0..MaxSent /\ taken \in 0..MaxSnapshots /\ drawn \in Nat
      BY SimulatorAssumption DEF Init
    <2>3. /\ loop \in [Workers -> {"off", "next", "send", "record"}]
          /\ reporter \in [RunIds -> {"off", "select", "read", "add"}]
      BY DEF Init
    <2>4. /\ endBy \in EndsBy /\ main = "idle"
          /\ running = FALSE /\ stopClosed = FALSE /\ serversUp = FALSE /\ closed = FALSE
          /\ timeUp = FALSE /\ ctxDone = FALSE
      BY DEF Init
    <2> QED BY <2>1, <2>2, <2>3, <2>4 DEF TypeOK, Reports
  <1>2. Cycle
    BY DEF Init, Cycle
  <1>3. Epochs /\ Joined
    BY NothingFacts DEF Init, Epochs, Joined
  <1>4. Ledger
    <2>1. Sending = {} /\ Recording = {}
      BY DEF Init, Sending, Recording
    <2>2. sent = 0 /\ counts.total = 0 /\ counts.settled = 0
      BY NothingFacts DEF Init
    <2> QED BY <2>1, <2>2, FS_EmptySet DEF Ledger
  <1>5. Range(report.snapshots) = {} /\ Range(saved.snapshots) = {}
    BY NothingFacts DEF Init, Range
  <1>6. Finals
    BY DEF Init, Finals
  <1>7. Snapshots
    BY <1>5, NothingFacts DEF Init, Snapshots, Behind
  <1>8. ReportComplete
    BY <1>5 DEF Init, ReportComplete
  <1> QED BY <1>1, <1>2, <1>3, <1>4, <1>6, <1>7, <1>8 DEF SimulatorInv

LEMMA NextSimulatorInv == SimulatorInv /\ [Next]_vars => SimulatorInv'
  BY TypeStep, CycleStep, EpochsStep, JoinedStep, LedgerStep, FinalsStep, SnapshotsStep,
     ReportStep DEF SimulatorInv

LEMMA SimulatorInvariant == Spec => []SimulatorInv
  BY InitSimulatorInv, NextSimulatorInv, PTL DEF Spec

(***************************************************************************)
(* The state of a simulation has its type; in particular Run starts the    *)
(* reporter of a Run that has begun and resets the collector once in each. *)
(***************************************************************************)
THEOREM SimulatorTypes == Spec => []TypeOK
  BY SimulatorInvariant, PTL DEF SimulatorInv

(***************************************************************************)
(* Run and Stop of simulator.go leave nothing behind, whichever way the    *)
(* workers end and however often the two are called: Run never meets a     *)
(* server that runs, Stop leaves no server, client or worker, and closing  *)
(* stopCh panics only from the second Run on.                              *)
(***************************************************************************)
THEOREM SimulatorLifeCycle == Spec => []LifeCycle
  <1>1. SimulatorInv => LifeCycle
    BY DEF SimulatorInv, Cycle, Joined, LifeCycle
  <1> QED BY <1>1, SimulatorInvariant, PTL

(***************************************************************************)
(* The report that Run saves counts every request sent, each with its      *)
(* outcome, and no snapshot in it shows more than its final result, though *)
(* nobody waits for the reporters of this or of an earlier Run.            *)
(***************************************************************************)
THEOREM SimulatorReportComplete == Spec => []ReportComplete
  BY SimulatorInvariant, PTL DEF SimulatorInv

=============================================================================
