-------------------------- MODULE MetricsCollector --------------------------
(***************************************************************************)
(* The metrics collector (pkg/metrics/metrics.go): cumulative counters,    *)
(* one bucket of counters per second, and the history of earlier buckets   *)
(* from which snapshots are taken.                                         *)
(*                                                                         *)
(* Recorders take no lock.  A record is a sequence of atomic accesses      *)
(* (count, load the current bucket, perhaps rotate under historyMu, load   *)
(* again, add to the bucket), and other recorders, the clock and readers   *)
(* act between any two of them.  The adds at the end of a record are one   *)
(* step.  Rates and percentiles are computed from the counts and latencies *)
(* of a bucket and left out.                                               *)
(***************************************************************************)
EXTENDS Integers, Sequences, FiniteSets

CONSTANTS
  Workers,       \* the goroutines that record
  Kinds,         \* what they record
  Keep,          \* seconds of history kept, 10 in the code
  MaxTime,       \* bound on the clock
  MaxBacks,      \* bound on the number of times the clock steps back
  MaxRecords,    \* bound on the number of records
  MaxSnapshots,  \* bound on the number of snapshots
  MaxResets      \* bound on the number of resets

Requests == {"Success", "Rejected"}
\* The other three methods record in the same way; a duration counts as 1 here.
Others == {"RateLimitChecks", "RemoteFetches", "TokenFetchWaitDuration"}
Counters == {"Total", "Failed"} \cup Requests \cup Others

ASSUME CollectorAssumption ==
  /\ Kinds \subseteq Requests \cup Others
  /\ IsFiniteSet(Workers)
  /\ Keep \in Nat \ {0}
  /\ MaxTime \in Nat /\ MaxBacks \in Nat
  /\ MaxRecords \in Nat /\ MaxSnapshots \in Nat /\ MaxResets \in Nat

VARIABLES
  now,      \* time.Now().Unix(), the wall clock
  backs,    \* history: how often it stepped back
  counted,  \* the cumulative counters
  buckets,  \* every bucket ever made; a pointer is an index
  current,  \* currentBucket
  history,  \* the map from timestamps to buckets
  base,     \* history: the first bucket since the last Reset
  step,     \* where a goroutine is in its record
  rec,      \* what it records: kind, its reading of the clock, its bucket
  reader,   \* where the goroutine that takes snapshots is
  snap,     \* the snapshot it is taking
  calls     \* history: records, snapshots and resets so far

clockVars == <<now, backs>>
bucketVars == <<buckets, current, history, base>>
recordVars == <<step, rec>>
readVars == <<reader, snap>>
vars == <<clockVars, counted, bucketVars, recordVars, readVars, calls>>

NoCounts == [c \in Counters |-> 0]
NewBucket(ts) == [ts |-> ts, counts |-> NoCounts]
NoRecord == [kind |-> "Total", at |-> 0, bucket |-> 0]
NoSnapshot == [bucket |-> 0, full |-> FALSE, total |-> 0, seen |-> 0, settled |-> 0]

TypeOK ==
  /\ now \in Nat /\ backs \in Nat
  /\ counted \in [Counters -> Nat]
  /\ buckets \in Seq([ts : Nat, counts : [Counters -> Nat]])
  /\ base \in 1..Len(buckets) /\ current \in base..Len(buckets)
  /\ \A ts \in DOMAIN history : history[ts] \in base..Len(buckets)
  /\ step \in [Workers -> {"none", "load", "rotate", "reload", "add", "fail"}]
  /\ rec \in [Workers -> [kind : Counters, at : Nat, bucket : Nat]]
  /\ reader \in {"none", "total", "bucket", "outcomes", "taken"}
  /\ snap \in [bucket : Nat, full : BOOLEAN, total : Nat, seen : Nat, settled : Nat]
  /\ calls \in [records : Nat, snapshots : Nat, resets : Nat]

Init ==
  /\ now = 1
  /\ backs = 0
  /\ counted = NoCounts
  /\ buckets = <<NewBucket(now)>>
  /\ current = 1
  /\ history = << >>
  /\ base = 1
  /\ step = [w \in Workers |-> "none"]
  /\ rec = [w \in Workers |-> NoRecord]
  /\ reader = "none"
  /\ snap = NoSnapshot
  /\ calls = [records |-> 0, snapshots |-> 0, resets |-> 0]

Goto(w, where) == step' = [step EXCEPT ![w] = where]
Point(w, b) == rec' = [rec EXCEPT ![w].bucket = b]
Bump(c) == counted' = [counted EXCEPT ![c] = @ + 1]

CallRecord ==
  /\ calls.records < MaxRecords
  /\ calls' = [calls EXCEPT !.records = @ + 1]

\* RecordRequest and the three other methods begin with their cumulative
\* counter and a reading of the clock.
Record(w, kind) ==
  /\ step[w] = "none" /\ CallRecord
  /\ Bump(IF kind \in Requests THEN "Total" ELSE kind)
  /\ rec' = [rec EXCEPT ![w] = [kind |-> kind, at |-> now, bucket |-> 0]]
  /\ Goto(w, "load")
  /\ UNCHANGED <<clockVars, bucketVars, readVars>>

\* The optimistic look at the current bucket.  When the clock receded since
\* the bucket was made, the record goes there all the same.
Load(w) ==
  /\ step[w] = "load"
  /\ Point(w, current)
  /\ Goto(w, IF rec[w].at > buckets[current].ts THEN "rotate" ELSE "add")
  /\ UNCHANGED <<clockVars, counted, bucketVars, readVars, calls>>

\* The history with the current bucket in it and the old ones dropped.
Archived(ts) ==
  LET last == buckets[current].ts IN
  [t \in {t \in DOMAIN history \cup {last} : t >= ts - Keep} |->
     IF t = last THEN current ELSE history[t]]

\* A slip: the bucket is not looked at again under the lock.
RotatedUnchecked(ts) ==
  /\ history' = Archived(ts)
  /\ buckets' = Append(buckets, NewBucket(ts))
  /\ current' = Len(buckets')

\* A slip: the new bucket is not installed.
RotatedInVain(ts) ==
  /\ history' = IF buckets[current].ts >= ts THEN history ELSE Archived(ts)
  /\ UNCHANGED <<buckets, current>>

\* rotateBucket: unless somebody else has rotated, archive the current bucket
\* and install a new one.
Rotated(ts) ==
  IF buckets[current].ts >= ts
    THEN UNCHANGED <<buckets, current, history>>
    ELSE /\ history' = Archived(ts)
         /\ buckets' = Append(buckets, NewBucket(ts))
         /\ current' = Len(buckets')

Rotate(w) ==
  /\ step[w] = "rotate"
  /\ Rotated(rec[w].at)
  /\ Goto(w, "reload")
  /\ UNCHANGED <<clockVars, counted, base, rec, readVars, calls>>

\* A slip: the record goes to the bucket found before the rotation.
ReloadForgotten(w) ==
  /\ step[w] = "reload"
  /\ Goto(w, "add")
  /\ UNCHANGED <<clockVars, counted, bucketVars, rec, readVars, calls>>

Reload(w) ==
  /\ step[w] = "reload"
  /\ Point(w, current)
  /\ Goto(w, "add")
  /\ UNCHANGED <<clockVars, counted, bucketVars, readVars, calls>>

\* The adds to the bucket, and for a request the cumulative counter of its
\* outcome.
Add(w) ==
  LET kind == rec[w].kind
      adds == IF kind \in Requests THEN {"Total", kind} ELSE {kind} IN
  /\ step[w] = "add"
  /\ buckets' = [buckets EXCEPT ![rec[w].bucket].counts =
                   [c \in Counters |-> IF c \in adds THEN @[c] + 1 ELSE @[c]]]
  /\ IF kind \in Requests THEN Bump(kind) ELSE UNCHANGED counted
  /\ rec' = [rec EXCEPT ![w] = NoRecord]
  /\ Goto(w, "none")
  /\ UNCHANGED <<clockVars, current, history, base, readVars, calls>>

\* RecordFailedRequest counts twice and leaves the buckets alone.
RecordFailedRequest(w) ==
  /\ step[w] = "none" /\ CallRecord
  /\ Bump("Total")
  /\ Goto(w, "fail")
  /\ UNCHANGED <<clockVars, bucketVars, rec, readVars>>

CountFailed(w) ==
  /\ step[w] = "fail"
  /\ Bump("Failed")
  /\ Goto(w, "none")
  /\ UNCHANGED <<clockVars, bucketVars, rec, readVars, calls>>

\* Reset excludes readers by mu; Run calls it while no worker is there.
Reset ==
  /\ reader \notin {"bucket", "outcomes"}
  /\ \A w \in Workers : step[w] = "none"
  /\ calls.resets < MaxResets
  /\ calls' = [calls EXCEPT !.resets = @ + 1]
  /\ counted' = NoCounts
  /\ buckets' = Append(buckets, NewBucket(now))
  /\ current' = Len(buckets')
  /\ base' = Len(buckets')
  /\ history' = << >>
  /\ UNCHANGED <<clockVars, recordVars, readVars>>

-----------------------------------------------------------------------------
(* Snapshots. *)

\* The bucket of a snapshot: Snapshot takes the one of the full second before
\* from the history, 0 standing for nil; CaptureFinalSnapshot the current one.
\* The clock is read just before the look into the history, in one step here.
BucketOf(full) ==
  IF ~full THEN current
  ELSE IF now - 1 \in DOMAIN history THEN history[now - 1] ELSE 0

Snapshot ==
  /\ reader \in {"none", "taken"} /\ calls.snapshots < MaxSnapshots
  /\ calls' = [calls EXCEPT !.snapshots = @ + 1]
  /\ \E full \in BOOLEAN :
       snap' = [NoSnapshot EXCEPT !.bucket = BucketOf(full), !.full = full]
  /\ reader' = "total"
  /\ UNCHANGED <<clockVars, counted, bucketVars, recordVars>>

\* What createSnapshotFromBucket reads of the bucket and of the outcomes; the
\* three reads of outcomes are one step.
Seen(b) == IF b = 0 THEN 0 ELSE buckets[b].counts["Total"]
Settled == counted["Success"] + counted["Rejected"] + counted["Failed"]

\* A slip: the total is read after the outcomes.
ObservedTotalLast ==
  CASE reader = "total" -> [snap EXCEPT !.settled = Settled]
    [] reader = "bucket" -> [snap EXCEPT !.seen = Seen(snap.bucket)]
    [] OTHER -> [snap EXCEPT !.total = counted["Total"]]

\* The total is read first, then the bucket, then the outcomes.
Observed ==
  CASE reader = "total" -> [snap EXCEPT !.total = counted["Total"]]
    [] reader = "bucket" -> [snap EXCEPT !.seen = Seen(snap.bucket)]
    [] OTHER -> [snap EXCEPT !.settled = Settled]

Read ==
  /\ reader \in {"total", "bucket", "outcomes"}
  /\ snap' = Observed
  /\ reader' = CASE reader = "total" -> "bucket"
               [] reader = "bucket" -> "outcomes"
               [] OTHER -> "taken"
  /\ UNCHANGED <<clockVars, counted, bucketVars, recordVars, calls>>

-----------------------------------------------------------------------------

Tick ==
  /\ now < MaxTime
  /\ now' = now + 1
  /\ UNCHANGED <<backs, counted, bucketVars, recordVars, readVars, calls>>

\* The wall clock is set back to t.
StepBack(t) ==
  /\ backs < MaxBacks
  /\ now' = t
  /\ backs' = backs + 1
  /\ UNCHANGED <<counted, bucketVars, recordVars, readVars, calls>>

Next ==
  \/ \E w \in Workers :
       \/ \E kind \in Kinds : Record(w, kind)
       \/ RecordFailedRequest(w)
       \/ Load(w) \/ Rotate(w) \/ Reload(w) \/ Add(w) \/ CountFailed(w)
  \/ Reset
  \/ Snapshot \/ Read
  \/ Tick
  \/ \E t \in 1..(now - 1) : StepBack(t)

Spec == Init /\ [][Next]_vars

-----------------------------------------------------------------------------

(***************************************************************************)
(* No second is lost: every bucket made since the last Reset is the        *)
(* current one, or Snapshot finds it in the history under its own second,  *)
(* or it was dropped for its age, however recorders race to rotate         *)
(* (rotateBucket, lines 228-255).                                          *)
(***************************************************************************)
EveryBucketFound ==
  \A b \in base..Len(buckets) :
    LET ts == buckets[b].ts IN
    \/ b = current
    \/ ts \in DOMAIN history /\ history[ts] = b
    \/ ts < buckets[current].ts - Keep

(***************************************************************************)
(* "We use completion time as the timestamp" (line 111): a record never    *)
(* goes to a second before the one it was made in, though another recorder *)
(* may rotate, or the clock recede, between any two of its steps.          *)
(***************************************************************************)
NeverEarlier ==
  \A w \in Workers :
    step[w] = "add" => buckets[rec[w].bucket].ts >= rec[w].at

(***************************************************************************)
(* What a snapshot of a completed second misses: recorders that loaded the *)
(* bucket before it was rotated away add to it later, but no more than one *)
(* record each (lines 115 and 130 against line 243).                       *)
(***************************************************************************)
FewLateRecords ==
  LET b == snap.bucket IN
  reader \in {"outcomes", "taken"} /\ b >= base /\ snap.full =>
    buckets[b].counts["Total"] <= snap.seen + Cardinality(Workers)

(***************************************************************************)
(* A snapshot is no consistent cut, but its total exceeds the sum of its   *)
(* outcomes by no more than the requests being recorded: the total is      *)
(* counted first and read first (lines 108, 307 and 403-405).              *)
(***************************************************************************)
TotalsAgree == reader = "taken" => snap.total <= snap.settled + Cardinality(Workers)
=============================================================================
