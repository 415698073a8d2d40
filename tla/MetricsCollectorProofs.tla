----------------------- MODULE MetricsCollectorProofs -----------------------
(***************************************************************************)
(* Proofs about the metrics collector, for every number of recorders, kept *)
(* seconds, records, snapshots, resets and steps of the clock.             *)
(*                                                                         *)
(* BucketInv is inductive: the current bucket is the last one made and the *)
(* latest since the Reset, so rotateBucket neither overwrites a second in  *)
(* the history nor leaves a bucket out of it, and a recorder between its   *)
(* rotation and its add points at a bucket that is late enough.            *)
(*                                                                         *)
(* TotalsInv adds the balance of the counters (the total is the outcomes   *)
(* and the requests whose outcome is still to come) and, for the bucket of *)
(* a snapshot, the recorders that are about to add to it: nobody joins     *)
(* them, because the bucket is not current any more.                       *)
(***************************************************************************)
EXTENDS MetricsCollector, TLAPS, FiniteSetTheorems

\* The current bucket is the last one made, and the latest since the Reset.
InPlace ==
  /\ current = Len(buckets)
  /\ \A b \in base..Len(buckets) : b # current => buckets[b].ts < buckets[current].ts

\* What is in the history is not current any more.
Archives == \A t \in DOMAIN history : history[t] # current

Recording == {"load", "rotate", "reload", "add"}

\* A record is about to go to a bucket made since the Reset, and after a
\* rotation the current bucket is late enough for it.
Pointed ==
  \A w \in Workers :
    /\ step[w] = "add" => rec[w].bucket \in base..Len(buckets)
    /\ step[w] = "reload" => buckets[current].ts >= rec[w].at
    /\ step[w] \in Recording => rec[w].kind \in Requests \cup Others

BucketRecords == [ts : Nat, counts : [Counters -> Nat]]

\* The parts of TypeOK.
BucketsTyped ==
  /\ buckets \in Seq(BucketRecords)
  /\ base \in 1..Len(buckets) /\ current \in base..Len(buckets)
  /\ \A t \in DOMAIN history : history[t] \in base..Len(buckets)

RecordsTyped ==
  /\ step \in [Workers -> {"none", "load", "rotate", "reload", "add", "fail"}]
  /\ rec \in [Workers -> [kind : Counters, at : Nat, bucket : Nat]]

CountsTyped == counted \in [Counters -> Nat]

BucketInv ==
  /\ now \in Nat /\ BucketsTyped /\ RecordsTyped
  /\ InPlace /\ Archives /\ Pointed /\ NeverEarlier /\ EveryBucketFound

-----------------------------------------------------------------------------

\* What the types say about buckets.
LEMMA BucketTypes ==
  ASSUME BucketsTyped
  PROVE  /\ buckets \in Seq(BucketRecords)
         /\ Len(buckets) \in Nat \ {0}
         /\ base \in 1..Len(buckets) /\ current \in 1..Len(buckets) /\ base <= current
         /\ \A b \in 1..Len(buckets) : /\ buckets[b] \in BucketRecords
                                      /\ buckets[b].ts \in Nat
                                      /\ buckets[b].counts["Total"] \in Nat
  <1>1. /\ buckets \in Seq(BucketRecords)
        /\ base \in 1..Len(buckets) /\ current \in base..Len(buckets)
    BY DEF BucketsTyped
  <1>2. \A b \in 1..Len(buckets) : buckets[b] \in BucketRecords
    BY <1>1
  <1>3. "Total" \in Counters
    BY DEF Counters
  <1>4. \A x \in BucketRecords : x.ts \in Nat /\ x.counts["Total"] \in Nat
    BY <1>3 DEF BucketRecords
  <1> QED BY <1>1, <1>2, <1>4

\* A new bucket is at the end and changes no other.
LEMMA Appended ==
  ASSUME BucketsTyped, NEW ts \in Nat, buckets' = Append(buckets, NewBucket(ts))
  PROVE  /\ buckets' \in Seq(BucketRecords)
         /\ Len(buckets') = Len(buckets) + 1
         /\ Len(buckets) \in Nat \ {0}
         /\ \A b \in 1..Len(buckets) : buckets'[b] = buckets[b]
         /\ buckets'[Len(buckets) + 1].ts = ts
  <1>1. NewBucket(ts) \in BucketRecords /\ NewBucket(ts).ts = ts
    BY DEF NewBucket, NoCounts, BucketRecords
  <1> QED BY <1>1, BucketTypes

\* A rotation that takes place, and one that finds it done.
LEMMA RotatedFacts ==
  ASSUME BucketsTyped, InPlace, NEW ts \in Nat, Rotated(ts)
  PROVE  \/ /\ buckets[current].ts >= ts
            /\ UNCHANGED <<buckets, current, history>>
         \/ /\ buckets[current].ts < ts
            /\ buckets' = Append(buckets, NewBucket(ts))
            /\ current' = Len(buckets) + 1
            /\ buckets'[current'].ts = ts
            /\ history' = Archived(ts)
  <1>1. buckets[current].ts \in Nat
    BY BucketTypes
  <1>2. CASE buckets[current].ts >= ts
    BY <1>2 DEF Rotated
  <1>3. CASE ~(buckets[current].ts >= ts)
    BY <1>1, <1>3, Appended DEF Rotated
  <1> QED BY <1>2, <1>3

\* Adding to a bucket leaves its second alone.
LEMMA Added ==
  ASSUME BucketsTyped, Pointed, NEW w \in Workers, Add(w)
  PROVE  /\ buckets' \in Seq(BucketRecords)
         /\ Len(buckets') = Len(buckets)
         /\ \A b \in 1..Len(buckets) :
              /\ buckets'[b].ts = buckets[b].ts
              /\ buckets'[b].counts["Total"] =
                   IF b = rec[w].bucket /\ rec[w].kind \in Requests
                     THEN buckets[b].counts["Total"] + 1 ELSE buckets[b].counts["Total"]
  <1> DEFINE k == rec[w].kind
             d == rec[w].bucket
             adds == IF k \in Requests THEN {"Total", k} ELSE {k}
             new == [c \in Counters |-> IF c \in adds THEN buckets[d].counts[c] + 1
                                        ELSE buckets[d].counts[c]]
  <1>1. d \in 1..Len(buckets) /\ buckets \in Seq(BucketRecords)
    BY BucketTypes DEF Add, Pointed
  <1>2. step[w] = "add" /\ buckets' = [buckets EXCEPT ![d].counts = new]
    BY DEF Add
  <1>3. buckets[d] \in BucketRecords
    BY <1>1
  <1>4. buckets[d].counts \in [Counters -> Nat] /\ buckets[d].ts \in Nat
    BY <1>3 DEF BucketRecords
  <1>5. new \in [Counters -> Nat]
    BY <1>4
  <1>6. new["Total"] = IF k \in Requests THEN buckets[d].counts["Total"] + 1
                       ELSE buckets[d].counts["Total"]
    <2>1. "Total" \in Counters
      BY DEF Counters
    <2>2. k # "Total"
      BY <1>2 DEF Pointed, Recording, Requests, Others
    <2> QED BY <2>1, <2>2
  <1> HIDE DEF new
  <1> DEFINE bucket == [buckets[d] EXCEPT !.counts = new]
  <1>7. buckets' = [buckets EXCEPT ![d] = bucket]
    BY <1>2
  <1>8. bucket \in BucketRecords /\ bucket.ts = buckets[d].ts /\ bucket.counts = new
    BY <1>3, <1>5 DEF BucketRecords
  <1> HIDE DEF bucket
  <1>9. /\ buckets' \in Seq(BucketRecords) /\ Len(buckets') = Len(buckets)
        /\ \A b \in 1..Len(buckets) : buckets'[b] = IF b = d THEN bucket ELSE buckets[b]
    BY <1>1, <1>7, <1>8
  <1> QED BY <1>6, <1>8, <1>9

LEMMA RecordTypes ==
  ASSUME RecordsTyped, NEW w \in Workers
  PROVE  /\ step[w] \in {"none", "load", "rotate", "reload", "add", "fail"}
         /\ rec[w].at \in Nat /\ rec[w].kind \in Counters /\ rec[w].bucket \in Nat
  BY DEF RecordsTyped

\* The history after a rotation: the current bucket and earlier ones.
LEMMA ArchivedFacts ==
  ASSUME NEW ts
  PROVE  \A t \in DOMAIN Archived(ts) :
           \/ t = buckets[current].ts /\ Archived(ts)[t] = current
           \/ t \in DOMAIN history /\ Archived(ts)[t] = history[t]
  BY DEF Archived

\* What each step does to the place and the record of a goroutine.
LEMMA RecordsStep ==
  ASSUME now \in Nat, BucketsTyped, RecordsTyped, Next
  PROVE  RecordsTyped' /\ now' \in Nat
  <1>1. ASSUME NEW w \in Workers, NEW kind \in Kinds, Record(w, kind)
        PROVE  RecordsTyped' /\ now' \in Nat
    <2>1. kind \in Counters
      BY CollectorAssumption DEF Counters
    <2> QED BY <1>1, <2>1 DEF RecordsTyped, Record, Goto, clockVars
  <1>2. ASSUME NEW w \in Workers, RecordFailedRequest(w) \/ CountFailed(w)
        PROVE  RecordsTyped' /\ now' \in Nat
    BY <1>2 DEF RecordsTyped, RecordFailedRequest, CountFailed, Goto, clockVars
  <1>3. ASSUME NEW w \in Workers, Load(w) \/ Reload(w)
        PROVE  RecordsTyped' /\ now' \in Nat
    <2>1. current \in Nat
      BY BucketTypes
    <2> QED BY <1>3, <2>1 DEF RecordsTyped, Load, Reload, Point, Goto, clockVars
  <1>4. ASSUME NEW w \in Workers, Rotate(w)  PROVE RecordsTyped' /\ now' \in Nat
    <2>1. UNCHANGED <<now, rec>> /\ step' = [step EXCEPT ![w] = "reload"]
      BY <1>4 DEF Rotate, Goto, clockVars
    <2> QED BY <2>1 DEF RecordsTyped
  <1>5. ASSUME NEW w \in Workers, Add(w)  PROVE RecordsTyped' /\ now' \in Nat
    <2>1. /\ UNCHANGED now /\ step' = [step EXCEPT ![w] = "none"]
          /\ rec' = [rec EXCEPT ![w] = NoRecord]
      BY <1>5 DEF Add, Goto, clockVars
    <2>2. NoRecord \in [kind : Counters, at : Nat, bucket : Nat]
      BY DEF NoRecord, Counters
    <2> QED BY <2>1, <2>2 DEF RecordsTyped
  <1>6. ASSUME Reset \/ Snapshot \/ Read  PROVE RecordsTyped' /\ now' \in Nat
    BY <1>6 DEF Reset, Snapshot, Read, RecordsTyped, clockVars, recordVars
  <1>7. ASSUME Tick  PROVE RecordsTyped' /\ now' \in Nat
    BY <1>7 DEF Tick, RecordsTyped, recordVars
  <1>8. ASSUME NEW t \in 1..(now - 1), StepBack(t)  PROVE RecordsTyped' /\ now' \in Nat
    BY <1>8 DEF StepBack, RecordsTyped, recordVars
  <1> QED BY <1>1, <1>2, <1>3, <1>4, <1>5, <1>6, <1>7, <1>8 DEF Next

-----------------------------------------------------------------------------

\* The invariant on buckets, while the buckets stay and no record moves on to
\* an add or a reload.
BucketPart == BucketsTyped /\ InPlace /\ Archives /\ EveryBucketFound

LEMMA BucketPartStays ==
  ASSUME BucketPart, UNCHANGED bucketVars
  PROVE  BucketPart'
  BY DEF BucketPart, BucketsTyped, InPlace, Archives, EveryBucketFound, bucketVars

LEMMA BucketPartRotates ==
  ASSUME BucketPart, NEW ts \in Nat, Rotated(ts), UNCHANGED base
  PROVE  BucketPart' /\ buckets'[current'].ts >= ts
  <1>1. buckets[current].ts \in Nat /\ Keep \in Nat
    BY BucketTypes, CollectorAssumption DEF BucketPart
  <1>2. CASE buckets[current].ts >= ts /\ UNCHANGED <<buckets, current, history>>
    BY <1>2, BucketPartStays DEF bucketVars
  <1>3. CASE /\ buckets[current].ts < ts
             /\ buckets' = Append(buckets, NewBucket(ts))
             /\ current' = Len(buckets) + 1
             /\ buckets'[current'].ts = ts
             /\ history' = Archived(ts)
    <2> DEFINE last == buckets[current].ts
    <2>1. /\ buckets' \in Seq(BucketRecords) /\ Len(buckets') = Len(buckets) + 1
          /\ Len(buckets) \in Nat
          /\ \A b \in 1..Len(buckets) : buckets'[b] = buckets[b] /\ buckets[b].ts \in Nat
          /\ base \in 1..Len(buckets) /\ current = Len(buckets) /\ base' = base
      BY <1>3, Appended, BucketTypes DEF BucketPart, InPlace
    <2>2. \A t \in DOMAIN history' : history'[t] \in base..Len(buckets)
      BY <1>3, <2>1, ArchivedFacts DEF BucketPart, BucketsTyped
    <2>3. \A b \in base..Len(buckets) : buckets[b].ts <= last
      BY <1>1, <2>1 DEF BucketPart, InPlace
    <2>4. BucketsTyped' /\ Archives'
      BY <1>3, <2>1, <2>2 DEF BucketsTyped, Archives
    <2>5. InPlace'
      BY <1>1, <1>3, <2>1, <2>3 DEF InPlace
    <2>6. ASSUME NEW b \in base..Len(buckets), buckets[b].ts >= ts - Keep
          PROVE  buckets[b].ts \in DOMAIN history' /\ history'[buckets[b].ts] = b
      <3>1. CASE b = current
        BY <1>3, <2>6, <3>1 DEF Archived
      <3>2. CASE b # current
        <4>1. buckets[b].ts < last
          BY <3>2, <2>1 DEF BucketPart, InPlace
        <4>2. ~(buckets[b].ts < last - Keep)
          BY <1>1, <1>3, <2>1, <2>6
        <4>3. buckets[b].ts \in DOMAIN history /\ history[buckets[b].ts] = b
          BY <3>2, <4>2, <2>1 DEF BucketPart, EveryBucketFound
        <4>4. buckets[b].ts # last
          BY <1>1, <2>1, <4>1
        <4> QED BY <1>3, <2>6, <4>3, <4>4 DEF Archived
      <3> QED BY <3>1, <3>2
    <2>7. EveryBucketFound'
      <3> SUFFICES ASSUME NEW b \in base..Len(buckets)
                   PROVE  \/ buckets[b].ts \in DOMAIN history' /\ history'[buckets[b].ts] = b
                          \/ buckets[b].ts < ts - Keep
        BY <1>3, <2>1 DEF EveryBucketFound
      <3> QED BY <1>1, <2>1, <2>6
    <2> QED BY <1>1, <1>3, <2>4, <2>5, <2>7 DEF BucketPart
  <1> QED BY <1>2, <1>3, RotatedFacts DEF BucketPart

\* The invariant on what goroutines hold, when buckets keep their seconds and
\* the current one does not get earlier.
LEMMA PointedStays ==
  ASSUME BucketsTyped, Pointed, NeverEarlier, base' = base,
         Len(buckets') \in Nat, Len(buckets') >= Len(buckets),
         \A b \in 1..Len(buckets) : buckets'[b].ts = buckets[b].ts,
         buckets'[current'].ts \in Nat, buckets'[current'].ts >= buckets[current].ts,
         NEW w \in Workers, step'[w] = step[w], rec'[w] = rec[w], rec[w].at \in Nat
  PROVE  /\ step'[w] = "add" => /\ rec'[w].bucket \in base'..Len(buckets')
                                /\ buckets'[rec'[w].bucket].ts >= rec'[w].at
         /\ step'[w] = "reload" => buckets'[current'].ts >= rec'[w].at
         /\ step'[w] \in Recording => rec'[w].kind \in Requests \cup Others
  <1>1. CASE step[w] = "add"
    <2>1. rec[w].bucket \in base..Len(buckets) /\ buckets[rec[w].bucket].ts >= rec[w].at
      BY <1>1 DEF Pointed, NeverEarlier
    <2>2. rec[w].bucket \in 1..Len(buckets) /\ Len(buckets) \in Nat
      BY <2>1, BucketTypes
    <2> QED BY <1>1, <2>1, <2>2 DEF Pointed
  <1>2. CASE step[w] # "add"
    BY <1>2, BucketTypes DEF Pointed
  <1> QED BY <1>1, <1>2

\* Held is what the invariant says of the goroutines.
Held == Pointed /\ NeverEarlier

LEMMA BucketInvStep ==
  ASSUME BucketInv, [Next]_vars
  PROVE  BucketInv'
  <1> USE DEF BucketInv
  <1>0. BucketPart /\ BucketsTyped /\ RecordsTyped /\ Held
    BY DEF BucketPart, Held
  <1>1. /\ current \in 1..Len(buckets) /\ base \in 1..Len(buckets) /\ base <= current
        /\ Len(buckets) \in Nat /\ buckets[current].ts \in Nat
    BY BucketTypes
  \* Steps that leave the buckets and all goroutines but w alone.
  <1>2. ASSUME UNCHANGED bucketVars, NEW w \in Workers,
               \A v \in Workers \ {w} : step'[v] = step[v] /\ rec'[v] = rec[v],
               step'[w] = "add" => /\ rec'[w].bucket \in base..Len(buckets)
                                   /\ buckets[rec'[w].bucket].ts >= rec'[w].at,
               step'[w] = "reload" => buckets[current].ts >= rec'[w].at,
               step'[w] \in Recording => rec'[w].kind \in Requests \cup Others
        PROVE  BucketPart' /\ Held'
    <2>1. BucketPart'
      BY <1>0, <1>2, BucketPartStays
    <2>2. Held'
      BY <1>2 DEF bucketVars, Held, Pointed, NeverEarlier
    <2> QED BY <2>1, <2>2
  <1>3. ASSUME UNCHANGED <<bucketVars, step, rec>>  PROVE BucketPart' /\ Held'
    BY <1>0, <1>3, BucketPartStays DEF bucketVars, Held, Pointed, NeverEarlier
  <1>4. CASE Next
    <2>1. ASSUME NEW w \in Workers, NEW kind \in Kinds, Record(w, kind)
          PROVE  BucketPart' /\ Held'
      <3>1. /\ step' = [step EXCEPT ![w] = "load"]
            /\ rec' = [rec EXCEPT ![w] = [kind |-> kind, at |-> now, bucket |-> 0]]
            /\ UNCHANGED bucketVars
        BY <2>1 DEF Record, Goto
      <3>2. step'[w] = "load" /\ rec'[w].kind = kind
            /\ \A v \in Workers \ {w} : step'[v] = step[v] /\ rec'[v] = rec[v]
        BY <3>1 DEF RecordsTyped
      <3> QED BY <3>1, <3>2, <1>2, CollectorAssumption
    <2>2. ASSUME NEW w \in Workers, RecordFailedRequest(w) \/ CountFailed(w)
          PROVE  BucketPart' /\ Held'
      <3>1. /\ step'[w] \in {"fail", "none"} /\ UNCHANGED bucketVars
            /\ \A v \in Workers \ {w} : step'[v] = step[v] /\ rec'[v] = rec[v]
        BY <2>2 DEF RecordFailedRequest, CountFailed, Goto, RecordsTyped
      <3> QED BY <3>1, <1>2 DEF Recording
    <2>3. ASSUME NEW w \in Workers, Load(w)  PROVE BucketPart' /\ Held'
      <3>1. /\ step[w] = "load" /\ UNCHANGED bucketVars
            /\ step' = [step EXCEPT ![w] = IF rec[w].at > buckets[current].ts
                                             THEN "rotate" ELSE "add"]
            /\ rec' = [rec EXCEPT ![w].bucket = current]
        BY <2>3 DEF Load, Point, Goto
      <3>2. /\ step'[w] = IF rec[w].at > buckets[current].ts THEN "rotate" ELSE "add"
            /\ rec'[w].bucket = current /\ rec'[w].at = rec[w].at /\ rec'[w].kind = rec[w].kind
            /\ \A v \in Workers \ {w} : step'[v] = step[v] /\ rec'[v] = rec[v]
        BY <3>1 DEF RecordsTyped
      <3>3. rec[w].kind \in Requests \cup Others /\ rec[w].at \in Nat
        BY <3>1, RecordTypes DEF Pointed, Recording
      <3> QED BY <3>1, <3>2, <3>3, <1>1, <1>2
    <2>4. ASSUME NEW w \in Workers, Rotate(w)  PROVE BucketPart' /\ Held'
      <3>1. /\ step[w] = "rotate" /\ Rotated(rec[w].at) /\ UNCHANGED <<base, rec>>
            /\ step' = [step EXCEPT ![w] = "reload"]
        BY <2>4 DEF Rotate, Goto
      <3>2. rec[w].at \in Nat
        BY RecordTypes
      <3>3. BucketPart' /\ buckets'[current'].ts >= rec[w].at
        BY <1>0, <3>1, <3>2, BucketPartRotates
      <3>4. /\ Len(buckets') \in Nat /\ Len(buckets') >= Len(buckets)
            /\ \A b \in 1..Len(buckets) : buckets'[b].ts = buckets[b].ts
            /\ buckets'[current'].ts \in Nat /\ buckets'[current'].ts >= buckets[current].ts
        <4>1. Len(buckets) \in Nat /\ buckets[current].ts \in Nat
          BY <1>1, BucketTypes
        <4>2. CASE UNCHANGED <<buckets, current>>
          BY <4>1, <4>2
        <4>3. CASE /\ buckets' = Append(buckets, NewBucket(rec[w].at))
                   /\ buckets[current].ts < rec[w].at
                   /\ buckets'[current'].ts = rec[w].at
          <5>1. /\ Len(buckets') = Len(buckets) + 1
                /\ \A b \in 1..Len(buckets) : buckets'[b] = buckets[b]
            BY <1>1, <3>2, <4>3, Appended
          <5> QED BY <3>2, <4>1, <4>3, <5>1
        <4> QED BY <1>1, <3>1, <3>2, <4>2, <4>3, RotatedFacts
      <3>5. \A v \in Workers \ {w} : step'[v] = step[v] /\ rec'[v] = rec[v]
        BY <3>1 DEF RecordsTyped
      <3>6. step'[w] = "reload" /\ rec'[w] = rec[w]
        BY <3>1 DEF RecordsTyped
      <3>7. rec[w].kind \in Requests \cup Others
        BY <3>1 DEF Pointed, Recording
      <3>8. ASSUME NEW v \in Workers
            PROVE  /\ step'[v] = "add" => /\ rec'[v].bucket \in base'..Len(buckets')
                                          /\ buckets'[rec'[v].bucket].ts >= rec'[v].at
                   /\ step'[v] = "reload" => buckets'[current'].ts >= rec'[v].at
                   /\ step'[v] \in Recording => rec'[v].kind \in Requests \cup Others
        <4>1. CASE v = w
          BY <4>1, <3>3, <3>6, <3>7
        <4>2. CASE v # w
          BY <4>2, <3>1, <3>4, <3>5, RecordTypes, PointedStays
        <4> QED BY <4>1, <4>2
      <3>9. Held'
        BY <3>8 DEF Held, Pointed, NeverEarlier
      <3> QED BY <3>3, <3>9
    <2>5. ASSUME NEW w \in Workers, Reload(w)  PROVE BucketPart' /\ Held'
      <3>1. /\ step[w] = "reload" /\ UNCHANGED bucketVars
            /\ step' = [step EXCEPT ![w] = "add"]
            /\ rec' = [rec EXCEPT ![w].bucket = current]
        BY <2>5 DEF Reload, Point, Goto
      <3>2. /\ step'[w] = "add" /\ rec'[w].bucket = current
            /\ rec'[w].at = rec[w].at /\ rec'[w].kind = rec[w].kind
            /\ \A v \in Workers \ {w} : step'[v] = step[v] /\ rec'[v] = rec[v]
        BY <3>1 DEF RecordsTyped
      <3>3. rec[w].kind \in Requests \cup Others /\ buckets[current].ts >= rec[w].at
        BY <3>1 DEF Pointed, Recording
      <3> QED BY <3>1, <3>2, <3>3, <1>1, <1>2
    <2>6. ASSUME NEW w \in Workers, Add(w)  PROVE BucketPart' /\ Held'
      <3>1. /\ UNCHANGED <<current, history, base>>
            /\ step' = [step EXCEPT ![w] = "none"] /\ rec' = [rec EXCEPT ![w] = NoRecord]
        BY <2>6 DEF Add, Goto
      <3>2. /\ buckets' \in Seq(BucketRecords) /\ Len(buckets') = Len(buckets)
            /\ \A b \in 1..Len(buckets) : buckets'[b].ts = buckets[b].ts
        BY <2>6, Added
      <3>3. BucketPart'
        <4>1. BucketsTyped' /\ Archives'
          BY <3>1, <3>2 DEF BucketsTyped, Archives
        <4>2. /\ buckets'[current'].ts = buckets[current].ts
              /\ \A b \in base..Len(buckets) : buckets'[b].ts = buckets[b].ts
          BY <1>1, <3>1, <3>2
        <4>3. InPlace'
          BY <3>1, <3>2, <4>2 DEF InPlace
        <4>4. EveryBucketFound'
          BY <3>1, <3>2, <4>2 DEF EveryBucketFound
        <4> QED BY <4>1, <4>3, <4>4 DEF BucketPart
      <3>4. /\ step'[w] = "none"
            /\ \A v \in Workers \ {w} : step'[v] = step[v] /\ rec'[v] = rec[v]
        BY <3>1 DEF RecordsTyped
      <3>5. ASSUME NEW v \in Workers
            PROVE  /\ step'[v] = "add" => /\ rec'[v].bucket \in base'..Len(buckets')
                                          /\ buckets'[rec'[v].bucket].ts >= rec'[v].at
                   /\ step'[v] = "reload" => buckets'[current'].ts >= rec'[v].at
                   /\ step'[v] \in Recording => rec'[v].kind \in Requests \cup Others
        <4>1. CASE v = w
          BY <4>1, <3>4 DEF Recording
        <4>2. CASE v # w
          BY <4>2, <1>1, <3>1, <3>2, <3>4, RecordTypes, PointedStays
        <4> QED BY <4>1, <4>2
      <3>6. Held'
        BY <3>5 DEF Held, Pointed, NeverEarlier
      <3> QED BY <3>3, <3>6
    <2>7. ASSUME Reset  PROVE BucketPart' /\ Held'
      <3>1. /\ buckets' = Append(buckets, NewBucket(now)) /\ history' = << >>
            /\ current' = Len(buckets') /\ base' = Len(buckets')
            /\ UNCHANGED <<step, rec>> /\ \A w \in Workers : step[w] = "none"
        BY <2>7 DEF Reset, recordVars
      <3>2. buckets' \in Seq(BucketRecords) /\ Len(buckets') \in Nat \ {0}
        BY <3>1, Appended
      <3>3. DOMAIN history' = {}
        BY <3>1
      <3>4. BucketsTyped'
        BY <3>1, <3>2, <3>3 DEF BucketsTyped
      <3>5. InPlace' /\ Archives' /\ EveryBucketFound'
        BY <3>1, <3>2, <3>3 DEF InPlace, Archives, EveryBucketFound
      <3>6. Held'
        BY <3>1 DEF Recording, Held, Pointed, NeverEarlier
      <3> QED BY <3>4, <3>5, <3>6 DEF BucketPart
    <2>8. ASSUME \/ Snapshot \/ Read \/ Tick \/ \E t \in 1..(now - 1) : StepBack(t)
          PROVE  BucketPart' /\ Held'
      BY <2>8, <1>3 DEF Snapshot, Read, Tick, StepBack, recordVars
    <2>9. BucketPart' /\ Held'
      BY <1>4, <2>1, <2>2, <2>3, <2>4, <2>5, <2>6, <2>7, <2>8 DEF Next
    <2> QED BY <1>4, <2>9, RecordsStep DEF BucketPart, Held
  <1>5. CASE UNCHANGED vars
    <2>1. BucketPart' /\ Held' /\ UNCHANGED <<now, step, rec>>
      BY <1>3, <1>5 DEF vars, clockVars, recordVars
    <2> QED BY <2>1 DEF BucketPart, Held, RecordsTyped
  <1> QED BY <1>4, <1>5

LEMMA BucketInvInit == Init => BucketInv
  <1> SUFFICES ASSUME Init PROVE BucketInv
    OBVIOUS
  <1>1. buckets = <<NewBucket(1)>> /\ NewBucket(1) \in BucketRecords
    BY DEF Init, NewBucket, NoCounts, BucketRecords
  <1>2. buckets \in Seq(BucketRecords) /\ Len(buckets) = 1
    BY <1>1
  <1>3. DOMAIN history = {}
    BY DEF Init
  <1>4. BucketsTyped /\ InPlace /\ Archives /\ EveryBucketFound
    BY <1>2, <1>3 DEF Init, BucketsTyped, InPlace, Archives, EveryBucketFound
  <1>5. RecordsTyped
    BY DEF Init, RecordsTyped, NoRecord, Counters
  <1>6. Pointed /\ NeverEarlier
    BY DEF Init, Pointed, NeverEarlier, Recording
  <1> QED BY <1>4, <1>5, <1>6 DEF BucketInv, Init

LEMMA BucketInvariant == Spec => []BucketInv
  BY BucketInvInit, BucketInvStep, PTL DEF Spec

(***************************************************************************)
(* No second of metrics is lost: however recorders race to rotate, every   *)
(* bucket since the last Reset is current, in the history under its own    *)
(* second, or dropped for its age (rotateBucket).                          *)
(***************************************************************************)
THEOREM CollectorLosesNoBucket == Spec => []EveryBucketFound
  <1>1. BucketInv => EveryBucketFound
    BY DEF BucketInv
  <1> QED BY <1>1, BucketInvariant, PTL

(***************************************************************************)
(* No record goes to a second before the one it was made in, for any       *)
(* number of recorders and any clock (RecordRequest).                      *)
(***************************************************************************)
THEOREM CollectorNeverEarlier == Spec => []NeverEarlier
  <1>1. BucketInv => NeverEarlier
    BY DEF BucketInv
  <1> QED BY <1>1, BucketInvariant, PTL

-----------------------------------------------------------------------------
(* Totals and late records. *)

\* The goroutines that have counted a request and not yet its outcome.
Open ==
  {w \in Workers : \/ step[w] = "fail"
                   \/ step[w] \in Recording /\ rec[w].kind \in Requests}

SnapTyped ==
  /\ reader \in {"none", "total", "bucket", "outcomes", "taken"}
  /\ snap \in [bucket : Nat, full : BOOLEAN, total : Nat, seen : Nat, settled : Nat]

\* The total is the sum of the outcomes and the requests that are open.
Balanced == counted["Total"] = Settled + Cardinality(Open)

\* A total that was read is not ahead of the counter.
TotalBehind == reader \in {"bucket", "outcomes"} => snap.total <= counted["Total"]

\* The goroutines about to add a request to the bucket of the snapshot, and
\* what the snapshot may miss because of them.
Late ==
  {w \in Workers : step[w] = "add" /\ rec[w].bucket = snap.bucket /\ rec[w].kind \in Requests}

LateBounded ==
  snap.full /\ snap.bucket >= base =>
    /\ snap.bucket # current
    /\ reader \in {"outcomes", "taken"} =>
         buckets[snap.bucket].counts["Total"] + Cardinality(Late)
           <= snap.seen + Cardinality(Workers)

\* The bucket of a snapshot exists, or there is none.
SnapPoints == snap.bucket \in 0..Len(buckets)

TotalsInv ==
  /\ BucketInv /\ CountsTyped /\ SnapTyped /\ SnapPoints
  /\ Balanced /\ TotalBehind /\ TotalsAgree /\ LateBounded

LEMMA SomeWorkers ==
  ASSUME NEW S \in SUBSET Workers
  PROVE  /\ IsFiniteSet(S) /\ Cardinality(S) \in Nat /\ Cardinality(Workers) \in Nat
         /\ Cardinality(S) <= Cardinality(Workers)
  <1>1. IsFiniteSet(Workers)
    BY CollectorAssumption
  <1> QED BY <1>1, FS_Subset, FS_CardinalityType

LEMMA OneMore ==
  ASSUME NEW S \in SUBSET Workers, NEW w \in Workers
  PROVE  /\ w \notin S => Cardinality(S \cup {w}) = Cardinality(S) + 1
         /\ w \in S => Cardinality(S) = Cardinality(S \ {w}) + 1
  <1>1. IsFiniteSet(S) /\ Cardinality(S) \in Nat
    BY SomeWorkers
  <1>2. ASSUME w \in S  PROVE Cardinality(S) = Cardinality(S \ {w}) + 1
    <2>1. Cardinality(S \ {w}) = Cardinality(S) - 1
      BY <1>1, <1>2, FS_RemoveElement
    <2> QED BY <1>1, <2>1
  <1> QED BY <1>1, <1>2, FS_AddElement

LEMMA CountTypes ==
  ASSUME CountsTyped
  PROVE  /\ \A c \in Counters : counted[c] \in Nat
         /\ {"Total", "Success", "Rejected", "Failed"} \subseteq Counters
         /\ counted["Total"] \in Nat /\ Settled \in Nat
  <1>1. {"Total", "Success", "Rejected", "Failed"} \subseteq Counters
    BY DEF Counters, Requests
  <1>2. \A c \in Counters : counted[c] \in Nat
    BY DEF CountsTyped
  <1> QED BY <1>1, <1>2 DEF Settled

\* What Bump does to the total and to the sum of the outcomes.
LEMMA Bumped ==
  ASSUME CountsTyped, NEW c \in Counters, Bump(c)
  PROVE  /\ CountsTyped'
         /\ counted'["Total"] = IF c = "Total" THEN counted["Total"] + 1 ELSE counted["Total"]
         /\ Settled' = IF c \in {"Success", "Rejected", "Failed"} THEN Settled + 1 ELSE Settled
  <1>1. counted' = [counted EXCEPT ![c] = counted[c] + 1]
    BY DEF Bump
  <1>2. CountsTyped'
    BY <1>1, CountTypes DEF CountsTyped
  <1>3. \A d \in Counters : counted'[d] = IF d = c THEN counted[d] + 1 ELSE counted[d]
    BY <1>1 DEF CountsTyped
  <1> QED BY <1>2, <1>3, CountTypes DEF Settled

\* A step of a snapshot.
LEMMA ReadStep ==
  ASSUME TotalsInv, Read
  PROVE  SnapTyped' /\ SnapPoints' /\ TotalBehind' /\ TotalsAgree' /\ LateBounded'
  <1> USE DEF TotalsInv
  <1>1. /\ counted["Total"] \in Nat /\ Settled \in Nat
        /\ UNCHANGED <<counted, buckets, current, base, step, rec>>
    BY CountTypes DEF Read, bucketVars, recordVars
  <1>2. /\ Cardinality(Open) \in Nat /\ Cardinality(Workers) \in Nat
        /\ Cardinality(Open) <= Cardinality(Workers)
        /\ Cardinality(Late) \in Nat /\ Cardinality(Late) <= Cardinality(Workers)
    BY SomeWorkers DEF Open, Late
  <1>3. Seen(snap.bucket) \in Nat
    BY BucketTypes DEF Seen, SnapPoints, BucketInv
  <1>4. CASE reader = "total"
    <2>1. snap' = [snap EXCEPT !.total = counted["Total"]] /\ reader' = "bucket"
      BY <1>4 DEF Read, Observed
    <2>2. SnapTyped' /\ TotalBehind' /\ TotalsAgree'
      BY <1>1, <2>1 DEF SnapTyped, TotalBehind, TotalsAgree
    <2> QED BY <1>1, <2>1, <2>2 DEF SnapTyped, SnapPoints, LateBounded
  <1>5. CASE reader = "bucket"
    <2>1. snap' = [snap EXCEPT !.seen = Seen(snap.bucket)] /\ reader' = "outcomes"
      BY <1>5 DEF Read, Observed
    <2>2. SnapTyped' /\ SnapPoints' /\ TotalBehind' /\ TotalsAgree'
      BY <1>1, <1>3, <1>5, <2>1 DEF SnapTyped, SnapPoints, TotalBehind, TotalsAgree
    <2>3. /\ snap'.full = snap.full /\ snap'.bucket = snap.bucket
          /\ snap'.seen = Seen(snap.bucket) /\ Late' = Late
      BY <1>1, <2>1 DEF SnapTyped, Late
    <2>4. LateBounded'
      <3> SUFFICES ASSUME snap.full, snap.bucket >= base
                   PROVE  /\ snap.bucket # current
                          /\ buckets[snap.bucket].counts["Total"] + Cardinality(Late)
                               <= Seen(snap.bucket) + Cardinality(Workers)
        BY <1>1, <2>3 DEF LateBounded
      <3>1. snap.bucket # 0
        BY BucketTypes DEF BucketInv
      <3>2. buckets[snap.bucket].counts["Total"] = Seen(snap.bucket)
        BY <3>1 DEF Seen
      <3> QED BY <1>2, <1>3, <3>2 DEF LateBounded
    <2> QED BY <2>2, <2>4
  <1>6. CASE reader = "outcomes"
    <2>1. snap' = [snap EXCEPT !.settled = Settled] /\ reader' = "taken"
      BY <1>6 DEF Read, Observed
    <2>2. snap.total \in Nat /\ snap.total <= Settled + Cardinality(Open)
      BY <1>6 DEF SnapTyped, TotalBehind, Balanced
    <2>3. snap.total <= Settled + Cardinality(Workers)
      BY <1>1, <1>2, <2>2
    <2>4. SnapTyped' /\ TotalBehind' /\ TotalsAgree'
      BY <1>1, <2>1, <2>3 DEF SnapTyped, TotalBehind, TotalsAgree
    <2>5. /\ snap'.full = snap.full /\ snap'.bucket = snap.bucket
          /\ snap'.seen = snap.seen /\ Late' = Late
      BY <1>1, <2>1 DEF SnapTyped, Late
    <2> QED BY <1>1, <1>6, <2>1, <2>4, <2>5 DEF SnapPoints, LateBounded
  <1> QED BY <1>4, <1>5, <1>6 DEF Read

\* What is missing grows no larger when fewer are late.
LEMMA FewerLate ==
  ASSUME NEW seen \in Nat, NEW all \in Nat, NEW counts \in Nat,
         NEW late \in Nat, NEW fewer \in Nat,
         counts + late <= seen + all, fewer <= late
  PROVE  counts + fewer <= seen + all
  OBVIOUS

\* A step that changes neither the snapshot nor the bucket it is of, and
\* brings nobody new to that bucket.
LEMMA LateStays ==
  ASSUME TotalsInv, UNCHANGED <<reader, snap, base>>,
         Len(buckets') \in Nat, Len(buckets') >= Len(buckets),
         current' = current \/ current' = Len(buckets) + 1,
         snap.full /\ snap.bucket >= base =>
           /\ Late' \subseteq Late
           /\ buckets'[snap.bucket].counts["Total"] = buckets[snap.bucket].counts["Total"]
  PROVE  SnapTyped' /\ SnapPoints' /\ LateBounded'
  <1> USE DEF TotalsInv
  <1>1. Len(buckets) \in Nat /\ base \in 1..Len(buckets) /\ snap.bucket \in 0..Len(buckets)
    BY BucketTypes DEF BucketInv, SnapPoints
  <1>2. SnapTyped' /\ SnapPoints'
    BY <1>1 DEF SnapTyped, SnapPoints
  <1>3. ASSUME snap.full, snap.bucket >= base, reader \in {"outcomes", "taken"}
        PROVE  buckets'[snap.bucket].counts["Total"] + Cardinality(Late')
                 <= snap.seen + Cardinality(Workers)
    <2>1. /\ buckets[snap.bucket].counts["Total"] + Cardinality(Late)
               <= snap.seen + Cardinality(Workers)
          /\ buckets[snap.bucket].counts["Total"] \in Nat /\ snap.seen \in Nat
      BY <1>1, <1>3, BucketTypes DEF LateBounded, SnapTyped, BucketInv
    <2>2. Late \in SUBSET Workers
      BY DEF Late
    <2>3. Cardinality(Late') \in Nat /\ Cardinality(Late') <= Cardinality(Late)
          /\ Cardinality(Late) \in Nat /\ Cardinality(Workers) \in Nat
      BY <1>3, <2>2, SomeWorkers, FS_Subset, FS_CardinalityType
    <2>4. buckets'[snap.bucket].counts["Total"] = buckets[snap.bucket].counts["Total"]
      BY <1>3
    <2>5. buckets[snap.bucket].counts["Total"] + Cardinality(Late')
            <= snap.seen + Cardinality(Workers)
      BY <2>1, <2>3, FewerLate
    <2> QED BY <2>4, <2>5
  <1>4. snap.full /\ snap.bucket >= base => snap.bucket # current'
    BY <1>1 DEF LateBounded
  <1> QED BY <1>2, <1>3, <1>4 DEF LateBounded

\* A step that counts nothing and leaves the same requests open.
LEMMA CountsStay ==
  ASSUME CountsTyped, Balanced, TotalBehind, TotalsAgree,
         UNCHANGED <<counted, reader, snap>>, Open' = Open
  PROVE  CountsTyped' /\ Balanced' /\ TotalBehind' /\ TotalsAgree'
  BY DEF CountsTyped, Balanced, TotalBehind, TotalsAgree, Settled

\* A step that counts a request or its outcome.
LEMMA CountsMove ==
  ASSUME CountsTyped, SnapTyped, TotalBehind, TotalsAgree, UNCHANGED <<reader, snap>>,
         counted'["Total"] \in Nat, counted'["Total"] >= counted["Total"]
  PROVE  TotalBehind' /\ TotalsAgree'
  <1>1. counted["Total"] \in Nat /\ snap.total \in Nat
    BY CountTypes DEF SnapTyped
  <1> QED BY <1>1 DEF TotalBehind, TotalsAgree

\* Arithmetic of a late record that is added.
LEMMA OneMoves ==
  ASSUME NEW a \in Nat, NEW k \in Nat, NEW s \in Nat, NEW n \in Nat, NEW aa, NEW kk,
         aa = a + 1, kk = k + 1, a + kk <= s + n
  PROVE  aa + k <= s + n
  OBVIOUS

LEMMA TotalsStep ==
  ASSUME TotalsInv, Next
  PROVE  /\ CountsTyped' /\ Balanced' /\ TotalBehind' /\ TotalsAgree'
         /\ SnapTyped' /\ SnapPoints' /\ LateBounded'
  <1> DEFINE Goal == /\ CountsTyped' /\ Balanced' /\ TotalBehind' /\ TotalsAgree'
                     /\ SnapTyped' /\ SnapPoints' /\ LateBounded'
  <1> USE DEF TotalsInv
  <1>0. /\ BucketsTyped /\ RecordsTyped /\ Pointed /\ InPlace /\ now \in Nat
        /\ Len(buckets) \in Nat \ {0}
    BY BucketTypes DEF BucketInv
  <1>1. ASSUME NEW w \in Workers, NEW kind \in Kinds, Record(w, kind)  PROVE Goal
    <2>1. /\ step[w] = "none" /\ step' = [step EXCEPT ![w] = "load"]
          /\ rec' = [rec EXCEPT ![w] = [kind |-> kind, at |-> now, bucket |-> 0]]
          /\ Bump(IF kind \in Requests THEN "Total" ELSE kind)
          /\ UNCHANGED <<buckets, current, history, base, reader, snap>>
      BY <1>1 DEF Record, Goto, bucketVars, readVars
    <2>2. /\ step'[w] = "load" /\ rec'[w].kind = kind
          /\ \A v \in Workers \ {w} : step'[v] = step[v] /\ rec'[v] = rec[v]
      BY <1>0, <2>1 DEF RecordsTyped
    <2>3. SnapTyped' /\ SnapPoints' /\ LateBounded'
      <3>1. Late' \subseteq Late
        BY <2>1, <2>2 DEF Late
      <3> QED BY <1>0, <2>1, <3>1, LateStays
    <2>4. CASE kind \in Requests
      <3>1. "Total" \in Counters /\ Bump("Total")
        BY <2>1, <2>4 DEF Counters
      <3>2. w \notin Open /\ Open' = Open \cup {w}
        BY <2>1, <2>2, <2>4 DEF Open, Recording
      <3>3. Cardinality(Open') = Cardinality(Open) + 1 /\ Cardinality(Open) \in Nat
        BY <3>2, OneMore, SomeWorkers DEF Open
      <3>4. CountsTyped' /\ counted'["Total"] = counted["Total"] + 1 /\ Settled' = Settled
        BY <3>1, Bumped
      <3>5. Balanced'
        BY <3>3, <3>4, CountTypes DEF Balanced
      <3> QED BY <2>1, <2>3, <3>4, <3>5, CountTypes, CountsMove
    <2>5. CASE kind \notin Requests
      <3>1. kind \in Others
        BY <2>5, CollectorAssumption
      <3>2. /\ kind \in Counters /\ Bump(kind)
            /\ kind \notin {"Total", "Success", "Rejected", "Failed"}
        BY <2>1, <2>5, <3>1 DEF Counters, Others
      <3>3. Open' = Open
        BY <2>1, <2>2, <2>5 DEF Open, Recording
      <3>4. CountsTyped' /\ counted'["Total"] = counted["Total"] /\ Settled' = Settled
        BY <3>2, Bumped
      <3>5. Balanced'
        BY <3>3, <3>4 DEF Balanced
      <3> QED BY <2>1, <2>3, <3>4, <3>5, CountTypes, CountsMove
    <2> QED BY <2>4, <2>5
  <1>2. ASSUME NEW w \in Workers, RecordFailedRequest(w)  PROVE Goal
    <2>1. /\ step[w] = "none" /\ step' = [step EXCEPT ![w] = "fail"] /\ Bump("Total")
          /\ UNCHANGED <<buckets, current, history, base, rec, reader, snap>>
      BY <1>2 DEF RecordFailedRequest, Goto, bucketVars, readVars
    <2>2. step'[w] = "fail" /\ \A v \in Workers \ {w} : step'[v] = step[v]
      BY <1>0, <2>1 DEF RecordsTyped
    <2>3. SnapTyped' /\ SnapPoints' /\ LateBounded'
      <3>1. Late' \subseteq Late
        BY <2>1, <2>2 DEF Late
      <3> QED BY <1>0, <2>1, <3>1, LateStays
    <2>4. w \notin Open /\ Open' = Open \cup {w}
      BY <2>1, <2>2 DEF Open, Recording
    <2>5. Cardinality(Open') = Cardinality(Open) + 1 /\ Cardinality(Open) \in Nat
      BY <2>4, OneMore, SomeWorkers DEF Open
    <2>6. CountsTyped' /\ counted'["Total"] = counted["Total"] + 1 /\ Settled' = Settled
      BY <2>1, Bumped, CountTypes
    <2>7. Balanced'
      BY <2>5, <2>6, CountTypes DEF Balanced
    <2> QED BY <2>1, <2>3, <2>6, <2>7, CountTypes, CountsMove
  <1>3. ASSUME NEW w \in Workers, CountFailed(w)  PROVE Goal
    <2>1. /\ step[w] = "fail" /\ step' = [step EXCEPT ![w] = "none"] /\ Bump("Failed")
          /\ UNCHANGED <<buckets, current, history, base, rec, reader, snap>>
      BY <1>3 DEF CountFailed, Goto, bucketVars, readVars
    <2>2. step'[w] = "none" /\ \A v \in Workers \ {w} : step'[v] = step[v]
      BY <1>0, <2>1 DEF RecordsTyped
    <2>3. SnapTyped' /\ SnapPoints' /\ LateBounded'
      <3>1. Late' \subseteq Late
        BY <2>1, <2>2 DEF Late
      <3> QED BY <1>0, <2>1, <3>1, LateStays
    <2>4. w \in Open /\ Open' = Open \ {w}
      BY <2>1, <2>2 DEF Open, Recording
    <2>5. Cardinality(Open) = Cardinality(Open') + 1 /\ Cardinality(Open') \in Nat
      BY <2>4, OneMore, SomeWorkers DEF Open
    <2>6. CountsTyped' /\ counted'["Total"] = counted["Total"] /\ Settled' = Settled + 1
      BY <2>1, Bumped, CountTypes
    <2>7. Balanced'
      BY <2>5, <2>6, CountTypes DEF Balanced
    <2> QED BY <2>1, <2>3, <2>6, <2>7, CountTypes, CountsMove
  \* Steps of a record before the add: they count nothing, and lead to the
  \* current bucket, which no snapshot of a full second is of.
  <1>4. ASSUME NEW w \in Workers, Load(w) \/ Rotate(w) \/ Reload(w)  PROVE Goal
    <2>1. /\ step[w] \in Recording \ {"add"} /\ step'[w] \in Recording
          /\ rec'[w].kind = rec[w].kind
          /\ step'[w] = "add" => rec'[w].bucket = current
          /\ \A v \in Workers \ {w} : step'[v] = step[v] /\ rec'[v] = rec[v]
          /\ UNCHANGED <<counted, base, reader, snap>>
      <3>1. CASE Load(w)
        BY <1>0, <3>1 DEF Load, Point, Goto, RecordsTyped, Recording, bucketVars, readVars
      <3>2. CASE Rotate(w)
        <4>1. /\ step[w] = "rotate" /\ step' = [step EXCEPT ![w] = "reload"]
              /\ UNCHANGED <<counted, base, rec, reader, snap>>
          BY <3>2 DEF Rotate, Goto, readVars
        <4> QED BY <1>0, <4>1 DEF RecordsTyped, Recording
      <3>3. CASE Reload(w)
        BY <1>0, <3>3 DEF Reload, Point, Goto, RecordsTyped, Recording, bucketVars, readVars
      <3> QED BY <1>4, <3>1, <3>2, <3>3
    <2>2. /\ Len(buckets') \in Nat /\ Len(buckets') >= Len(buckets)
          /\ current' = current \/ current' = Len(buckets) + 1
          /\ \A b \in 1..Len(buckets) : buckets'[b] = buckets[b]
      <3>1. CASE Load(w) \/ Reload(w)
        BY <1>0, <3>1 DEF Load, Reload, bucketVars
      <3>2. CASE Rotate(w)
        <4>1. Rotated(rec[w].at) /\ rec[w].at \in Nat
          BY <1>0, <3>2, RecordTypes DEF Rotate
        <4> QED BY <1>0, <4>1, RotatedFacts, Appended
      <3> QED BY <1>4, <3>1, <3>2
    <2>3. Open' = Open
      BY <2>1 DEF Open, Recording
    <2>4. ASSUME snap.full, snap.bucket >= base
          PROVE  Late' \subseteq Late /\ buckets'[snap.bucket] = buckets[snap.bucket]
      <3>1. snap.bucket # current /\ snap.bucket \in 1..Len(buckets)
        BY <1>0, <2>4, BucketTypes DEF LateBounded, SnapPoints
      <3> QED BY <2>1, <2>2, <3>1 DEF Late
    <2>5. SnapTyped' /\ SnapPoints' /\ LateBounded'
      BY <2>1, <2>2, <2>4, LateStays
    <2> QED BY <2>1, <2>3, <2>5, CountsStay
  <1>5. ASSUME NEW w \in Workers, Add(w)  PROVE Goal
    <2>1. /\ step[w] = "add" /\ step' = [step EXCEPT ![w] = "none"]
          /\ rec' = [rec EXCEPT ![w] = NoRecord]
          /\ UNCHANGED <<current, history, base, reader, snap>>
      BY <1>5 DEF Add, Goto, readVars
    <2>2. step'[w] = "none" /\ \A v \in Workers \ {w} : step'[v] = step[v] /\ rec'[v] = rec[v]
      BY <1>0, <2>1 DEF RecordsTyped
    <2>3. IF rec[w].kind \in Requests THEN Bump(rec[w].kind) ELSE UNCHANGED counted
      BY <1>5 DEF Add
    <2>4. /\ Len(buckets') = Len(buckets)
          /\ \A b \in 1..Len(buckets) :
               buckets'[b].counts["Total"] =
                 IF b = rec[w].bucket /\ rec[w].kind \in Requests
                   THEN buckets[b].counts["Total"] + 1 ELSE buckets[b].counts["Total"]
      BY <1>0, <1>5, Added
    <2>5. CountsTyped' /\ Balanced' /\ TotalBehind' /\ TotalsAgree'
      <3>1. CASE rec[w].kind \in Requests
        <4>1. rec[w].kind \in Counters /\ rec[w].kind \in {"Success", "Rejected"}
          BY <3>1 DEF Counters, Requests
        <4>2. w \in Open /\ Open' = Open \ {w}
          BY <2>1, <2>2, <3>1 DEF Open, Recording
        <4>3. Cardinality(Open) = Cardinality(Open') + 1 /\ Cardinality(Open') \in Nat
          BY <4>2, OneMore, SomeWorkers DEF Open
        <4>4. CountsTyped' /\ counted'["Total"] = counted["Total"] /\ Settled' = Settled + 1
          BY <2>3, <3>1, <4>1, Bumped
        <4>5. Balanced'
          BY <4>3, <4>4, CountTypes DEF Balanced
        <4> QED BY <2>1, <4>4, <4>5, CountTypes, CountsMove
      <3>2. CASE rec[w].kind \notin Requests
        <4>1. Open' = Open
          BY <2>1, <2>2, <3>2 DEF Open, Recording
        <4> QED BY <2>1, <2>3, <3>2, <4>1, CountsStay
      <3> QED BY <3>1, <3>2
    <2>6. CASE w \in Late /\ snap.full /\ snap.bucket >= base
      <3>1. /\ snap.bucket \in 1..Len(buckets) /\ snap.bucket = rec[w].bucket
            /\ rec[w].kind \in Requests /\ snap.seen \in Nat
            /\ buckets[snap.bucket].counts["Total"] \in Nat
        BY <1>0, <2>6, BucketTypes DEF Late, SnapPoints, SnapTyped
      <3>2. buckets'[snap.bucket].counts["Total"] = buckets[snap.bucket].counts["Total"] + 1
        BY <2>4, <3>1
      <3>3. Late' = Late \ {w}
        BY <2>1, <2>2 DEF Late
      <3>4. Cardinality(Late) = Cardinality(Late') + 1 /\ Cardinality(Late') \in Nat
            /\ Cardinality(Workers) \in Nat
        BY <2>6, <3>3, OneMore, SomeWorkers DEF Late
      <3>5. snap.bucket # current
        BY <2>6 DEF LateBounded
      <3>6. ASSUME reader \in {"outcomes", "taken"}
            PROVE  buckets'[snap.bucket].counts["Total"] + Cardinality(Late')
                     <= snap.seen + Cardinality(Workers)
        <4>1. buckets[snap.bucket].counts["Total"] + Cardinality(Late)
                <= snap.seen + Cardinality(Workers)
          BY <2>6, <3>6 DEF LateBounded
        <4> QED BY <3>1, <3>2, <3>4, <4>1, OneMoves
      <3>7. LateBounded'
        BY <2>1, <3>5, <3>6 DEF LateBounded
      <3>8. SnapTyped' /\ SnapPoints'
        BY <2>1, <2>4 DEF SnapTyped, SnapPoints
      <3> QED BY <2>5, <3>7, <3>8
    <2>7. CASE ~(w \in Late /\ snap.full /\ snap.bucket >= base)
      <3>1. ASSUME snap.full, snap.bucket >= base
            PROVE  /\ Late' \subseteq Late
                   /\ buckets'[snap.bucket].counts["Total"] = buckets[snap.bucket].counts["Total"]
        <4>1. snap.bucket \in 1..Len(buckets) /\ w \notin Late
          BY <1>0, <2>7, <3>1, BucketTypes DEF SnapPoints
        <4>2. ~(snap.bucket = rec[w].bucket /\ rec[w].kind \in Requests)
          BY <2>1, <4>1 DEF Late
        <4>3. Late' \subseteq Late
          BY <2>1, <2>2 DEF Late
        <4> QED BY <2>4, <4>1, <4>2, <4>3
      <3> QED BY <1>0, <2>1, <2>4, <2>5, <3>1, LateStays
    <2> QED BY <2>6, <2>7
  <1>6. ASSUME Reset  PROVE Goal
    <2>1. /\ reader \notin {"bucket", "outcomes"} /\ \A w \in Workers : step[w] = "none"
          /\ counted' = NoCounts /\ buckets' = Append(buckets, NewBucket(now))
          /\ base' = Len(buckets') /\ UNCHANGED <<step, rec, reader, snap>>
      BY <1>6 DEF Reset, recordVars, readVars
    <2>2. Len(buckets') = Len(buckets) + 1
      BY <1>0, <2>1, Appended
    <2>3. SnapTyped' /\ SnapPoints' /\ LateBounded'
      BY <1>0, <2>1, <2>2 DEF SnapTyped, SnapPoints, LateBounded
    <2>4. Open' = {}
      BY <2>1 DEF Open, Recording
    <2>5. CountsTyped' /\ counted'["Total"] = 0 /\ Settled' = 0
      BY <2>1 DEF CountsTyped, NoCounts, Settled, Counters, Requests
    <2>6. Balanced'
      BY <2>4, <2>5, FS_EmptySet DEF Balanced
    <2>7. TotalBehind' /\ TotalsAgree'
      BY <2>1 DEF TotalBehind, TotalsAgree
    <2> QED BY <2>3, <2>5, <2>6, <2>7
  <1>7. ASSUME Snapshot  PROVE Goal
    <2>1. PICK full \in BOOLEAN :
            snap' = [NoSnapshot EXCEPT !.bucket = BucketOf(full), !.full = full]
      BY <1>7 DEF Snapshot
    <2>2. reader' = "total" /\ UNCHANGED <<counted, buckets, current, history, base, step, rec>>
      BY <1>7 DEF Snapshot, bucketVars, recordVars
    <2>3. /\ BucketOf(full) \in 0..Len(buckets)
          /\ full => BucketOf(full) = 0 \/ BucketOf(full) # current
      BY <1>0, BucketTypes DEF BucketOf, BucketsTyped, BucketInv, Archives
    <2>4. snap'.bucket = BucketOf(full) /\ snap'.full = full
      BY <2>1 DEF NoSnapshot
    <2>5. SnapTyped' /\ SnapPoints'
      <3>1. snap' = [bucket |-> BucketOf(full), full |-> full,
                     total |-> 0, seen |-> 0, settled |-> 0]
        BY <2>1 DEF NoSnapshot
      <3>2. BucketOf(full) \in Nat
        BY <1>0, <2>3
      <3>3. SnapTyped'
        BY <2>2, <3>1, <3>2 DEF SnapTyped
      <3> QED BY <2>2, <2>3, <2>4, <3>3 DEF SnapPoints
    <2>6. LateBounded'
      <3>1. base \in Nat \ {0}
        BY <1>0, BucketTypes
      <3>2. ASSUME full, BucketOf(full) >= base  PROVE BucketOf(full) # current
        <4>1. ~(0 >= base)
          BY <3>1
        <4> QED BY <2>3, <3>2, <4>1, Zenon
      <3>3. reader' \notin {"outcomes", "taken"}
        BY <2>2
      <3> QED BY <2>2, <2>4, <3>2, <3>3 DEF LateBounded
    <2>7. CountsTyped' /\ Balanced' /\ TotalBehind' /\ TotalsAgree'
      BY <2>2 DEF CountsTyped, Balanced, TotalBehind, TotalsAgree, Settled, Open
    <2> QED BY <2>5, <2>6, <2>7
  <1>8. ASSUME Read  PROVE Goal
    <2>1. UNCHANGED <<counted, step, rec>>
      BY <1>8 DEF Read, recordVars
    <2>2. CountsTyped' /\ Balanced'
      BY <2>1 DEF CountsTyped, Balanced, Settled, Open
    <2> QED BY <1>8, <2>2, ReadStep
  <1>9. ASSUME Tick \/ \E t \in 1..(now - 1) : StepBack(t)  PROVE Goal
    <2>1. UNCHANGED <<counted, buckets, current, base, step, rec, reader, snap>>
      BY <1>9 DEF Tick, StepBack, bucketVars, recordVars, readVars
    <2>2. Open' = Open /\ Late' = Late
      BY <2>1 DEF Open, Late
    <2> QED BY <1>0, <2>1, <2>2, CountsStay, LateStays
  <1> QED BY <1>1, <1>2, <1>3, <1>4, <1>5, <1>6, <1>7, <1>8, <1>9 DEF Next

LEMMA TotalsInvInit == Init => TotalsInv
  <1> SUFFICES ASSUME Init PROVE TotalsInv
    OBVIOUS
  <1>1. BucketInv
    BY BucketInvInit
  <1>2. /\ counted = NoCounts /\ step = [w \in Workers |-> "none"]
        /\ reader = "none" /\ snap = NoSnapshot
    BY DEF Init
  <1>3. CountsTyped /\ counted["Total"] = 0 /\ Settled = 0
    BY <1>2 DEF CountsTyped, NoCounts, Settled, Counters, Requests
  <1>4. Open = {}
    BY <1>2 DEF Open, Recording
  <1>5. Balanced
    BY <1>3, <1>4, FS_EmptySet DEF Balanced
  <1>6. snap.bucket = 0 /\ ~snap.full /\ SnapTyped
    BY <1>2 DEF NoSnapshot, SnapTyped
  <1>7. SnapPoints /\ LateBounded
    <2>1. Len(buckets) \in Nat
      BY <1>1, BucketTypes DEF BucketInv
    <2> QED BY <1>6, <2>1 DEF SnapPoints, LateBounded
  <1>8. TotalBehind /\ TotalsAgree
    BY <1>2 DEF TotalBehind, TotalsAgree
  <1> QED BY <1>1, <1>3, <1>5, <1>6, <1>7, <1>8 DEF TotalsInv

LEMMA TotalsInvStep == TotalsInv /\ [Next]_vars => TotalsInv'
  <1> SUFFICES ASSUME TotalsInv, [Next]_vars PROVE TotalsInv'
    OBVIOUS
  <1>1. BucketInv'
    BY BucketInvStep DEF TotalsInv
  <1>2. CASE Next
    BY <1>1, <1>2, TotalsStep DEF TotalsInv
  <1>3. CASE UNCHANGED vars
    <2>1. UNCHANGED <<counted, buckets, current, base, step, rec, reader, snap>>
      BY <1>3 DEF vars, bucketVars, recordVars, readVars
    <2>2. Open' = Open /\ Late' = Late
      BY <2>1 DEF Open, Late
    <2>3. CountsTyped' /\ Balanced' /\ TotalBehind' /\ TotalsAgree'
      BY <2>1, <2>2, CountsStay DEF TotalsInv
    <2>4. Len(buckets) \in Nat
      BY BucketTypes DEF TotalsInv, BucketInv
    <2>5. SnapTyped' /\ SnapPoints' /\ LateBounded'
      BY <2>1, <2>2, <2>4, LateStays
    <2> QED BY <1>1, <2>3, <2>5 DEF TotalsInv
  <1> QED BY <1>2, <1>3

LEMMA CollectorCounts == Spec => []TotalsInv
  BY TotalsInvInit, TotalsInvStep, PTL DEF Spec

(***************************************************************************)
(* The total of a snapshot exceeds the sum of its outcomes by no more than *)
(* the number of recorders, wherever they are when createSnapshotFromBucket *)
(* reads the counters.                                                     *)
(***************************************************************************)
THEOREM CollectorTotalsAgree == Spec => []TotalsAgree
  <1>1. TotalsInv => TotalsAgree
    BY DEF TotalsInv
  <1> QED BY CollectorCounts, <1>1, PTL

(***************************************************************************)
(* A snapshot of a completed second misses no more than one record of each *)
(* recorder, however late these add to the bucket they loaded.             *)
(***************************************************************************)
THEOREM CollectorFewLate == Spec => []FewLateRecords
  <1>1. ASSUME TotalsInv PROVE FewLateRecords
    <2> SUFFICES ASSUME reader \in {"outcomes", "taken"}, snap.bucket >= base, snap.full
                 PROVE  buckets[snap.bucket].counts["Total"] <= snap.seen + Cardinality(Workers)
      BY DEF FewLateRecords
    <2>1. buckets[snap.bucket].counts["Total"] + Cardinality(Late)
            <= snap.seen + Cardinality(Workers)
      BY <1>1 DEF TotalsInv, LateBounded
    <2>2. /\ Cardinality(Late) \in Nat /\ Cardinality(Workers) \in Nat
          /\ snap.seen \in Nat /\ buckets[snap.bucket].counts["Total"] \in Nat
      <3>1. snap.bucket \in 1..Len(buckets)
        BY <1>1, BucketTypes DEF TotalsInv, BucketInv, SnapPoints
      <3>2. Cardinality(Late) \in Nat /\ Cardinality(Workers) \in Nat
        BY SomeWorkers DEF Late
      <3>3. snap.seen \in Nat
        BY <1>1 DEF TotalsInv, SnapTyped
      <3> QED BY <1>1, <3>1, <3>2, <3>3, BucketTypes DEF TotalsInv, BucketInv
    <2> QED BY <2>1, <2>2
  <1> QED BY CollectorCounts, <1>1, PTL
=============================================================================
