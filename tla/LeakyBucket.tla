---------------------------- MODULE LeakyBucket ----------------------------
(***************************************************************************)
(* The leaky bucket limiter (pkg/ratelimiter/limiter.go, lines 393-480).   *)
(* The water level rises with every admitted request and drains with time. *)
(* It is the token bucket seen from the other side: the room left in the   *)
(* bucket is the number of tokens, and every answer is the same.           *)
(***************************************************************************)
EXTENDS BucketLog

VARIABLES
  present,    \* whether shard.state has an entry for the key
  water,      \* state.water, in units
  lastUpdate  \* state.lastUpdate

bucketVars == <<present, water, lastUpdate>>
vars == <<now, since, admitted, resets, answer, present, water, lastUpdate>>

TypeOK ==
  /\ LogTypeOK
  /\ present \in [Keys -> BOOLEAN]
  /\ water \in [Keys -> 0..Capacity]
  /\ lastUpdate \in [Keys -> Nat]
  /\ \A k \in Keys : lastUpdate[k] <= now

Init ==
  /\ LogInit
  /\ present = [k \in Keys |-> FALSE]
  /\ water = [k \in Keys |-> 0]
  /\ lastUpdate = [k \in Keys |-> 0]

\* A slip: the level drains below the bottom.
DrainedBelow(k) ==
  IF present[k] THEN water[k] - (now - lastUpdate[k]) * Rate ELSE 0

\* state.water once the elapsed time has drained it; a new key is empty.
Drained(k) ==
  LET level == water[k] - (now - lastUpdate[k]) * Rate IN
  IF present[k] /\ level >= 0 THEN level ELSE 0

\* A slip: a rejected request fills the bucket.
AllowNFilling(k, n) ==
  LET ok == Drained(k) + Unit * n <= Capacity
      level == IF ok THEN Drained(k) + Unit * n ELSE Capacity IN
  /\ present' = [present EXCEPT ![k] = TRUE]
  /\ water' = [water EXCEPT ![k] = level]
  /\ lastUpdate' = [lastUpdate EXCEPT ![k] = now]
  /\ Answered(k, n, ok, Capacity - level, Drained(k) + Unit * n - Capacity)
  /\ UNCHANGED now

AllowN(k, n) ==
  LET ok == Drained(k) + Unit * n <= Capacity
      level == IF ok THEN Drained(k) + Unit * n ELSE Drained(k) IN
  /\ present' = [present EXCEPT ![k] = TRUE]
  /\ water' = [water EXCEPT ![k] = level]
  /\ lastUpdate' = [lastUpdate EXCEPT ![k] = now]
  /\ Answered(k, n, ok, Capacity - level, Drained(k) + Unit * n - Capacity)
  /\ UNCHANGED now

\* Reset deletes the entry of the key.
Reset(k) ==
  /\ present' = [present EXCEPT ![k] = FALSE]
  /\ water' = [water EXCEPT ![k] = 0]
  /\ lastUpdate' = [lastUpdate EXCEPT ![k] = 0]
  /\ Forgotten(k)
  /\ UNCHANGED now

Next ==
  \/ \E k \in Keys : \/ \E n \in Costs : AllowN(k, n)
                     \/ Reset(k)
                     \/ Observe(k) /\ UNCHANGED bucketVars
  \/ Tick /\ UNCHANGED bucketVars

Spec == Init /\ [][Next]_vars

-----------------------------------------------------------------------------

\* The room in the bucket, as a function of the key.
Room == [k \in Keys |-> Capacity - water[k]]

TB == INSTANCE TokenBucket WITH tokens <- Room

(***************************************************************************)
(* Refinement: the leaky bucket answers every sequence of calls as the     *)
(* token bucket of the same rate and burst does (Allowed, Remaining and    *)
(* RetryAfter, lines 455-469 against 185-199).                             *)
(***************************************************************************)
IsTokenBucket == TB!Spec

(***************************************************************************)
(* RetryAfter is tight for the leaky bucket as well (lines 465-468): the   *)
(* room for a rejected request that fits the bucket is not there before    *)
(* the announced time and is there after it, unless the key is reset or    *)
(* somebody else is admitted meanwhile.                                    *)
(***************************************************************************)
RetryAfterTight == TB!RetryAfterTight
=============================================================================
