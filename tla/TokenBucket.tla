---------------------------- MODULE TokenBucket ----------------------------
(***************************************************************************)
(* The token bucket limiter (pkg/ratelimiter/limiter.go, lines 122-210).   *)
(* AllowN and Reset run entirely under the mutex of the key's shard, so    *)
(* each is one step.  Close sets a flag that no method reads.              *)
(***************************************************************************)
EXTENDS BucketLog

VARIABLES
  present,    \* whether shard.state has an entry for the key
  tokens,     \* state.tokens, in units
  lastUpdate  \* state.lastUpdate

bucketVars == <<present, tokens, lastUpdate>>
vars == <<now, since, admitted, resets, answer, present, tokens, lastUpdate>>

TypeOK ==
  /\ LogTypeOK
  /\ present \in [Keys -> BOOLEAN]
  /\ tokens \in [Keys -> 0..Capacity]
  /\ lastUpdate \in [Keys -> Nat]
  /\ \A k \in Keys : lastUpdate[k] <= now

Init ==
  /\ LogInit
  /\ present = [k \in Keys |-> FALSE]
  /\ tokens = [k \in Keys |-> Capacity]
  /\ lastUpdate = [k \in Keys |-> 0]

\* state.tokens once the elapsed time is credited; a new key has a full bucket.
Available(k) ==
  LET refilled == tokens[k] + (now - lastUpdate[k]) * Rate IN
  IF present[k] /\ refilled <= Capacity THEN refilled ELSE Capacity

AllowN(k, n) ==
  LET ok == Available(k) >= Unit * n
      left == IF ok THEN Available(k) - Unit * n ELSE Available(k) IN
  /\ present' = [present EXCEPT ![k] = TRUE]
  /\ tokens' = [tokens EXCEPT ![k] = left]
  /\ lastUpdate' = [lastUpdate EXCEPT ![k] = now]
  /\ Answered(k, n, ok, left, Unit * n - Available(k))
  /\ UNCHANGED now

\* Reset deletes the entry of the key.
Reset(k) ==
  /\ present' = [present EXCEPT ![k] = FALSE]
  /\ tokens' = [tokens EXCEPT ![k] = Capacity]
  /\ lastUpdate' = [lastUpdate EXCEPT ![k] = 0]
  /\ Forgotten(k)
  /\ UNCHANGED now

Next ==
  \/ \E k \in Keys : \/ \E n \in Costs : AllowN(k, n)
                     \/ Reset(k)
                     \/ Observe(k) /\ UNCHANGED bucketVars
  \/ Tick /\ UNCHANGED bucketVars

Spec == Init /\ [][Next]_vars

-----------------------------------------------------------------------------

\* The last call for the key was rejected, and its tokens are to come.
Promised(k) == answer[k].n > 0 /\ ~answer[k].allowed

(***************************************************************************)
(* RetryAfter is tight for a request that fits the bucket: before the      *)
(* announced time its tokens are not there, after it they are (up to the   *)
(* tick that time.Duration truncates), unless somebody was admitted or the *)
(* key was reset in the meantime (lines 196-198).                          *)
(***************************************************************************)
RetryAfterTight ==
  \A k \in Keys :
    LET a == answer[k] IN
    Promised(k) /\ a.n <= Burst =>
      /\ now < a.retryAt => Available(k) < Unit * a.n
      /\ now > a.retryAt => Available(k) >= Unit * a.n
=============================================================================
