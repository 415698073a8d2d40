---------------------------- MODULE FixedWindow ----------------------------
(***************************************************************************)
(* The fixed window limiter (pkg/ratelimiter/limiter.go, lines 312-391).   *)
(* AllowN and Reset run entirely under the mutex of the key's shard, so    *)
(* each is one step.                                                       *)
(***************************************************************************)
EXTENDS WindowLog

VARIABLES
  present,     \* whether shard.state has an entry for the key
  count,       \* state.count
  windowStart  \* state.windowStart

entryVars == <<present, count, windowStart>>
vars == <<now, backs, lowest, highest, admitted, answer,
          present, count, windowStart>>

TypeOK ==
  /\ LogTypeOK
  /\ present \in [Keys -> BOOLEAN]
  /\ count \in [Keys -> 0..Rate]
  /\ windowStart \in [Keys -> Nat]

Init ==
  /\ LogInit
  /\ present = [k \in Keys |-> FALSE]
  /\ count = [k \in Keys |-> 0]
  /\ windowStart = [k \in Keys |-> 0]

\* The entry of the key is still good: it exists and its window is not over.
Current(k) == present[k] /\ windowStart[k] >= Truncate(now)

CountNow(k) == IF Current(k) THEN count[k] ELSE 0

AllowN(k, n) ==
  LET ok == CountNow(k) + n <= Rate
      counted == IF ok THEN CountNow(k) + n ELSE CountNow(k) IN
  /\ present' = [present EXCEPT ![k] = TRUE]
  /\ count' = [count EXCEPT ![k] = counted]
  /\ windowStart' = [windowStart EXCEPT ![k] = IF Current(k) THEN @ ELSE Truncate(now)]
  /\ Answered(k, n, ok, Rate - counted)

\* Reset deletes the entry of the key.
Reset(k) ==
  /\ present' = [present EXCEPT ![k] = FALSE]
  /\ count' = [count EXCEPT ![k] = 0]
  /\ windowStart' = [windowStart EXCEPT ![k] = 0]
  /\ Forgotten(k)

Next ==
  \/ \E k \in Keys : \/ \E n \in Costs : AllowN(k, n)
                     \/ Reset(k)
                     \/ Observe(k) /\ UNCHANGED entryVars
  \/ Clock /\ UNCHANGED entryVars

Spec == Init /\ [][Next]_vars
=============================================================================
