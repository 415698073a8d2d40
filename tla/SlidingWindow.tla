--------------------------- MODULE SlidingWindow ---------------------------
(***************************************************************************)
(* The sliding window limiter (pkg/ratelimiter/limiter.go, lines 212-310): *)
(* two counters, the previous one meant to be weighted by the part of its  *)
(* window that a sliding window would still cover.                         *)
(***************************************************************************)
EXTENDS WindowLog

VARIABLES
  present,     \* whether shard.state has an entry for the key
  prevCount,   \* state.prevCount
  currCount,   \* state.currCount
  windowStart  \* state.windowStart

entryVars == <<present, prevCount, currCount, windowStart>>
vars == <<now, backs, lowest, highest, admitted, answer,
          present, prevCount, currCount, windowStart>>

TypeOK ==
  /\ LogTypeOK
  /\ present \in [Keys -> BOOLEAN]
  /\ prevCount \in [Keys -> Nat]
  /\ currCount \in [Keys -> Nat]
  /\ windowStart \in [Keys -> Nat]

Init ==
  /\ LogInit
  /\ present = [k \in Keys |-> FALSE]
  /\ prevCount = [k \in Keys |-> 0]
  /\ currCount = [k \in Keys |-> 0]
  /\ windowStart = [k \in Keys |-> 0]

\* The entry as the call finds it: a new one starts in the clock's window.
Start(k) == IF present[k] THEN windowStart[k] ELSE Truncate(now)

\* A slip: a clock that stepped back moves the entry back.
MovesEither(k) == Truncate(now) # Start(k)

Moves(k) == Truncate(now) > Start(k)

\* The test of line 269 for a gap of windows.  It is >=, although line 270 says
\* "More than one window has passed"; see PreviousWeighted.
Skips(k) == Truncate(now) - Start(k) >= Window

\* The two counters after the window transition.
Prev(k) == IF ~Moves(k) THEN prevCount[k] ELSE IF Skips(k) THEN 0 ELSE currCount[k]
Curr(k) == IF Moves(k) THEN 0 ELSE currCount[k]

\* int64(weightedCount)
Weighted(k) ==
  Curr(k) + (Prev(k) * (Window - (now - Truncate(now)))) \div Window

AllowN(k, n) ==
  LET ok == Weighted(k) + n <= Rate IN
  /\ present' = [present EXCEPT ![k] = TRUE]
  /\ prevCount' = [prevCount EXCEPT ![k] = Prev(k)]
  /\ currCount' = [currCount EXCEPT ![k] = IF ok THEN Curr(k) + n ELSE Curr(k)]
  /\ windowStart' = [windowStart EXCEPT ![k] = IF Moves(k) THEN Truncate(now) ELSE Start(k)]
  /\ Answered(k, n, ok, IF ok THEN Rate - Weighted(k) - n ELSE Rate - Weighted(k))

\* Reset deletes the entry of the key.
Reset(k) ==
  /\ present' = [present EXCEPT ![k] = FALSE]
  /\ prevCount' = [prevCount EXCEPT ![k] = 0]
  /\ currCount' = [currCount EXCEPT ![k] = 0]
  /\ windowStart' = [windowStart EXCEPT ![k] = 0]
  /\ Forgotten(k)

Next ==
  \/ \E k \in Keys : \/ \E n \in Costs : AllowN(k, n)
                     \/ Reset(k)
                     \/ Observe(k) /\ UNCHANGED entryVars
  \/ Clock /\ UNCHANGED entryVars

Spec == Init /\ [][Next]_vars

-----------------------------------------------------------------------------

FW == INSTANCE FixedWindow WITH count <- currCount

(***************************************************************************)
(* What the comments of AllowN say: the previous count is dropped when     *)
(* "More than one window has passed" (line 270), otherwise it is carried   *)
(* over ("Move to next window", line 274) and enters the "weighted count   *)
(* using sliding window" (line 281).  So in the window right after that of *)
(* the entry, the count of the entry weighs as much as the sliding window  *)
(* still covers of it.  The code does not do this: two truncated times     *)
(* that differ do so by at least a window, and line 269 drops the count.   *)
(***************************************************************************)
PreviousWeighted ==
  \A k \in Keys :
    present[k] /\ Truncate(now) - windowStart[k] = Window =>
      Weighted(k) = (currCount[k] * (Window - (now - Truncate(now)))) \div Window

(***************************************************************************)
(* What the code does instead: the previous counter never holds anything   *)
(* (line 275 is never reached), and the limiter answers exactly as the     *)
(* fixed window limiter does.                                              *)
(***************************************************************************)
IsFixedWindow == FW!Spec

(***************************************************************************)
(* RetryAfter is exact while the clock does not step back: a rejected      *)
(* request of at most Rate fits the weighted count from the announced time *)
(* on, and not before, unless another call or a Reset intervenes (lines    *)
(* 281-300).                                                               *)
(***************************************************************************)
RetryAfterExact ==
  \A k \in Keys :
    LET a == answer[k] IN
    backs = 0 /\ ~a.allowed /\ a.n <= Rate =>
      (now >= a.resetAt <=> Weighted(k) + a.n <= Rate)
=============================================================================
