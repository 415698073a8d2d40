------------------------- MODULE RemoteTokenServer -------------------------
(***************************************************************************)
(* The centralized token server that every LocalCachedLimiter draws from   *)
(* (pkg/ratelimiter/localcached.go, type RemoteTokenServer).               *)
(*                                                                         *)
(* RequestTokens runs entirely under the server's mutex, so one call is    *)
(* one step.  The server grants a batch in full as long as its balance is  *)
(* not negative; the batch may push the balance below zero (debt), and     *)
(* until the debt is refilled every further request is refused.            *)
(*                                                                         *)
(* Time is a count of clock ticks (the resolution of time.Duration).  The  *)
(* float64 balance is an integer number of units: Unit units make a token  *)
(* and Rate units are refilled per tick, so a tick can be worth a fraction *)
(* of a token and the truncation in the wait computation is kept.          *)
(***************************************************************************)
EXTENDS Integers

CONSTANTS
  Unit,       \* units in one token
  Rate,       \* units refilled per tick (s.rate)
  Burst,      \* initial balance in tokens
  MaxBatch,   \* the largest batch a limiter asks for
  MaxTime     \* bound on the clock

ASSUME RemoteAssumption ==
  /\ Unit \in Nat \ {0}
  /\ Rate \in Nat \ {0}
  /\ Burst \in Nat
  /\ MaxBatch \in Nat
  /\ MaxTime \in Nat

VARIABLES
  now,         \* time.Now()
  tokens,      \* s.tokens, in units; negative while in debt
  lastRefill,  \* s.lastRefill
  granted      \* history: tokens granted so far

remoteVars == <<tokens, lastRefill, granted>>
serverVars == <<now, tokens, lastRefill, granted>>

RemoteTypeOK ==
  /\ now \in Nat
  /\ tokens \in Int
  /\ lastRefill \in 0..now
  /\ granted \in Nat

-----------------------------------------------------------------------------

\* NewRemoteTokenServer: the bucket starts full.
RemoteInit ==
  /\ now = 0
  /\ tokens = Unit * Burst
  /\ lastRefill = 0
  /\ granted = 0

\* The balance once the elapsed time is credited.  Burst does not cap it.
Refilled == tokens + (now - lastRefill) * Rate

\* A slip: the wait is computed from whole tokens instead of the deficit.
WaitForTokens(balance) ==
  IF balance < 0 THEN (Unit - balance) \div Rate ELSE 0

\* Ticks until the balance is back at zero, truncated by time.Duration.
WaitFor(balance) ==
  IF balance < 0 THEN (-balance) \div Rate ELSE 0

InDebt == Refilled < 0

BalanceAfter(n) == IF InDebt THEN Refilled ELSE Refilled - Unit * n

\* The pair that RequestTokens(n) returns.
Reply(n) ==
  [granted |-> IF InDebt THEN 0 ELSE n, retryAfter |-> WaitFor(BalanceAfter(n))]

\* A slip: a refused request does not restart the refill interval, although
\* its refill has been credited already.
RequestTokensTwice(n) ==
  /\ tokens' = BalanceAfter(n)
  /\ lastRefill' = IF InDebt THEN lastRefill ELSE now
  /\ granted' = granted + Reply(n).granted

RequestTokens(n) ==
  /\ tokens' = BalanceAfter(n)
  /\ lastRefill' = now
  /\ granted' = granted + Reply(n).granted

Tick ==
  /\ now < MaxTime
  /\ now' = now + 1
  /\ UNCHANGED remoteVars

RemoteNext ==
  \/ Tick
  \/ \E n \in 0..MaxBatch : RequestTokens(n) /\ UNCHANGED now

RemoteSpec == RemoteInit /\ [][RemoteNext]_serverVars

-----------------------------------------------------------------------------

(***************************************************************************)
(* However the requests of several limiters fall together, the debt never  *)
(* exceeds one batch: a request that would deepen it is refused (lines     *)
(* 45-51), so only the request that crosses zero can go below it.          *)
(***************************************************************************)
DebtBounded == tokens >= -(Unit * MaxBatch)

(***************************************************************************)
(* Every unit is accounted for: what is left plus what was granted is the  *)
(* initial burst plus the refill of the time credited so far.  No refill   *)
(* is credited twice or lost across refused and granted requests.          *)
(***************************************************************************)
Accounting == tokens + Unit * granted = Unit * Burst + Rate * lastRefill

(***************************************************************************)
(* The rate limit itself: what the server has granted up to now is at most *)
(* the burst, one batch of debt, and Rate units per elapsed tick.          *)
(***************************************************************************)
GrantsBounded == Unit * granted <= Unit * Burst + Unit * MaxBatch + Rate * now

(***************************************************************************)
(* The wait returned with a reply is honest: no request is granted before  *)
(* the wait that the previous reply announced is over (lines 46-50, 59-64).*)
(***************************************************************************)
GrantOnlyAfterWait ==
  [][granted' > granted => now >= lastRefill + WaitFor(tokens)]_serverVars
=============================================================================
