----------------------------- MODULE BucketLog -----------------------------
(***************************************************************************)
(* What the token bucket and the leaky bucket of pkg/ratelimiter/          *)
(* limiter.go share: their configuration, the clock, and a log of the      *)
(* answers AllowN gave for each key.                                       *)
(*                                                                         *)
(* Unit is the number of clock ticks in a second and also the number of    *)
(* units in a token: a rate of Rate tokens per second is Rate units per    *)
(* tick, so the float64 balances are exact integers here.  The readings    *)
(* the code subtracts carry Go's monotonic clock, which never steps back.  *)
(***************************************************************************)
EXTENDS Integers

CONSTANTS
  Keys,         \* rate limit keys
  Costs,        \* the values of n in AllowN(ctx, key, n)
  Unit,         \* ticks per second, units per token
  Rate,         \* config.Rate, tokens per second
  ConfigBurst,  \* config.Burst, not positive when left out
  MaxTime,      \* bound on the clock
  MaxResets     \* bound on the number of Reset calls per observation

ASSUME BucketAssumption ==
  /\ Costs \subseteq Nat \ {0}
  /\ Unit \in Nat \ {0}
  /\ Rate \in Nat \ {0}      \* "rate must be positive"
  /\ ConfigBurst \in Int
  /\ MaxTime \in Nat
  /\ MaxResets \in Nat

\* The burst, by default the rate; and the capacity of a bucket in units.
Burst == IF ConfigBurst <= 0 THEN Rate ELSE ConfigBurst
Capacity == Unit * Burst

VARIABLES
  now,       \* time.Now()
  since,     \* history: start of the current observation of a key
  admitted,  \* history: tokens admitted for it since then
  resets,    \* history: Reset calls since then
  answer     \* history: the last result for the key

logVars == <<since, admitted, resets, answer>>

NoAnswer == [n |-> 0, allowed |-> TRUE, remaining |-> 0, retryAt |-> 0]

LogTypeOK ==
  /\ now \in Nat
  /\ since \in [Keys -> Nat]
  /\ \A k \in Keys : since[k] <= now
  /\ admitted \in [Keys -> Nat]
  /\ resets \in [Keys -> Nat]
  /\ answer \in [Keys -> [n : Nat, allowed : BOOLEAN, remaining : Nat, retryAt : Nat]]

LogInit ==
  /\ now = 0
  /\ since = [k \in Keys |-> 0]
  /\ admitted = [k \in Keys |-> 0]
  /\ resets = [k \in Keys |-> 0]
  /\ answer = [k \in Keys |-> NoAnswer]

\* The RateLimitResult of a call: balance is what is left in the bucket after
\* it, short is what was missing.  Both conversions truncate.
Answered(k, n, ok, balance, short) ==
  /\ answer' = [answer EXCEPT ![k] =
                  [n |-> n, allowed |-> ok, remaining |-> balance \div Unit,
                   retryAt |-> IF ok THEN 0 ELSE now + (short \div Rate)]]
  /\ admitted' = [admitted EXCEPT ![k] = IF ok THEN @ + n ELSE @]
  /\ UNCHANGED <<since, resets>>

\* After Reset the last answer says nothing about the key any more.
Forgotten(k) ==
  /\ resets[k] < MaxResets
  /\ resets' = [resets EXCEPT ![k] = @ + 1]
  /\ answer' = [answer EXCEPT ![k] = NoAnswer]
  /\ UNCHANGED <<since, admitted>>

\* Start to count anew: an interval may begin at any moment.
Observe(k) ==
  /\ since' = [since EXCEPT ![k] = now]
  /\ admitted' = [admitted EXCEPT ![k] = 0]
  /\ resets' = [resets EXCEPT ![k] = 0]
  /\ UNCHANGED <<now, answer>>

Tick ==
  /\ now < MaxTime
  /\ now' = now + 1
  /\ UNCHANGED logVars

(***************************************************************************)
(* The limit over an interval: whenever the observation began, the tokens  *)
(* admitted for a key since then are at most one full bucket plus the      *)
(* refill of the time since then; each Reset of the key adds one bucket.   *)
(***************************************************************************)
IntervalBound ==
  \A k \in Keys :
    Unit * admitted[k] <= Capacity * (1 + resets[k]) + Rate * (now - since[k])
=============================================================================
