----------------------------- MODULE WindowLog -----------------------------
(***************************************************************************)
(* What the fixed window and the sliding window limiter of pkg/            *)
(* ratelimiter/limiter.go share: their configuration, the clock, and a log *)
(* of the answers AllowN gave for each key.                                *)
(*                                                                         *)
(* time.Truncate strips the monotonic reading, so windows are compared by  *)
(* the wall clock, which an adjustment may step back.                      *)
(***************************************************************************)
EXTENDS Integers

CONSTANTS
  Keys,          \* rate limit keys
  Costs,         \* the values of n in AllowN(ctx, key, n)
  Rate,          \* config.Rate, requests per window
  Second,        \* ticks in a second
  ConfigWindow,  \* config.Window in ticks, not positive when left out
  MaxTime,       \* bound on the clock
  MaxBacks       \* bound on the number of times the clock steps back

ASSUME WindowAssumption ==
  /\ Costs \subseteq Nat \ {0}
  /\ Rate \in Nat \ {0}      \* "rate must be positive"
  /\ Second \in Nat \ {0}
  /\ ConfigWindow \in Int
  /\ MaxTime \in Nat
  /\ MaxBacks \in Nat

\* The window, by default a second.
Window == IF ConfigWindow <= 0 THEN Second ELSE ConfigWindow

VARIABLES
  now,       \* time.Now(), the wall clock
  backs,     \* history: how often it stepped back
  lowest,    \* history: its lowest reading since the observation of a key began
  highest,   \* history: its highest reading since then
  admitted,  \* history: requests admitted for the key since then
  answer     \* history: the last result for the key

clockVars == <<now, backs, lowest, highest>>
countVars == <<admitted, answer>>

NoAnswer == [n |-> 0, allowed |-> TRUE, remaining |-> 0, resetAt |-> 0]

LogTypeOK ==
  /\ now \in Nat
  /\ backs \in Nat
  /\ lowest \in [Keys -> Nat]
  /\ highest \in [Keys -> Nat]
  /\ \A k \in Keys : lowest[k] <= now /\ now <= highest[k]
  /\ admitted \in [Keys -> Nat]
  /\ answer \in [Keys -> [n : Nat, allowed : BOOLEAN, remaining : Nat, resetAt : Nat]]

LogInit ==
  /\ now = 0
  /\ backs = 0
  /\ lowest = [k \in Keys |-> 0]
  /\ highest = [k \in Keys |-> 0]
  /\ admitted = [k \in Keys |-> 0]
  /\ answer = [k \in Keys |-> NoAnswer]

\* now.Truncate(window)
Truncate(t) == t - (t % Window)

\* A slip: a whole window is announced, whatever is left of the current one.
AnsweredWholeWindow(k, n, ok, remaining) ==
  /\ answer' = [answer EXCEPT ![k] =
                  [n |-> n, allowed |-> ok, remaining |-> remaining,
                   resetAt |-> now + Window]]
  /\ admitted' = [admitted EXCEPT ![k] = IF ok THEN @ + n ELSE @]
  /\ UNCHANGED clockVars

\* The RateLimitResult of a call.  ResetAfter, and RetryAfter of a rejected
\* request, end with the window of the clock.
Answered(k, n, ok, remaining) ==
  /\ answer' = [answer EXCEPT ![k] =
                  [n |-> n, allowed |-> ok, remaining |-> remaining,
                   resetAt |-> now + (Window - (now - Truncate(now)))]]
  /\ admitted' = [admitted EXCEPT ![k] = IF ok THEN @ + n ELSE @]
  /\ UNCHANGED clockVars

\* Start to count anew.
Restart(k) ==
  /\ lowest' = [lowest EXCEPT ![k] = now]
  /\ highest' = [highest EXCEPT ![k] = now]
  /\ admitted' = [admitted EXCEPT ![k] = 0]
  /\ UNCHANGED <<now, backs>>

\* An interval may begin at any moment.
Observe(k) == Restart(k) /\ UNCHANGED answer

\* Reset begins a new one, and the last answer says nothing any more.
Forgotten(k) == Restart(k) /\ answer' = [answer EXCEPT ![k] = NoAnswer]

Tick ==
  /\ now < MaxTime
  /\ now' = now + 1
  /\ highest' = [k \in Keys |-> IF highest[k] < now' THEN now' ELSE highest[k]]
  /\ UNCHANGED <<backs, lowest, countVars>>

\* The wall clock is set back to t.
StepBack(t) ==
  /\ backs < MaxBacks
  /\ now' = t
  /\ backs' = backs + 1
  /\ lowest' = [k \in Keys |-> IF t < lowest[k] THEN t ELSE lowest[k]]
  /\ UNCHANGED <<highest, countVars>>

Clock == Tick \/ \E t \in 0..(now - 1) : StepBack(t)

\* The number of windows the clock touched during the observation.
Windows(k) == 1 + (highest[k] \div Window) - (lowest[k] \div Window)

(***************************************************************************)
(* The limit over an interval: whenever the observation began, and however *)
(* often the clock stepped back, at most Rate requests are admitted per    *)
(* window the clock touched since then or since the last Reset of the key. *)
(***************************************************************************)
WindowBound == \A k \in Keys : admitted[k] <= Rate * Windows(k)
=============================================================================
