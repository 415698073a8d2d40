------------------------- MODULE LocalCachedLimiter -------------------------
(***************************************************************************)
(* The rate limiter with a local token cache (pkg/ratelimiter/             *)
(* localcached.go, type LocalCachedLimiter): one limiter per HTTP server,  *)
(* all drawing from one RemoteTokenServer.                                 *)
(*                                                                         *)
(* A call of AllowN loops under the limiter's mutex.  An iteration takes   *)
(* cached tokens, or rejects during a back-off, or parks on fetchCond      *)
(* behind a fetch in flight, or releases the mutex and becomes the         *)
(* fetcher.  The fetch runs outside the mutex; its result is applied under *)
(* the mutex, which the fetcher keeps for its next iteration.  The clock,  *)
(* the other callers and the other limiters move between these steps.      *)
(***************************************************************************)
EXTENDS RemoteTokenServer, FiniteSetsExt

CONSTANTS
  Limiters,    \* one limiter per HTTP server
  Callers,     \* goroutines that call AllowN
  LimiterOf,   \* the limiter a caller calls
  Costs,       \* the values of n in AllowN(ctx, key, n)
  Prefetch,    \* l.prefetchCount
  MaxResets    \* bound on the number of Reset calls

ASSUME LimiterAssumption ==
  /\ IsFiniteSet(Limiters) /\ IsFiniteSet(Callers)
  /\ LimiterOf \in [Callers -> Limiters]
  /\ Costs \subseteq Nat \ {0}
  /\ Prefetch \in Nat
  /\ MaxResets \in Nat
  /\ Prefetch <= MaxBatch
  /\ Cardinality(Callers) <= MaxBatch + 1   \* the fetcher is not a waiter

VARIABLES
  localTokens,  \* l.localTokens
  rejectUntil,  \* l.rejectUntil (0 is the zero time)
  fetching,     \* l.fetching
  waiters,      \* l.waiters
  pc,           \* where a caller is in AllowN
  cost,         \* the n of its call
  batch,        \* the batchSize it asks for
  reply,        \* what performFetch returned to it
  drawn,        \* history: tokens the remote server granted to a limiter
  allowed,      \* history: tokens a limiter admitted requests with
  discarded,    \* history: cached tokens that Reset threw away
  resets        \* history: number of Reset calls

limiterVars == <<localTokens, rejectUntil, fetching, waiters>>
callVars == <<cost, batch, reply>>
ledgerVars == <<drawn, allowed, discarded, resets>>
vars == <<now, tokens, lastRefill, granted, localTokens, rejectUntil, fetching,
          waiters, pc, cost, batch, reply, drawn, allowed, discarded,
          resets>>

NoReply == [granted |-> 0, retryAfter |-> 0]

\* "lock" waits for l.mu on entry, "waiting" is parked on fetchCond, "woken"
\* has been broadcast to and waits for l.mu, "loop" holds l.mu after a fetch,
\* "return" has taken its tokens and released l.mu.
PCs == {"idle", "lock", "waiting", "woken", "fetch", "fetched", "loop", "return"}

TypeOK ==
  /\ RemoteTypeOK
  /\ localTokens \in [Limiters -> Nat]
  /\ rejectUntil \in [Limiters -> Nat]
  /\ fetching \in [Limiters -> BOOLEAN]
  /\ waiters \in [Limiters -> Nat]
  /\ pc \in [Callers -> PCs]
  /\ cost \in [Callers -> Nat]
  /\ batch \in [Callers -> 0..MaxBatch]
  /\ reply \in [Callers -> [granted : Nat, retryAfter : Nat]]
  /\ drawn \in [Limiters -> Nat]
  /\ allowed \in [Limiters -> Nat]
  /\ discarded \in [Limiters -> Nat]
  /\ resets \in Nat

-----------------------------------------------------------------------------

\* NewLocalCachedLimiter: no tokens, no back-off, nobody fetching.
Init ==
  /\ RemoteInit
  /\ localTokens = [l \in Limiters |-> 0]
  /\ rejectUntil = [l \in Limiters |-> 0]
  /\ fetching = [l \in Limiters |-> FALSE]
  /\ waiters = [l \in Limiters |-> 0]
  /\ pc = [c \in Callers |-> "idle"]
  /\ cost = [c \in Callers |-> 0]
  /\ batch = [c \in Callers |-> 0]
  /\ reply = [c \in Callers |-> NoReply]
  /\ drawn = [l \in Limiters |-> 0]
  /\ allowed = [l \in Limiters |-> 0]
  /\ discarded = [l \in Limiters |-> 0]
  /\ resets = 0

\* l.mu is only held across steps by a fetcher that applied its result.
MutexFree(l) == \A c \in Callers : LimiterOf[c] = l => pc[c] # "loop"

\* The top of the loop, with l.mu held: on entry, back from Wait, or again.
AtLoopTop(c) ==
  \/ pc[c] = "loop"
  \/ pc[c] \in {"lock", "woken"} /\ MutexFree(LimiterOf[c])

\* l.waiters after the decrement that follows Wait.
WaitersNow(c) ==
  IF pc[c] = "woken" THEN waiters[LimiterOf[c]] - 1 ELSE waiters[LimiterOf[c]]

\* A slip: prefetch for the waiters on top of the configured count.
BatchSizeSum(w) == Prefetch + w

BatchSize(w) == IF w > Prefetch THEN w ELSE Prefetch

Goto(c, where) == pc' = [pc EXCEPT ![c] = where]

\* A request reaches the limiter (Allow is AllowN with n = 1).
Call(c) ==
  /\ pc[c] = "idle"
  /\ \E n \in Costs : cost' = [cost EXCEPT ![c] = n]
  /\ Goto(c, "lock")
  /\ UNCHANGED <<serverVars, limiterVars, batch, reply, ledgerVars>>

\* 1. Enough cached tokens: take them and release l.mu.
Take(c) ==
  LET l == LimiterOf[c] IN
  /\ AtLoopTop(c)
  /\ localTokens[l] >= cost[c]
  /\ localTokens' = [localTokens EXCEPT ![l] = @ - cost[c]]
  /\ allowed' = [allowed EXCEPT ![l] = @ + cost[c]]
  /\ waiters' = [waiters EXCEPT ![l] = WaitersNow(c)]
  /\ Goto(c, "return")
  /\ UNCHANGED <<serverVars, rejectUntil, fetching, cost, batch, reply, drawn,
                 discarded, resets>>

\* Remaining is read from l.localTokens here, after l.mu was released.
Return(c) ==
  /\ pc[c] = "return"
  /\ Goto(c, "idle")
  /\ cost' = [cost EXCEPT ![c] = 0]
  /\ UNCHANGED <<serverVars, limiterVars, batch, reply, ledgerVars>>

\* 2. Too few tokens during a back-off: reject.
Reject(c) ==
  LET l == LimiterOf[c] IN
  /\ AtLoopTop(c)
  /\ localTokens[l] < cost[c]
  /\ now < rejectUntil[l]
  /\ waiters' = [waiters EXCEPT ![l] = WaitersNow(c)]
  /\ cost' = [cost EXCEPT ![c] = 0]
  /\ Goto(c, "idle")
  /\ UNCHANGED <<serverVars, localTokens, rejectUntil, fetching, batch, reply,
                 ledgerVars>>

NeedsFetch(c) ==
  /\ AtLoopTop(c)
  /\ localTokens[LimiterOf[c]] < cost[c]
  /\ now >= rejectUntil[LimiterOf[c]]

\* 3. Somebody else is fetching: park on fetchCond.
Wait(c) ==
  LET l == LimiterOf[c] IN
  /\ NeedsFetch(c)
  /\ fetching[l]
  /\ waiters' = [waiters EXCEPT ![l] = WaitersNow(c) + 1]
  /\ Goto(c, "waiting")
  /\ UNCHANGED <<serverVars, localTokens, rejectUntil, fetching, callVars,
                 ledgerVars>>

\* A slip: the check of l.fetching is left out.
StartFetchUnguarded(c) ==
  LET l == LimiterOf[c] IN
  /\ NeedsFetch(c)
  /\ fetching' = [fetching EXCEPT ![l] = TRUE]
  /\ waiters' = [waiters EXCEPT ![l] = WaitersNow(c)]
  /\ batch' = [batch EXCEPT ![c] = BatchSize(WaitersNow(c))]
  /\ Goto(c, "fetch")
  /\ UNCHANGED <<serverVars, localTokens, rejectUntil, cost, reply,
                 ledgerVars>>

\* 4. Become the fetcher and release l.mu.
StartFetch(c) ==
  LET l == LimiterOf[c] IN
  /\ NeedsFetch(c)
  /\ ~fetching[l]
  /\ fetching' = [fetching EXCEPT ![l] = TRUE]
  /\ waiters' = [waiters EXCEPT ![l] = WaitersNow(c)]
  /\ batch' = [batch EXCEPT ![c] = BatchSize(WaitersNow(c))]
  /\ Goto(c, "fetch")
  /\ UNCHANGED <<serverVars, localTokens, rejectUntil, cost, reply,
                 ledgerVars>>

\* performFetch: the request reaches the remote server after the delay.
PerformFetch(c) ==
  LET l == LimiterOf[c] IN
  /\ pc[c] = "fetch"
  /\ RequestTokens(batch[c])
  /\ reply' = [reply EXCEPT ![c] = Reply(batch[c])]
  /\ drawn' = [drawn EXCEPT ![l] = @ + Reply(batch[c]).granted]
  /\ Goto(c, "fetched")
  /\ UNCHANGED <<now, limiterVars, cost, batch, allowed, discarded, resets>>

Broadcast(l, c) ==
  pc' = [d \in Callers |->
           IF d = c THEN "loop"
           ELSE IF LimiterOf[d] = l /\ pc[d] = "waiting" THEN "woken" ELSE pc[d]]

\* A slip: the back-off is taken for a point in time.
AppliedUnshifted(c, l, credit) ==
  /\ pc[c] = "fetched"
  /\ MutexFree(l)
  /\ fetching' = [fetching EXCEPT ![l] = FALSE]
  /\ localTokens' = [localTokens EXCEPT ![l] = @ + credit]
  /\ rejectUntil' = [rejectUntil EXCEPT ![l] =
                       IF reply[c].retryAfter > 0 THEN reply[c].retryAfter ELSE @]
  /\ batch' = [batch EXCEPT ![c] = 0]
  /\ reply' = [reply EXCEPT ![c] = NoReply]
  /\ UNCHANGED <<serverVars, waiters, cost, ledgerVars>>

Applied(c, l, credit) ==
  /\ pc[c] = "fetched"
  /\ MutexFree(l)
  /\ fetching' = [fetching EXCEPT ![l] = FALSE]
  /\ localTokens' = [localTokens EXCEPT ![l] = @ + credit]
  /\ rejectUntil' = [rejectUntil EXCEPT ![l] =
                       IF reply[c].retryAfter > 0 THEN now + reply[c].retryAfter
                                                  ELSE @]
  /\ batch' = [batch EXCEPT ![c] = 0]
  /\ reply' = [reply EXCEPT ![c] = NoReply]
  /\ UNCHANGED <<serverVars, waiters, cost, ledgerVars>>

\* A slip: no broadcast after the fetch.
ApplyReplySilently(c) ==
  /\ Applied(c, LimiterOf[c], reply[c].granted)
  /\ Goto(c, "loop")

\* A slip: tokens that come with a back-off are dropped.
ApplyReplyOrBackOff(c) ==
  /\ Applied(c, LimiterOf[c],
             IF reply[c].retryAfter > 0 THEN 0 ELSE reply[c].granted)
  /\ Broadcast(LimiterOf[c], c)

\* A slip: the batch asked for is credited, granted or not.
ApplyReplyAsked(c) ==
  /\ Applied(c, LimiterOf[c], batch[c])
  /\ Broadcast(LimiterOf[c], c)

\* The fetch is over: credit the tokens, note the back-off, wake everyone.
ApplyReply(c) ==
  /\ Applied(c, LimiterOf[c], reply[c].granted)
  /\ Broadcast(LimiterOf[c], c)

\* Reset(key) drops the cache and the back-off; a fetch in flight goes on.
Reset(l) ==
  /\ resets < MaxResets
  /\ MutexFree(l)
  /\ localTokens' = [localTokens EXCEPT ![l] = 0]
  /\ rejectUntil' = [rejectUntil EXCEPT ![l] = 0]
  /\ discarded' = [discarded EXCEPT ![l] = @ + localTokens[l]]
  /\ resets' = resets + 1
  /\ UNCHANGED <<serverVars, fetching, waiters, pc, callVars, drawn, allowed>>

ClockTick ==
  /\ Tick
  /\ UNCHANGED <<limiterVars, pc, callVars, ledgerVars>>

Iterate(c) == Take(c) \/ Reject(c) \/ Wait(c) \/ StartFetch(c)

Step(c) == Iterate(c) \/ Return(c) \/ PerformFetch(c) \/ ApplyReply(c)

Next ==
  \/ \E c \in Callers : Call(c) \/ Step(c)
  \/ \E l \in Limiters : Reset(l)
  \/ ClockTick

Spec == Init /\ [][Next]_vars

\* A goroutine keeps running; Go's mutex hands itself over to a waiter that
\* is passed over for too long, so a caller gets l.mu if it is free again and
\* again.  Nobody is obliged to call, to reset or to let the clock advance.
Fairness ==
  \A c \in Callers : /\ SF_vars(Iterate(c)) /\ SF_vars(ApplyReply(c))
                     /\ WF_vars(Return(c)) /\ WF_vars(PerformFetch(c))

FairSpec == Spec /\ Fairness

-----------------------------------------------------------------------------

CallersOf(l) == {c \in Callers : LimiterOf[c] = l}
Fetchers(l) == {c \in CallersOf(l) : pc[c] \in {"fetch", "fetched"}}
Parked(l) == {c \in CallersOf(l) : pc[c] \in {"waiting", "woken"}}

(***************************************************************************)
(* Single flight: the flag fetching, read and written in different         *)
(* critical sections, tells exactly whether a fetch is in flight, and      *)
(* there is never a second one (lines 136-149, 168).                       *)
(***************************************************************************)
SingleFlight ==
  \A l \in Limiters :
    /\ fetching[l] <=> Fetchers(l) # {}
    /\ \A c, d \in Fetchers(l) : c = d

(***************************************************************************)
(* No lost wake-up: a caller parked on fetchCond has a fetch in flight     *)
(* whose completion will broadcast (lines 136-145, 179).                   *)
(***************************************************************************)
NoStrandedWaiter == \A c \in Callers : pc[c] = "waiting" => fetching[LimiterOf[c]]

(***************************************************************************)
(* The waiter count that sizes a batch is the number of callers between    *)
(* the two sides of Wait, whatever order they come back in (lines 138-140).*)
(***************************************************************************)
WaitersExact == \A l \in Limiters : waiters[l] = Cardinality(Parked(l))

InFlight(l) == {c \in CallersOf(l) : pc[c] = "fetched"}

(***************************************************************************)
(* Tokens are neither lost nor minted on the way: what the remote server   *)
(* granted to a limiter is in its cache, in the reply its fetcher has not  *)
(* applied yet, spent on admitted requests or discarded by Reset.          *)
(***************************************************************************)
TokenConservation ==
  \A l \in Limiters :
    LET settled == localTokens[l] + allowed[l] + discarded[l] IN
    /\ InFlight(l) = {} => drawn[l] = settled
    /\ \A c \in InFlight(l) : drawn[l] = settled + reply[c].granted

(***************************************************************************)
(* What each limiter lets through is within the limit of the remote        *)
(* server: burst, one batch of debt, and Rate units per elapsed tick.      *)
(* Caching, waiting, back-off and Reset never add to it.                   *)
(***************************************************************************)
AdmittedWithinLimit ==
  \A l \in Limiters :
    Unit * allowed[l] <= Unit * Burst + Unit * MaxBatch + Rate * now

SumOver(f) == MapThenSumSet(LAMBDA l : f[l], Limiters)

(***************************************************************************)
(* The limit that the limiters enforce together: however many of them draw *)
(* from the remote server, the tokens they admitted requests with are at   *)
(* most the burst, one batch of debt and Rate units per elapsed tick.      *)
(***************************************************************************)
AdmissionBounded ==
  /\ granted = SumOver(drawn)
  /\ Unit * SumOver(allowed) <= Unit * Burst + Unit * MaxBatch + Rate * now

(***************************************************************************)
(* With one limiter and no Reset, the back-off it keeps is long enough:    *)
(* a fetch is refused only for the fraction of a tick that time.Duration   *)
(* truncates, so that a refusal never starts another back-off.             *)
(***************************************************************************)
BackOffSuffices ==
  (\A k, l \in Limiters : k = l) /\ resets = 0 =>
    \A c \in Callers :
      pc[c] = "fetched" /\ reply[c].granted = 0 => reply[c].retryAfter = 0

(***************************************************************************)
(* "Loop again to consume tokens or fail" (line 181): every call of AllowN *)
(* returns, admitted or rejected.  The clock bound makes the supply of     *)
(* tokens finite, so luckier callers cannot take every batch for ever.     *)
(***************************************************************************)
CallReturns == \A c \in Callers : pc[c] = "lock" ~> pc[c] = "idle"
=============================================================================
