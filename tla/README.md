# TLA+ models of qps-simulator

The repository simulates clients that send requests through a load balancer to
rate-limited servers. Its own logic is concurrent Go: limiters with refill
arithmetic, a limiter that caches tokens of a shared token server, a connection
pool with a condition variable, a server with a wait group, workers that
draw requests from a counter, and a metrics collector without locks. These modules model that logic; TLC checks small
instances, and TLAPS proves the central results for every value of the
constants.

Run a model with `tlc -config <cfg> <module>`, check the proofs with
`tlapm <module>.tla`. `PROJECT.json` lists components, runs, mutants, the map
from definitions to source lines, findings, hazards and theorems.

## Inventory

| Component | State | Operations | Interacts with |
|---|---|---|---|
| Remote token server (`localcached.go`, `RemoteTokenServer`) | balance, may be negative; time of last refill | `RequestTokens` | every local cached limiter, under its own mutex |
| Local cached limiter (`localcached.go`) | cached tokens, back-off deadline, `fetching`, `waiters`, mutex and condition variable | `Allow`/`AllowN`, `Reset`, internal `performFetch` | token server; handlers of one server |
| Token bucket, leaky bucket (`limiter.go`) | balance or level and time of last update, per key | `AllowN`, `Reset` | handlers of one or all servers |
| Fixed and sliding window (`limiter.go`) | counts and start of the window, per key | `AllowN`, `Reset` | handlers of one or all servers |
| Connection and pool (`connection.go`) | request count; total, idle list, wait list, `closed` | `Get`, `Put`, `Close`, `Send` | load balancer (picker), called without the mutex |
| Client (`client.go`) | mode, semaphore, counters, pool | `Send`, `CreateDedicatedConnection`, `SetConnectionMode`, `Close` | pool, transport |
| Workers (`simulator.go`, `runClient`) | request counter, one dedicated connection each | the loop, exit | client, context of the run |
| Server (`server.go`) | `running`, wait group, connection table, counters | `HandleRequest`, `CloseConnection`, `Start`, `Stop` | limiter; transport of the simulator |
| Load balancer (`balancer.go`) | server list with health, pick counter, connection counters | `RegisterServer`, `RemoveServer`, `MarkHealthy`, `MarkUnhealthy`, four `PickServer` | pool, client |
| Metrics collector (`metrics.go`) | cumulative counters, current bucket, history of buckets | `RecordRequest`, `RecordFailedRequest`, three more of the kind, `Snapshot`, `CaptureFinalSnapshot`, `Reset` | workers, limiters, reporter goroutine |
| Simulator (`simulator.go`) and command (`main.go`) | `running`, `stopCh`, servers, clients | `New`, `Run`, `Stop`, workers, reporter | everything |
| Metrics file writer (`filewriter.go`) | the report | `AddSnapshot`, `SetFinalResult`, `Save` | reporter goroutine and `Run`, under its mutex |
| Remote limiter over gRPC, registry and shards, configuration, types, dashboard | | | not modelled, see below |

What is hard here: single flight and wake-ups of the local cached limiter;
borrowing from the token server by several limiters at once; refill and window
arithmetic over long sequences of calls, idle times and clock changes; the
pool's condition variable with steps that are taken outside its mutex; `Stop`
against requests past the check of `running`; connections that change owner in
four modes while the context ends or the mode is switched; load balancing from
an outdated copy of the list; records that race with the rotation of their
bucket, with snapshots and with a clock that steps back; a reporter that nobody
waits for, and three ways for a run to end.

What makes each part correct:

* token server and cached limiter: the rate limit, end to end and across
  limiters; no lost or minted token; no lost wake-up; every call returns;
* buckets and windows: the limit over every interval or window; an honest
  `RetryAfter`;
* pool: exact slots within the limit, no lost wake-up;
* server: consistent counters, one object per identifier, worn-out connections
  closed, `Stop` waits and returns;
* client and workers: one user per connection, no connection left behind on a
  server, exact request counts, termination;
* balancer: exact shares, no server that is down, level connection counts;
* collector: no second lost, no record in an earlier second, snapshots that are
  wrong by no more than what is being recorded;
* simulator: `Run` and `Stop` return in every way a run may end, leave nothing
  running, and save a report that is complete.

## Modules

| Module | Models | Notes |
|---|---|---|
| `RemoteTokenServer` | `RequestTokens` | refill, debt, granted tokens and wait; `Tick` is passing time |
| `LocalCachedLimiter` | `AllowN`, `performFetch`, `Reset` | extends `RemoteTokenServer`; any number of callers and limiters |
| `BucketLog` | configuration and clock of the two buckets | with the history that states limits over intervals |
| `TokenBucket`, `LeakyBucket` | the two limiters | `LeakyBucket` instantiates `TokenBucket` with a refinement mapping |
| `WindowLog` | configuration and clock of the two windows | the wall clock may step back |
| `FixedWindow`, `SlidingWindow` | the two limiters | `SlidingWindow` instantiates `FixedWindow`, for the theorem that it is one |
| `ConnectionPool` | `Pool.Get`, `Put`, `Close` | steps at the granularity of the mutex |
| `Server` | `HandleRequest`, `CloseConnection`, `Start`, `Stop`, the transport | with the wait group, including its panic on reuse |
| `LoadBalancer` | server list and the four algorithms | copy and choice are separate steps |
| `Client` | `Send` in four modes, `runClient` | with the steps of the pool's `Get`; `Put` and `Close` are one step each, and which waiter a signal wakes is left open |
| `MetricsCollector` | the collector | one step per atomic access or hold of `historyMu` |
| `Simulator` | `Run`, `Stop`, the ends of the workers, the reporter, the file writer | a request is a `Send` that returns and is recorded in two steps |
| `MC...` | instances for TLC | constants that a cfg cannot write down |
| `...Proofs` | proofs about the module named | see below; `LocalCachedLimiterProofs` also holds those about `RemoteTokenServer`, `LeakyBucketProofs` those about `TokenBucket`, `SlidingWindowProofs` those about `FixedWindow`, and `ConnectionPoolProofs` those about `LoadBalancer` |

### How state and actions correspond to the code

* A step is what a goroutine does under one hold of a mutex, or one atomic
  access. The exceptions are deliberate: a `Get` that finds the pool full keeps
  the mutex until it is on the wait list (`full`), and a fetcher that applied
  its reply keeps the mutex into the next iteration (`loop`), because other
  goroutines can act meanwhile without the mutex.
* A condition variable is the set or list of its waiters; `Signal` takes the
  first, as Go's does. A woken waiter has to get the mutex again.
* Time is counted in ticks; a token is `Unit` units and `Rate` units flow in
  per tick, so that `float64` balances are exact integers. `time.Duration`
  truncates, hence `\div`. Rounding of `float64` itself is not modelled.
* Buckets use Go's monotonic clock, which never steps back. `time.Truncate`
  strips the monotonic reading, so windows see a wall clock that may.
* A connection is a number or its request count; identifiers that the client
  makes up from the time may collide (`Server`).
* A pointer to a bucket of metrics is its index in `buckets`, the sequence of all
  buckets ever made, so that a recorder may hold one that was rotated away.
* `Simulator` relies on what the other modules show, without their detail: that
  `Send` returns (`WorkersFinish` of `Client`, which names two races in which it does not), that `Stop` of a server returns
  (`StopTerminates` of `Server`), and how a snapshot is read (`MetricsCollector`).
* The sleep of `performFetch` and of the handlers is any number of other steps.
* Variables marked `history` record what properties need and guard nothing,
  except for the named bounds.

`TypeOK` of a module (`RemoteTypeOK`, `BalancerTypeOK`) states the types of its variables for the reader; where the
types are proved, the theorem is listed below.

Definitions called "a slip" are deliberate errors, used by the mutants of
`PROJECT.json`: put in place of the definition that follows them, each makes
TLC find the property violated.

## Runs

Passing runs:

| Run | Instance | Shows |
|---|---|---|
| `local_cached` | 3 callers, 1 limiter, costs 1 and 2, 2/3 token per tick, 5 ticks, 1 reset | `SingleFlight`, `NoStrandedWaiter`, `TokenConservation`, `AdmittedWithinLimit`, `BackOffSuffices`; the limiter implements `RemoteSpec`; the server's `Accounting` and `GrantOnlyAfterWait` |
| `local_cached_two` | 2 and 1 callers on 2 limiters, 1 tick, 1 reset, fairness | `AdmissionBounded` across limiters, `CallReturns` |
| `buckets` | the leaky bucket with 1 key, default burst of 3, costs 1, 2 and 4, 7 ticks, 1 reset | the limit `IntervalBound` and the honest `RetryAfterTight` of the leaky bucket; refinement `IsTokenBucket`, by which the token bucket gives the same answers |
| `sliding_window` | 3 windows of 3 ticks, 2 steps back of the clock | `WindowBound`, `RetryAfterExact` |
| `pool` | 3 users, 2 connections of 2 requests, failing picker, `Close`, fairness | `SlotsExact`, `NoStrandedWaiter`, `GetReturns` |
| `server` | 2 handlers, 1 identifier, 4 requests, start and stop, fairness | `RequestLedger`, `ConnectionLedger`, `OverrunBounded`, `WornIsClosed`, `StopDrains`, `StopTerminates` |
| `balancer` | 3 servers of weights 0, 2, 1, 2 goroutines, 5 picks, 2 changes | `FairShare`, `AvoidsDown`, `SpreadBounded` |
| `client` | 2 workers, 3 requests, 1 pooled connection of 2 requests, hybrid or dedicated mode with one switch, failing picks, a context, servers and a client that end, fairness | `Exclusive`, `OnlyStrays`, `RequestsExact`, `WorkersFinish` |
| `metrics` | 2 recorders, 3 records, 1 snapshot, 1 reset, 3 seconds of which 1 is kept, 1 step back of the clock | `EveryBucketFound`, `NeverEarlier`, `FewLateRecords`, `TotalsAgree` |
| `simulator` | 2 workers, 2 requests, 1 snapshot of a reporter, 2 calls of `Run`, all three ways to end, a failing `Save`, fairness | `LifeCycle`, `ReportComplete`, `CallsReturn` |

Two runs show a disagreement between the code and what it says of itself:

* `server_stop_waits`, about "Wait for pending requests" (`server.go:134`).
  `HandleRequest` releases `runMu` before `wg.Add(1)`; a request in between is
  handled after `Stop` has returned `nil`. `StopDrains` of the run `server` shows
  that these requests are the only ones.
* `sliding_weights`, about "More than one window has passed", "Move to next
  window" and "Calculate weighted count using sliding window"
  (`limiter.go:270`, `274`, `281`). Two truncated times that differ do so by at
  least a window, so the test `>= s.window` (`limiter.go:269`) drops the previous
  count at every change of the window, and line 275 is never reached.
  `PreviousWeighted` states what the comments say; TLC finds a count that weighs
  nothing in the window after its own. `SlidingIsFixed` shows how far this goes:
  the limiter is a fixed window, for every rate, window and clock.

### Bounds

Every bound is a constant named in the module that uses it: `MaxTime`,
`MaxResets`, `MaxBacks`, `MaxCalls`, `MaxStarts`, `MaxPicks`, `MaxChanges`,
`MaxSwitches`, `Requests`, `MaxRecords`, `MaxSnapshots`, `MaxRuns`, `MaxSent`.
They are chosen so that the cases in question happen:

* three callers give a fetcher, a waiter and a newcomer; `Rate` does not divide
  `Unit`, so waits are truncated; a batch exceeds the burst, so there is debt;
* costs above the burst, a burst left at its default, a window left at its
  default, and a clock that steps back within and across windows;
* three users for two slots give a waiter and a race for a slot; connections
  wear out at the second request, so every path of `Put` is taken;
* two handlers are enough to race to create, to count and to close one object;
  a fourth request is the first that could overrun a limit of two by more than
  the other handler;
* a weight of 0 (counted as 1), and more picks than the sum of the weights, so
  that a round of the weighted choice is completed;
* in the client, requests exceed what one connection carries, so connections
  are replaced, and the pool is smaller than the number of workers;
* two recorders race to rotate, or one rotates while the other holds the old
  bucket; three records let one of them record again before the other adds;
  three seconds with one kept let a bucket be archived and dropped; requests and
  rate limit checks stand for the two ways of recording;
* a second `Run` is the first that meets a closed client, a closed `stopCh` and
  a reporter of an earlier run; one snapshot, of whichever reporter, can be
  overtaken by the final one.

Deadlock checking is off where calls are bounded and the system comes to rest.
`local_cached` uses the symmetry of its callers and `metrics` that of its
recorders, which no definition distinguishes; runs with liveness properties use none.

### Fairness

* Goroutines that can run do run: weak fairness of steps outside a mutex.
* Go's mutex hands itself to a waiter that was passed over for a millisecond:
  strong fairness of steps that need a mutex others may take again and again
  (`Iterate`, `ApplyReply`, `LockedStep`, and `Step` of a worker, whose
  semaphore is a channel with a queue).
* Handlers sleep for a bounded time: weak fairness of `Step` in `Server`.
* Nobody is obliged to call, to reset, to close, to stop or to let a context
  end, outside `Simulator`; the clock need not advance. `StopTerminates` therefore does not rely on
  the timeout of `Stop`, and `CallReturns` not on the end of a back-off.
* `CallReturns` holds because the bounded clock makes the supply of tokens finite:
  with an endless supply, luckier callers could take every batch, and the code
  does not exclude that.
* `WorkersFinish` assumes nothing of `Get`: a worker parked in it can go on only
  when it is woken, so strong fairness of `Step` gives it the mutex and no more.
  The property names the two races of the pool that leave a `Get` asleep (a
  missed signal of a failed pick, and a `Close` after the unlocked check); without
  either exception TLC shows a run in which a worker never exits. In the
  simulator the first needs a balancer without healthy servers, and the second a
  `Stop` while workers are at work.
* In `Simulator` time passes: `Run` gives its context a timeout, and the deadline
  of a timed run comes. Nobody is obliged to call `Run` or `Stop`, and no
  reporter to end; one that holds the collector's mutex releases it.

## Proofs

Every safety property that the passing runs check (the invariants, the action
properties and the refinements) is proved for every value of the constants, and
so are two statements no run checks: `SlidingIsFixed` with its converse, and
`ClientNoOrphan`. Liveness is only model-checked.

| Component | Theorems | Statement |
|---|---|---|
| token server | `RemoteTypes`, `RemoteDebt`, `RemoteLedger`, `RemoteRateLimit`, `RemoteWaitHonest` | types, debt of at most one batch, exact accounts, the rate limit, and the honest wait |
| cached limiter | `LimiterTypes`, `LimiterSingleFlight`, `LimiterNoStrandedWaiter`, `LimiterWaitersExact`, `LimiterConservation` | one fetcher, no lost wake-up, no lost or minted token |
| | `LimiterImplementsRemote` | `Spec => RemoteSpec`: limiters use the server as specified |
| | `LimiterRateLimit` | the rate limit of what each limiter admits |
| | `LimiterAdmissionBounded` | all limiters of a server together admit no more than its rate limit allows |
| | `LimiterBackOffSuffices` | a limiter alone with its server that kept to its back-off is not sent away for another |
| leaky bucket | `LeakyTypes`, `LeakyIntervalBound` | capacity plus rate times length, over every interval |
| | `LeakyIsTokenBucket` | `Spec => IsTokenBucket`: the same answers as a token bucket |
| | `LeakyRetryAfterTight` | `RetryAfter` is neither too long nor, up to its truncation, too short |
| token bucket | `TokenBucketIsLeaky` | the converse: the two limiters cannot be told apart by their answers |
| | `TokenIntervalBound`, `TokenRetryAfterTight` | the limit over every interval and the honest `RetryAfter`, of the token bucket |
| sliding window | `SlidingTypes`, `SlidingIsFixed` | the sliding window limiter, as coded, implements the fixed window limiter |
| | `SlidingWindowBound`, `SlidingRetryAfterExact` | the limit of every window, and an exact `RetryAfter`, with a clock that steps back |
| fixed window | `FixedIsSliding`, `FixedWindowBound` | the converse of `SlidingIsFixed`, and the limit of every window, of the fixed window |
| pool | `PoolTypes`, `PoolSlotsExact`, `PoolNoStrandedWaiter` | the counter is the connections, within the limit; nobody sleeps beside a free slot but for the races named below |
| server | `ServerTypes`, `ServerRequestLedger`, `ServerConnectionLedger` | the counters agree with the requests and the connections |
| | `ServerOverrunBounded`, `ServerWornIsClosed` | how far a connection may exceed its limit, and who closes it |
| | `ServerStopDrains` | what may still be handled after `Stop` |
| balancer | `BalancerTypes`, `BalancerFairShare` | round robin and weighted give each server its exact share of the picks |
| | `BalancerAvoidsDown` | no call returns a server that was removed or unhealthy all through it |
| | `BalancerSpreadBounded` | least connections keeps the servers level, to within one connection per goroutine |
| client, workers | `ClientTypes`, `ClientExclusive`, `ClientRequestsExact` | one user per connection; requests shared out exactly |
| | `ClientNoOrphan`, `ClientOnlyStrays` | no connection is left behind without dedicated mode, and with it only in the known ways |
| collector | `CollectorLosesNoBucket`, `CollectorNeverEarlier` | no second of metrics is lost, no record is dated back |
| | `CollectorFewLate`, `CollectorTotalsAgree` | what a snapshot may miss, and how far its totals may differ |
| simulator | `SimulatorTypes`, `SimulatorLifeCycle`, `SimulatorReportComplete` | the order of `Run` and `Stop`; the saved report is complete |

Assumptions are those of the modules: natural rates, positive where the
configuration's `Validate` demands it; finitely many callers, pool users,
handlers, recorders, workers, limiters, servers of the balancer and goroutines
that pick one, and at least one worker per client (connection
identifiers and keys may be infinitely many); and
`Prefetch <= MaxBatch`, `Cardinality(Callers) <= MaxBatch + 1`, which say that
`MaxBatch` is a bound on a batch, no restriction of the code. `MaxTime`,
`MaxResets` and the other bounds are arbitrary natural numbers, so the bounds of
the runs are no bounds of the proofs.

**Token server.** `RemoteInv` is `RemoteTypeOK /\ Accounting /\ DebtBounded`.
The limit `GrantsBounded` is not inductive: it says nothing of the balance.
`Accounting` ties grants to the balance and the refill that was credited, and
with `DebtBounded` and `lastRefill <= now` the limit follows.

**Local cached limiter.** `LimiterInv` joins types, single flight, no stranded
waiter, the exact number of waiters, conservation of tokens, and `DrawnBounded`
(what a limiter drew is at most what the server granted). The type invariant
needs the others: a batch is at most `MaxBatch` because the waiters are callers
other than the fetcher. `NoStrandedWaiter` needs `SingleFlight`: the one fetcher
that clears `fetching` wakes everyone. The rate limit then follows from
conservation, `DrawnBounded` and the server's own theorem, carried over by
`LimiterImplementsRemote`. `BackOffSuffices` needs to know when the server's debt
is paid, `Due`: with one limiter and no `Reset`, `BackOffKept` says that a fetch
starts only then, and that otherwise the back-off, or the reply that will set it,
lasts until then; a refusal after `Due` is for less than the refill of one tick.
For all limiters together, `GrantedDrawn` says that the server granted exactly the
sum of what the limiters drew, and conservation that each admitted at most what it
drew. Sums over sets are compared by an induction over the subsets of a finite set
(`SubsetInduction`); it works because the sum always takes out the same element of
a set (`Any`), so that it does not depend on an order.

**Leaky bucket.** The limit over an interval is not inductive. `Covered` is:
what was admitted since the start of the interval is in the bucket still, has
drained since, or was thrown away by a `Reset`, at most one capacity each time.
The start of the interval is the history variable `since`, which may be set to
the present at any time. `Foretold` ties the announced time to the level that the
rejected request left behind. For the refinement the token bucket's balance is the
capacity minus the level.

**Token bucket.** Under the same mapping a step of the token bucket is one of the
leaky bucket, so the results carry over. `IsTokenBucket` knows the level only as
the room that is left; `LevelsExist` says that the level is an integer, as
is capacity minus balance for every balance, so the hypothesis excludes no token bucket.

**Sliding window.** `SlidingInv` adds to the types that the start of a window is
a multiple of the window (`Aligned`) and that the previous count is zero
(`NothingCarried`). Two different multiples are at least one window apart
(`MultiplesApart`), so the test of line 269 always holds, the previous count
stays zero, and a step of the sliding window is one of the fixed window.
`WindowInv` adds two parts. `Covered` bounds what the window under observation
admitted: the clock may leave it and come back, so the bound depends on where the
entry of the key is now, and on the earliest and the latest window that it has
been in. `Announced` says that, unless the clock stepped back, the last rejection
named the end of the window that the entry is still in.

**Fixed window.** In a state of `SlidingInv` a step of the fixed window is one of
the sliding window as well, if the previous count, which the fixed window does
not have, is given the value zero (`NoPrevious`). The limit carries over.

**Pool.** `PoolInv` says for the slots that the counter covers the connections,
exactly while the pool is open (`Covered`). For the wake-ups it counts: while
somebody waits or is about to, as many goroutines are awake for a slot as slots
are free (`FreeSlotsAwaited`), and no connection lies idle (`IdleUnwanted`). One
of several waiters that is woken too few would break the count, and no statement
about a single waiter is inductive.

**Load balancer.** `BalancerInv` joins the types with seven parts. `Shares` gives
the picks of a server as a function of the counter alone: as many as numbers
between `since` and `current` fall to it (`Hits`), whichever goroutines drew them.
That a run of numbers falls to the servers in proportion (`HitsShare`) is arithmetic
of remainders. `AvoidsDown` needs to follow a call: what it has down is not in
service (`OutOfService`), hence not in its copy nor the best so far (`InFlight`). `SpreadBounded` is the hardest, as a scan reads the
counters one by one while others change them. `Level` counts: while some server
has at most `c` connections, another has at most `c` plus the number of
goroutines, less those that hold it for the best with at most `c` (`Threats`). A
goroutine that has looked at all servers saw at most `c` (`Looked`), so that it
was counted before it opens its connection. The bound holds while the list is as it was and no
connection was closed (`Undisturbed`), which makes all servers eligible (`AllUp`)
and the counters exact (`Reported`). TLC checked `BalancerInv` on the instance of the
run `balancer` first.

The healthy list and the running weight are recursive functions. What they compute
for every list is proved by `Induction`: a set of natural numbers that holds zero
and with each number the next one holds them all. The set takes the place of the
predicate of the library's theorem.

**Server.** The wait group is the number of requests in progress (`GroupExact`).
For the limit of a connection the argument is a debt (`Owed`): a connection in the
table that is over its limit by some number has as many handlers on their way to
close it, so nobody forgets it. Once it is out of the table only the handlers that
hold it can count on it, each once (`Capped`). An object serves one identifier
(`Owned`), else a close would be credited to another. `Drained` says that since
the counter was found at zero only requests past the check of `running` remain.

**Client.** `Exclusive` rests on `Private`: what is in use, kept by a worker or
idle is nowhere else; and on `InHand`: a connection from the pool is nobody's own
and is open. That the pool's counter is never negative needs that it covers the
idle and the lent connections and the slots reserved by a `Get` that is picking a
server, exactly while the pool is open (`Slots`), and that whoever is inside `Get`
has decided for the pool (`Pooled`). A wake-up moves other workers, but only from
sleep to waking (`OnlyAsleep`), which no other part of the invariant tells apart. For connections left behind, `Followed`
says what `Send` and its worker know of a connection at each step: one of
dedicated mode is the worker's own or a known stray, and one that a worker is
about to replace was closed by `Send` unless `Send` did not use it. `Shared`
accounts for every request drawn from the counter.

**Simulator.** Where `Run` and `Stop` are decides what runs (`Cycle`, `Joined`). A
request sent is under way, being recorded, or settled (`Ledger`), so that nothing
is missing when the workers have been joined and the final snapshot is taken
(`Finals`). A reporter of an earlier run may still be at work; the collector's
`Reset` in every `Run` (`Epochs`) tells its snapshots from those of the present
run, which do not show more than has been counted (`Snapshots`).

**Metrics collector.** `EveryBucketFound` alone is not inductive: a rotation could
overwrite the entry of another bucket of the same second. `BucketInv` adds that
the current bucket is the last one made and the latest since the `Reset`
(`InPlace`), that the history does not hold it (`Archives`), and that a recorder
past its rotation points at a bucket made since the `Reset`, or will find one
that is late enough (`Pointed`). `TotalsInv` adds that the total is the outcomes
plus the requests whose outcome is still to come (`Balanced`), that a total that
was read is not ahead (`TotalBehind`), and that the recorders about to add to the
bucket of a snapshot are counted against what it may miss (`LateBounded`);
nobody joins them, as the bucket is not current any more. The number of
recorders is finite, and the clock may step back at any time.

Only model-checked: liveness (`CallReturns`, `GetReturns`, `StopTerminates`,
`WorkersFinish`, `CallsReturn`). The prover does not reason about fairness and
`ENABLED`.

## Observations

Behaviour met while modelling that a reader of the code may not expect, beside
the findings:

* `RequestTokens` adds the refill without a cap: an idle token server
  accumulates more than the burst, which `types.go:85` calls "Maximum burst
  size". `GrantsBounded` is therefore a bound since the start, not over every
  interval as for the token bucket.
* `AllowN` of the cached limiter reads `localTokens` for `Remaining` after it
  has released the mutex (line 118).
* With `prefetch_count: 0`, which `Validate` accepts, a lone caller asks for a
  batch of nothing, is granted nothing, and loops for ever.
* A request for more than the burst is told a `RetryAfter` of the token bucket
  at which the capped bucket still cannot serve it (line 197);
  `RetryAfterTight` speaks of requests that fit.
* After a failed pick `Get` decrements and signals without the mutex (lines
  269-272); a `Get` between its look and its `Wait` misses the signal and
  sleeps beside a free slot. `Get` checks `closed` only before it takes the
  mutex; past that check it may go to sleep after the broadcast of `Close`.
  `NoStrandedWaiter` and `GetReturns` name these two races and exclude others;
  `WorkersFinish` shows that a worker, and with it `Run`, can hang in no other way.
* A late `wg.Add` may fall between the counter's reaching zero and the return of
  `wg.Wait`, which then panics; `Server` models it, and `StopTerminates` allows
  for it.
* Nothing but tests calls `IncrementConnections`, so in the simulator
  `least_conn` always picks the first healthy server. The run `balancer` checks
  the algorithm with connections reported (`Reports`).
* "Dedicated connections ... will be closed when workers exit" (`client.go:311`),
  but when the context ends at the semaphore, `Send` fails before it uses the
  connection, and the worker overwrites `dedicatedConn` with a new one
  (`simulator.go:399`). The same happens when the mode is switched away and back,
  so that a `Send` that fails had used another connection. `OnlyStrays` shows that
  this and the next item are the only ways to leave a connection behind; its run
  has one switch of the mode, the theorem any number.
* A worker of dedicated mode without a valid connection of its own, after a
  failed pick or a switch of the mode at run time, makes `Send` open one that
  nobody closes (`client.go:177-195`).
* `connectionsOpened` counts every `Get` of the pool, and `connectionsClosed` may
  count a dedicated connection twice after a failed replacement; nobody reads
  them outside `Stats`.
* `Snapshot` shows "the last full second" (`metrics.go:35`) only if a record of a
  later second has rotated the bucket; otherwise the second is not in the
  history yet and the snapshot shows none of it. No later snapshot makes up for
  it; only the cumulative counters do.
* The reporter is told to end but not waited for: the saved report may hold a
  snapshot of it behind the final one. `ReportComplete` shows that none exceeds
  the final result.
* `Run` leaves `running` set, so that a second `Run` needs a `Stop` first. `Stop`
  closes the clients for good: every request of a second run fails, and its
  `Stop` panics when it closes `stopCh` again. `main.go` calls each once.
* The warm-up sleeps its full time even if the context ends.
* `Start` of `remote.go` assigns `s.server` after it has released the mutex; a
  `Stop` in between finds none (line 186). Nothing starts this server.

## Not modelled

* `evictOneIdleConnection` of the pool: never called.
* Hashing of keys to shards, and the limiter registry: they decide which mutex
  or constructor is used.
* `remote.go`, a stub that always allows and that nothing uses; the dashboard;
  the flags and output of `main.go`; parsing and validation of the
  configuration; `types.go`, which holds interfaces and records.
* `RecordConnection`, `GetMetrics` and `Close` of the collector, and
  `SetRateLimiter` of the server: never called.
* A `Stop` of the simulator from another goroutine while `Run` is under way:
  `main.go` ends a run through its context and calls `Stop` afterwards.
* In `Server`, a `Stop` that follows one whose context ended begins once the
  goroutine of the earlier one is through, and `Start` and `Stop` alternate, as
  the simulator calls them.
* Percentiles and formatting of metrics; latencies; `float64` rounding; the
  wrap-around of 64-bit counters.

## Plan

Modelled and checked: every component above that has behaviour of its own. Left:

1. A proof that `Get` of `Client` and `ConnectionPool` agree: that the steps of
   `Client` on the pool, with Go's order of waiters, implement `ConnectionPool`.
2. The disagreement of `client.go:311` ("they will be closed when workers exit")
   with the strays of dedicated mode as a run of its own. `OnlyStrays` and the
   observations above describe it.
