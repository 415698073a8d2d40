------------------------------- MODULE Server -------------------------------
(***************************************************************************)
(* The simulated HTTP server (pkg/server/server.go) as its transport calls *)
(* it (simulatorTransport in pkg/simulator/simulator.go): requests handled *)
(* concurrently, the table of connections they share, Start and Stop.      *)
(*                                                                         *)
(* A connection object is a number; the table maps the identifiers in use  *)
(* to objects.  A client makes up the identifier of a connection from the  *)
(* time, so two goroutines may use the same one.  The steps of a handler   *)
(* are its accesses to shared state: a mutex section or an atomic counter  *)
(* each.  The simulator calls Start and Stop in turn.                      *)
(***************************************************************************)
EXTENDS Integers, FiniteSets

CONSTANTS
  Handlers,      \* goroutines that call the transport
  ConnIDs,       \* identifiers of connections
  MaxRequests,   \* s.maxRequestsPerConn
  HasLimiter,    \* s.rateLimiter != nil
  MayTimeOut,    \* whether the context of Stop may end
  MaxCalls,      \* bound on the number of requests
  MaxStarts      \* bound on the number of Start calls

ASSUME ServerAssumption ==
  /\ IsFiniteSet(Handlers)
  /\ MaxRequests \in Nat \ {0}
  /\ {HasLimiter, MayTimeOut} \subseteq BOOLEAN
  /\ {MaxCalls, MaxStarts} \subseteq Nat

VARIABLES
  running,    \* s.running
  wg,         \* the counter of s.wg
  waiter,     \* where the goroutine of Stop is that waits for s.wg
  stopper,    \* where Stop is
  table,      \* s.connections: the object of an identifier, 0 for none
  count,      \* requestCount of every object created
  stats,      \* s.stats
  pc,         \* where a handler is
  id,         \* the connID of its request
  conn,       \* the object it works on
  close,      \* its shouldClose
  calls,      \* history: requests begun
  starts,     \* history: Start calls
  failed,     \* history: requests answered with status 500
  late        \* history: handlers between the running check and wg.Add when
              \* the counter was found at zero

lifeVars == <<running, wg, waiter, stopper, starts, late>>
tableVars == <<table, count>>
handlerVars == <<pc, id, conn, close, calls>>
vars == <<running, wg, waiter, stopper, table, count, stats, pc, id, conn, close,
          calls, starts, failed, late>>

Objects == DOMAIN count

\* "entered" is past the check of s.running, "lookup" to "check" are the lines
\* of HandleRequest, "process" and "rejected" its two sleeps, "closing" the
\* CloseConnection of the transport.
PCs == {"idle", "entered", "lookup", "create", "count", "check", "process",
        "rejected", "done", "closing"}

TypeOK ==
  /\ running \in BOOLEAN
  /\ wg \in 0..Cardinality(Handlers)
  /\ waiter \in {"none", "flagged", "parked", "released", "finished", "panicked"}
  /\ stopper \in {"none", "waiting", "returned", "timedout"}
  /\ count \in [1..stats.opened -> Nat]
  /\ table \in [ConnIDs -> 0..stats.opened]
  /\ stats \in [total : Nat, success : Nat, limited : Nat, active : Nat,
                opened : Nat, closed : Nat]
  /\ pc \in [Handlers -> PCs]
  /\ id \in [Handlers -> ConnIDs]
  /\ conn \in [Handlers -> 0..stats.opened]
  /\ close \in [Handlers -> BOOLEAN]
  /\ calls \in 0..MaxCalls
  /\ starts \in 0..MaxStarts
  /\ failed \in Nat
  /\ late \subseteq Handlers

Init ==
  /\ running = FALSE
  /\ wg = 0
  /\ waiter = "none"
  /\ stopper = "none"
  /\ table = [i \in ConnIDs |-> 0]
  /\ count = <<>>
  /\ stats = [total |-> 0, success |-> 0, limited |-> 0, active |-> 0,
              opened |-> 0, closed |-> 0]
  /\ pc = [h \in Handlers |-> "idle"]
  /\ id \in {[h \in Handlers |-> i] : i \in ConnIDs}
  /\ conn = [h \in Handlers |-> 0]
  /\ close = [h \in Handlers |-> FALSE]
  /\ calls = 0
  /\ starts = 0
  /\ failed = 0
  /\ late = {}

-----------------------------------------------------------------------------

\* A panic ends the program.
Alive == waiter # "panicked"

At(h, where) == Alive /\ pc[h] = where

Goto(h, where) == pc' = [pc EXCEPT ![h] = where]

\* The check of s.running under runMu; a stopped server answers with an error
\* and does nothing.
HandleRequest(h, i) ==
  /\ At(h, "idle")
  /\ calls < MaxCalls
  /\ running
  /\ id' = [id EXCEPT ![h] = i]
  /\ calls' = calls + 1
  /\ Goto(h, "entered")
  /\ UNCHANGED <<lifeVars, tableVars, stats, conn, close, failed>>

\* s.wg.Add(1) and the count of the request, two atomic accesses in a row with
\* nothing between them that another goroutine tells apart.
Begin(h) ==
  /\ At(h, "entered")
  /\ wg' = wg + 1
  /\ stats' = [stats EXCEPT !.total = @ + 1]
  /\ Goto(h, "lookup")
  /\ UNCHANGED <<running, waiter, stopper, starts, late, tableVars, id, conn, close,
                 calls, failed>>

\* getOrCreateConnection: the look under the read lock ...
Lookup(h) ==
  LET found == table[id[h]] IN
  /\ At(h, "lookup")
  /\ conn' = [conn EXCEPT ![h] = found]
  /\ Goto(h, IF found = 0 THEN "create" ELSE "count")
  /\ UNCHANGED <<lifeVars, tableVars, stats, id, close, calls, failed>>

\* A slip: no second look under the write lock.
CreateUnchecked(h) ==
  LET new == stats.opened + 1 IN
  /\ At(h, "create")
  /\ table' = [table EXCEPT ![id[h]] = new]
  /\ count' = [o \in 1..new |-> IF o = new THEN 0 ELSE count[o]]
  /\ stats' = [stats EXCEPT !.opened = new, !.active = @ + 1]
  /\ conn' = [conn EXCEPT ![h] = new]
  /\ Goto(h, "count")
  /\ UNCHANGED <<lifeVars, id, close, calls, failed>>

\* ... and the second one under the write lock, which creates the connection.
Create(h) ==
  LET found == table[id[h]]
      new == stats.opened + 1
  IN
  /\ At(h, "create")
  /\ \/ /\ found # 0
        /\ conn' = [conn EXCEPT ![h] = found]
        /\ UNCHANGED <<tableVars, stats>>
     \/ /\ found = 0
        /\ table' = [table EXCEPT ![id[h]] = new]
        /\ count' = [o \in 1..new |-> IF o = new THEN 0 ELSE count[o]]
        /\ stats' = [stats EXCEPT !.opened = new, !.active = @ + 1]
        /\ conn' = [conn EXCEPT ![h] = new]
  /\ Goto(h, "count")
  /\ UNCHANGED <<lifeVars, id, close, calls, failed>>

\* A slip: only the request that reaches the limit exactly closes.
WornExactly(n) == n = MaxRequests

\* A slip: one request more.
WornAfter(n) == n > MaxRequests

\* shouldClose for a connection whose request is its n-th.
Worn(n) == n >= MaxRequests

\* The rate-limit key is the first configured header that the request has; a
\* request without any, and every request without a limiter, is not checked.
ByRateLimitKey(h) ==
  \/ HasLimiter /\ Goto(h, "check")
  \/ Goto(h, "process")

\* Count the request on the connection and look for the rate-limit key.
Count(h) ==
  LET n == count[conn[h]] + 1 IN
  /\ At(h, "count")
  /\ count' = [count EXCEPT ![conn[h]] = n]
  /\ close' = [close EXCEPT ![h] = Worn(n)]
  /\ ByRateLimitKey(h)
  /\ UNCHANGED <<lifeVars, table, stats, id, conn, calls, failed>>

\* A slip: a rejection is not counted.
CheckUncounted(h) ==
  /\ At(h, "check")
  /\ Goto(h, "rejected") \/ Goto(h, "process")
  /\ UNCHANGED <<lifeVars, tableVars, stats, id, conn, close, calls, failed>>

\* The answer of the rate limiter: an error, a rejection or a permission.
Check(h) ==
  /\ At(h, "check")
  /\ \/ /\ failed' = failed + 1
        /\ Goto(h, "done")
        /\ UNCHANGED stats
     \/ /\ stats' = [stats EXCEPT !.limited = @ + 1]
        /\ Goto(h, "rejected")
        /\ UNCHANGED failed
     \/ /\ Goto(h, "process")
        /\ UNCHANGED <<stats, failed>>
  /\ UNCHANGED <<lifeVars, tableVars, id, conn, close, calls>>

\* The end of the processing time.
Process(h) ==
  /\ At(h, "process")
  /\ stats' = [stats EXCEPT !.success = @ + 1]
  /\ Goto(h, "done")
  /\ UNCHANGED <<lifeVars, tableVars, id, conn, close, calls, failed>>

\* The handlers that have passed the check of s.running but not wg.Add.
Entered == {h \in Handlers : pc[h] = "entered"}

\* A slip: the return after a rejection skips wg.Done.
DoneUnlessRejected(h) ==
  /\ At(h, "done") \/ At(h, "rejected")
  /\ IF pc[h] = "done"
       THEN /\ wg' = wg - 1
            /\ waiter' = IF waiter = "parked" /\ wg' = 0 THEN "released" ELSE waiter
            /\ late' = IF waiter = "parked" /\ wg' = 0 THEN Entered ELSE late
       ELSE UNCHANGED <<wg, waiter, late>>
  /\ conn' = [conn EXCEPT ![h] = 0]
  /\ Goto(h, IF close[h] THEN "closing" ELSE "idle")
  /\ UNCHANGED <<running, stopper, starts, tableVars, stats, id, close, calls, failed>>

\* The deferred wg.Done as HandleRequest returns; the last one lets the
\* waiter go.
Done(h) ==
  /\ At(h, "done") \/ At(h, "rejected")
  /\ wg' = wg - 1
  /\ waiter' = IF waiter = "parked" /\ wg' = 0 THEN "released" ELSE waiter
  /\ late' = IF waiter = "parked" /\ wg' = 0 THEN Entered ELSE late
  /\ conn' = [conn EXCEPT ![h] = 0]
  /\ Goto(h, IF close[h] THEN "closing" ELSE "idle")
  /\ UNCHANGED <<running, stopper, starts, tableVars, stats, id, close, calls, failed>>

\* CloseConnection, which ignores an unknown identifier.
CloseConnection(i) ==
  /\ table' = [table EXCEPT ![i] = 0]
  /\ stats' = IF table[i] = 0 THEN stats
              ELSE [stats EXCEPT !.active = @ - 1, !.closed = @ + 1]
  /\ UNCHANGED count

\* The transport closes the connection when the response says so ...
CloseWorn(h) ==
  /\ At(h, "closing")
  /\ CloseConnection(id[h])
  /\ close' = [close EXCEPT ![h] = FALSE]
  /\ Goto(h, "idle")
  /\ UNCHANGED <<lifeVars, id, conn, calls, failed>>

\* ... and whenever the client closes its end.
ClientCloses(i) ==
  /\ Alive
  /\ table[i] # 0
  /\ CloseConnection(i)
  /\ UNCHANGED <<lifeVars, handlerVars, failed>>

Start ==
  /\ Alive
  /\ ~running
  /\ stopper # "waiting"
  /\ starts < MaxStarts
  /\ running' = TRUE
  /\ starts' = starts + 1
  /\ UNCHANGED <<wg, waiter, stopper, late, tableVars, stats, handlerVars, failed>>

\* A slip: Stop does not wait.
StopAtOnce ==
  /\ Alive
  /\ running
  /\ stopper # "waiting"
  /\ waiter \in {"none", "finished"}
  /\ running' = FALSE
  /\ stopper' = "waiting"
  /\ waiter' = "finished"
  /\ late' = Entered
  /\ UNCHANGED <<wg, starts, tableVars, stats, handlerVars, failed>>

\* Stop clears s.running and starts the goroutine that waits for s.wg, once
\* the one of an earlier Stop is through.
Stop ==
  /\ Alive
  /\ running
  /\ stopper # "waiting"
  /\ waiter \in {"none", "finished"}
  /\ running' = FALSE
  /\ stopper' = "waiting"
  /\ waiter' = "flagged"
  /\ UNCHANGED <<wg, starts, late, tableVars, stats, handlerVars, failed>>

\* s.wg.Wait() returns when the counter is zero and parks otherwise.
Wait ==
  /\ waiter = "flagged"
  /\ waiter' = IF wg = 0 THEN "finished" ELSE "parked"
  /\ late' = IF wg = 0 THEN Entered ELSE late
  /\ UNCHANGED <<running, wg, stopper, starts, tableVars, stats, handlerVars, failed>>

\* A released waiter panics when it finds the counter in use again.
Wake ==
  /\ waiter = "released"
  /\ waiter' = IF wg = 0 THEN "finished" ELSE "panicked"
  /\ UNCHANGED <<running, wg, stopper, starts, late, tableVars, stats, handlerVars, failed>>

\* Stop returns when the waiter is through ...
StopReturns ==
  /\ Alive
  /\ stopper = "waiting"
  /\ waiter = "finished"
  /\ stopper' = "returned"
  /\ UNCHANGED <<running, wg, waiter, starts, late, tableVars, stats, handlerVars, failed>>

\* ... or, with an error, when its context ends.
StopTimesOut ==
  /\ Alive
  /\ MayTimeOut
  /\ stopper = "waiting"
  /\ stopper' = "timedout"
  /\ UNCHANGED <<running, wg, waiter, starts, late, tableVars, stats, handlerVars, failed>>

Step(h) ==
  \/ Begin(h) \/ Lookup(h) \/ Create(h) \/ Count(h) \/ Check(h)
  \/ Process(h) \/ Done(h) \/ CloseWorn(h)

Next ==
  \/ \E h \in Handlers : Step(h) \/ \E i \in ConnIDs : HandleRequest(h, i)
  \/ \E i \in ConnIDs : ClientCloses(i)
  \/ Start
  \/ Stop
  \/ Wait
  \/ Wake
  \/ StopReturns
  \/ StopTimesOut

Spec == Init /\ [][Next]_vars

\* A goroutine that can run does, and every sleep ends; the context of Stop
\* need not.
Fairness ==
  /\ \A h \in Handlers : WF_vars(Step(h))
  /\ WF_vars(Wait) /\ WF_vars(Wake) /\ WF_vars(StopReturns)

FairSpec == Spec /\ Fairness

-----------------------------------------------------------------------------

\* The handlers between wg.Add and wg.Done.
Pending == {h \in Handlers : pc[h] \notin {"idle", "entered", "closing"}}

(***************************************************************************)
(* Requests do not get lost between the counters of Stats: each request    *)
(* counted has succeeded, was limited or failed, or is still on its way to *)
(* one of these (lines 162, 214, 218, 239).                                *)
(***************************************************************************)
RequestLedger ==
  stats.total = stats.success + stats.limited + failed
                + Cardinality({h \in Pending : pc[h] \notin {"rejected", "done"}})

(***************************************************************************)
(* Every connection object ever created is in the table or was closed, and *)
(* the three counters say so: handlers that race to create a connection    *)
(* share one object, and a connection that the transport and the client    *)
(* both close is counted once (lines 249-287).                             *)
(***************************************************************************)
ConnectionLedger ==
  /\ stats.active = Cardinality({i \in ConnIDs : table[i] # 0})
  /\ stats.opened = stats.active + stats.closed

(***************************************************************************)
(* max_requests_per_conn holds up to the requests in progress: one         *)
(* connection never serves more than one request too many for each other   *)
(* handler that shares it, because whoever counts one closes the           *)
(* connection before its next request (lines 167-169, and 549-551 of       *)
(* pkg/simulator/simulator.go).                                            *)
(***************************************************************************)
OverrunBounded ==
  \A o \in Objects : count[o] <= MaxRequests + Cardinality(Handlers) - 1

(***************************************************************************)
(* A connection that has served all its requests is not forgotten in the   *)
(* table: a handler is on its way to close it (lines 168-169, 179).        *)
(***************************************************************************)
WornIsClosed ==
  \A i \in ConnIDs :
    table[i] # 0 /\ count[table[i]] >= MaxRequests =>
      \E h \in Handlers : id[h] = i /\ close[h]
                          /\ pc[h] \in {"check", "process", "rejected", "done", "closing"}

(***************************************************************************)
(* When Stop has returned without an error, the only requests still in     *)
(* progress are those that were between the check of s.running and wg.Add  *)
(* when the counter was found at zero (lines 130-143, 152-160).            *)
(***************************************************************************)
StopDrains ==
  stopper = "returned" /\ ~running => Pending \subseteq late

(***************************************************************************)
(* Stop comes back, without help from its context: no new request enters   *)
(* and those in progress end, unless the wait panics (lines 129-147).      *)
(***************************************************************************)
StopTerminates == stopper = "waiting" ~> (stopper # "waiting" \/ ~Alive)

(***************************************************************************)
(* "Wait for pending requests" (line 134), read without reserve: once Stop *)
(* has returned without an error no request is being handled.  A request   *)
(* past the check of s.running adds itself to s.wg too late.               *)
(***************************************************************************)
StopWaitsForAll ==
  stopper = "returned" /\ ~running => Pending = {}
=============================================================================
