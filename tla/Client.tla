------------------------------- MODULE Client -------------------------------
(***************************************************************************)
(* A client and its workers (pkg/client/client.go and Simulator.runClient  *)
(* in pkg/simulator/simulator.go), with the connections they open on the   *)
(* servers.                                                                *)
(*                                                                         *)
(* A worker takes requests from a shared counter and calls Client.Send,    *)
(* which finds a connection according to the mode, sends the request and   *)
(* keeps, returns or closes the connection.  In dedicated mode the         *)
(* connection is the worker's own and travels with the context.  The       *)
(* context of the run may end, the servers may stop, the client may be     *)
(* closed and its mode changed meanwhile.                                  *)
(*                                                                         *)
(* Get of the pool has its steps here, the wait and the failed pick that   *)
(* signals without p.mu included, because a Get that sleeps on keeps its   *)
(* worker from exiting.  Put and Close are one step each, and which waiter *)
(* a signal wakes is left open; ConnectionPool looks closer.  What happens *)
(* inside a server is in Server: here a server has an entry with a request *)
(* count for a connection, or none.  The simulator gives clients and       *)
(* servers the same max_requests_per_conn.  Latencies and the other        *)
(* counters of Send are left out, nothing in the program reads them back;  *)
(* and a rate-limited answer is like any other to Send and its worker.     *)
(***************************************************************************)
EXTENDS Integers, Sequences, FiniteSets

CONSTANTS
  Workers,        \* the goroutines of runClient
  Modes,          \* the connection modes in use, the first one chosen by Init
  MaxConcurrency, \* capacity of c.sem, 0 for no semaphore
  MaxConnections, \* limit of the pool, 0 for none
  MaxRequests,    \* maxRequestsPerConn, of client and servers
  HybridEvery,    \* every how many requests hybrid mode avoids the pool (10)
  Requests,       \* requests_per_client
  HasRate,        \* whether the workers share a rate limiter (request_rate)
  PickerFails,    \* whether the load balancer may find no server
  MayTimeOut,     \* whether the context of the run may end
  MayStop,        \* whether the servers may be stopped
  MayClose,       \* whether the client may be closed
  MaxSwitches     \* bound on the number of changes of the mode

ASSUME ClientAssumption ==
  /\ IsFiniteSet(Workers) /\ Workers # {}
  /\ Modes \subseteq {"reuse", "per_request", "hybrid", "dedicated"}
  /\ {MaxConcurrency, MaxConnections, MaxSwitches} \subseteq Nat
  /\ {MaxRequests, HybridEvery, Requests} \subseteq Nat \ {0}
  /\ {HasRate, PickerFails, MayTimeOut, MayStop, MayClose} \subseteq BOOLEAN

VARIABLES
  mode,       \* c.mode
  ctxDone,    \* the context of the run has ended
  serverUp,   \* the servers are running
  closed,     \* c.closed, and p.closed of its pool
  counter,    \* requestCounter
  conns,      \* the connections opened so far, in order
  idle,       \* p.idleConnections
  total,      \* p.stats.TotalConnections
  totalRequests, \* c.stats.totalRequests
  pc,         \* where a worker is
  dedicated,  \* its dedicatedConn, 0 for nil
  conn,       \* the connection of its Send, 0 for none
  sendMode,   \* the mode Send has read, "none" when it has not
  usePool,    \* usePool in Send
  result,     \* how its Send went: "ok" or "error"
  unused,     \* history: its Send did not use its dedicatedConn
  missed,     \* history: the workers that wait although a signal came
              \* between their look at the limit and their Wait
  attempts,   \* history: calls of Send
  switches    \* history: changes of the mode

envVars == <<mode, ctxDone, serverUp, closed, switches>>
poolVars == <<idle, total>>
sendVars == <<conn, sendMode, usePool, result, unused>>
vars == <<mode, ctxDone, serverUp, closed, counter, conns, idle, total, totalRequests, pc,
          dedicated, conn, sendMode, usePool, result, unused, missed, attempts,
          switches>>

Ids == 1..Len(conns)

\* "send" is the entry of Client.Send, "connect" past the semaphore, "transmit"
\* with a connection, "finish" with the answer, "replace" back in the worker.
\* In Get of the pool, "get" has passed the unlocked check and wants p.mu,
\* "full" holds p.mu and has seen the limit reached, "parked" waits, "woken"
\* wants p.mu again, "pick" has a slot, "signal" has given it up.
InGet == {"get", "full", "parked", "woken", "pick", "signal"}
InSend == {"connect", "transmit", "finish"} \cup InGet
PCs == {"start", "top", "send", "replace", "exit", "gone"} \cup InSend

TypeOK ==
  /\ mode \in Modes
  /\ {ctxDone, serverUp, closed} \subseteq BOOLEAN
  /\ counter \in Nat
  /\ conns \in Seq([count : Nat, closed : BOOLEAN, served : 0..MaxRequests,
                    stray : BOOLEAN])
  /\ idle \in Seq(Ids)
  /\ total \in Nat
  /\ totalRequests \in Nat
  /\ pc \in [Workers -> PCs]
  /\ dedicated \in [Workers -> Ids \cup {0}]
  /\ conn \in [Workers -> Ids \cup {0}]
  /\ sendMode \in [Workers -> Modes \cup {"none"}]
  /\ usePool \in [Workers -> BOOLEAN]
  /\ result \in [Workers -> {"ok", "error"}]
  /\ unused \in [Workers -> BOOLEAN]
  /\ missed \subseteq Workers
  /\ attempts \in Nat
  /\ switches \in 0..MaxSwitches

Init ==
  /\ mode \in Modes
  /\ ctxDone = FALSE
  /\ serverUp = TRUE
  /\ closed = FALSE
  /\ counter = 0
  /\ conns = <<>>
  /\ idle = <<>>
  /\ total = 0
  /\ totalRequests = 0
  /\ pc = [w \in Workers |-> "start"]
  /\ dedicated = [w \in Workers |-> 0]
  /\ conn = [w \in Workers |-> 0]
  /\ sendMode = [w \in Workers |-> "none"]
  /\ usePool = [w \in Workers |-> FALSE]
  /\ result = [w \in Workers |-> "ok"]
  /\ unused = [w \in Workers |-> FALSE]
  /\ missed = {}
  /\ attempts = 0
  /\ switches = 0

-----------------------------------------------------------------------------

Goto(w, where) == pc' = [pc EXCEPT ![w] = where]

\* w goes on, and the workers in W are woken up from globalCond.
GotoAndWake(w, where, W) ==
  /\ pc' = [v \in Workers |-> IF v = w THEN where ELSE IF v \in W THEN "woken" ELSE pc[v]]

Asleep == {v \in Workers : pc[v] = "parked"}

\* globalCond.Signal() wakes one of the waiters, if there is one.
Signalled == IF Asleep = {} THEN {{}} ELSE {{v} : v \in Asleep}

\* A new connection is not known to any server before its first request.
\* History: a stray is one whose Send or whose worker lost sight of it in one
\* of the two known ways, see Stray.
Opened(cs) ==
  Append(cs, [count |-> 0, closed |-> FALSE, served |-> 0, stray |-> FALSE])

\* Connection c goes astray.
Stray(cs, c) == IF c = 0 THEN cs ELSE [cs EXCEPT ![c].stray = TRUE]

\* Connection.Close, which has the server drop its entry.
Closed(cs, c) == [cs EXCEPT ![c].closed = TRUE, ![c].served = 0]

ShouldClose(c) == conns[c].count >= MaxRequests

\* CreateDedicatedConnection finds no server, or a closed pool.
CannotCreate == PickerFails \/ closed
MayCreate == ~closed

\* A worker of dedicated mode creates its connection first.
Start(w) ==
  /\ pc[w] = "start"
  /\ \/ /\ mode = "dedicated" /\ MayCreate
        /\ conns' = Opened(conns)
        /\ dedicated' = [dedicated EXCEPT ![w] = Len(conns) + 1]
     \/ /\ mode = "dedicated" => CannotCreate
        /\ UNCHANGED <<conns, dedicated>>
  /\ Goto(w, "top")
  /\ UNCHANGED <<envVars, counter, poolVars, totalRequests, sendVars, missed, attempts>>

\* A slip: the value before the increment is compared.
NextRequestUnchecked(w) ==
  /\ pc[w] = "top"
  /\ counter' = counter + 1
  /\ Goto(w, IF counter > Requests \/ ctxDone THEN "exit" ELSE "send")
  /\ UNCHANGED <<envVars, conns, poolVars, totalRequests, dedicated, sendVars,
                 missed, attempts>>

\* The termination conditions: the count of requests, then the context.
NextRequest(w) ==
  /\ pc[w] = "top"
  /\ counter' = counter + 1
  /\ Goto(w, IF counter + 1 > Requests \/ ctxDone THEN "exit" ELSE "send")
  /\ UNCHANGED <<envVars, conns, poolVars, totalRequests, dedicated, sendVars,
                 missed, attempts>>

\* The context ends while the worker waits for its own rate limiter.
GiveUp(w) ==
  /\ pc[w] = "send"
  /\ HasRate
  /\ ctxDone
  /\ Goto(w, "exit")
  /\ UNCHANGED <<envVars, counter, conns, poolVars, totalRequests, dedicated, sendVars,
                 missed, attempts>>

\* Send acquires the semaphore and counts the request ...
Acquire(w) ==
  /\ pc[w] = "send"
  /\ ~closed
  /\ MaxConcurrency > 0 =>
       Cardinality({v \in Workers : pc[v] \in InSend}) < MaxConcurrency
  /\ attempts' = attempts + 1
  /\ totalRequests' = totalRequests + 1
  /\ Goto(w, "connect")
  /\ UNCHANGED <<envVars, counter, conns, poolVars, dedicated, sendVars, missed>>

\* ... or returns an error: the client is closed, or select sees the context
\* end, which it may even if the semaphore is free.  The worker does not know
\* that its connection was not used.
Refuse(w) ==
  /\ pc[w] = "send"
  /\ closed \/ (MaxConcurrency > 0 /\ ctxDone)
  /\ attempts' = attempts + 1
  /\ result' = [result EXCEPT ![w] = "error"]
  /\ unused' = [unused EXCEPT ![w] = TRUE]
  /\ Goto(w, "replace")
  /\ UNCHANGED <<envVars, counter, conns, poolVars, totalRequests, dedicated, conn, sendMode,
                 usePool, missed>>

PoolMode == mode = "reuse" \/ (mode = "hybrid" /\ totalRequests % HybridEvery # 0)

\* Send goes on with connection c.
Connected(w, c) ==
  /\ conn' = [conn EXCEPT ![w] = c]
  /\ unused' = [unused EXCEPT ![w] = c # dedicated[w]]
  /\ Goto(w, "transmit")
  /\ UNCHANGED <<envVars, counter, totalRequests, dedicated, result, missed, attempts>>

\* Send has read the mode and decided for the pool or against it.
Decides(w, pooled) ==
  /\ sendMode' = [sendMode EXCEPT ![w] = mode]
  /\ usePool' = [usePool EXCEPT ![w] = pooled]

\* Send returns.
Returns(w) ==
  /\ sendMode' = [sendMode EXCEPT ![w] = "none"]
  /\ usePool' = [usePool EXCEPT ![w] = FALSE]

\* pool.Get: the check of p.closed that is made without p.mu.
EnterGet(w) ==
  /\ pc[w] = "connect"
  /\ PoolMode
  /\ ~closed
  /\ Decides(w, TRUE)
  /\ Goto(w, "get")
  /\ UNCHANGED <<envVars, counter, conns, poolVars, totalRequests, dedicated, conn, result,
                 unused, missed, attempts>>

\* p.mu is held from one step to the next by a Get about to wait only.
MutexFree == \A v \in Workers : pc[v] # "full"

Full == MaxConnections > 0 /\ total >= MaxConnections

\* Under p.mu, Get takes something idle (the order of reuse is left open), on
\* entry or when it finds the pool full after Wait ...
Reuse(w) ==
  /\ MutexFree
  /\ pc[w] = "get" \/ (pc[w] = "woken" /\ ~closed /\ Full)
  /\ \E i \in {1, Len(idle)} \ {0} :
       /\ i <= Len(idle)
       /\ idle' = SubSeq(idle, 1, i - 1) \o SubSeq(idle, i + 1, Len(idle))
       /\ Connected(w, idle[i])
  /\ UNCHANGED <<conns, total, sendMode, usePool>>

\* What a step of Get leaves alone that finds no connection yet.
getVars == <<envVars, counter, conns, idle, totalRequests, dedicated, conn, attempts>>

\* ... or reserves a slot and releases p.mu ...
Reserve(w) ==
  /\ MutexFree
  /\ (pc[w] = "get" /\ idle = <<>>) \/ (pc[w] = "woken" /\ ~closed)
  /\ ~Full
  /\ total' = total + 1
  /\ Goto(w, "pick")
  /\ UNCHANGED <<getVars, sendMode, usePool, result, unused, missed>>

\* ... or is about to wait, with p.mu held.
SeeFull(w) ==
  /\ MutexFree
  /\ pc[w] = "get" \/ (pc[w] = "woken" /\ ~closed)
  /\ idle = <<>>
  /\ Full
  /\ Goto(w, "full")
  /\ UNCHANGED <<getVars, total, sendMode, usePool, result, unused, missed>>

\* globalCond.Wait() joins the waiters and releases p.mu.
Wait(w) ==
  /\ pc[w] = "full"
  /\ Goto(w, "parked")
  /\ UNCHANGED <<getVars, total, sendMode, usePool, result, unused, missed>>

\* Get returns an error, and so does Send.
GetFails(w) ==
  /\ result' = [result EXCEPT ![w] = "error"]
  /\ unused' = [unused EXCEPT ![w] = TRUE]
  /\ Returns(w)
  /\ UNCHANGED <<getVars, total>>

\* Woken up in a pool that has been closed.
WakeClosed(w) ==
  /\ MutexFree
  /\ pc[w] = "woken"
  /\ closed
  /\ Goto(w, "replace")
  /\ GetFails(w)
  /\ UNCHANGED missed

\* The picker finds a server for the reserved slot: a new connection.
PickServer(w) ==
  /\ pc[w] = "pick"
  /\ conns' = Opened(conns)
  /\ Connected(w, Len(conns) + 1)
  /\ UNCHANGED <<poolVars, sendMode, usePool>>

\* It finds none: the slot is given back without p.mu ...
PickFails(w) ==
  /\ PickerFails
  /\ pc[w] = "pick"
  /\ total' = total - 1
  /\ Goto(w, "signal")
  /\ UNCHANGED <<getVars, sendMode, usePool, result, unused, missed>>

\* ... and a waiter is signalled, without p.mu too, so that one who has seen
\* the limit reached and does not wait yet misses it.
PickFailSignals(w) ==
  /\ pc[w] = "signal"
  /\ \E W \in Signalled :
       /\ GotoAndWake(w, "replace", W)
       /\ missed' = (missed \ W) \cup {v \in Workers : pc[v] = "full"}
  /\ GetFails(w)

\* Without the pool the connection is for this request only.
OpenSingle(w) ==
  /\ pc[w] = "connect"
  /\ mode # "dedicated" /\ ~PoolMode
  /\ MayCreate
  /\ conns' = Opened(conns)
  /\ Connected(w, Len(conns) + 1)
  /\ Decides(w, FALSE)
  /\ UNCHANGED poolVars

\* The connection in the context, while it is valid.
OwnConnection(w) ==
  LET c == dedicated[w] IN
  /\ pc[w] = "connect"
  /\ mode = "dedicated"
  /\ c # 0
  /\ ~ShouldClose(c)
  /\ Connected(w, c)
  /\ Decides(w, FALSE)
  /\ UNCHANGED <<conns, poolVars>>

\* No connection in the context, or a worn-out one: a new one, which only
\* this Send knows.
OpenDedicated(w) ==
  LET c == dedicated[w]
      rest == IF c = 0 THEN conns ELSE Closed(conns, c)
  IN
  /\ pc[w] = "connect"
  /\ mode = "dedicated"
  /\ c # 0 => ShouldClose(c)
  /\ MayCreate
  /\ conns' = Stray(Opened(rest), Len(conns) + 1)
  /\ Connected(w, Len(conns) + 1)
  /\ Decides(w, FALSE)
  /\ UNCHANGED poolVars

\* No connection to be had, or a closed pool: the request fails.
NoConnection(w) ==
  LET c == dedicated[w] IN
  /\ pc[w] = "connect"
  /\ CannotCreate
  /\ PoolMode => closed
  /\ mode = "dedicated" /\ c # 0 => ShouldClose(c)
  /\ conns' = IF mode = "dedicated" /\ c # 0 THEN Closed(conns, c) ELSE conns
  /\ result' = [result EXCEPT ![w] = "error"]
  /\ unused' = [unused EXCEPT ![w] = mode # "dedicated"]
  /\ Goto(w, "replace")
  /\ UNCHANGED <<envVars, counter, poolVars, totalRequests, dedicated, conn, sendMode, usePool,
                 missed, attempts>>

\* Connection.Send, the transport and the server: the request is counted on
\* both sides, and the transport has the server drop a worn-out connection.
Transmit(w) ==
  LET c == conn[w]
      n == conns[c].served + 1
  IN
  /\ pc[w] = "transmit"
  /\ \/ /\ conns[c].closed
        /\ result' = [result EXCEPT ![w] = "error"]
        /\ UNCHANGED conns
     \/ /\ ~conns[c].closed /\ ~serverUp
        /\ result' = [result EXCEPT ![w] = "error"]
        /\ conns' = [conns EXCEPT ![c].count = @ + 1]
     \/ /\ ~conns[c].closed /\ serverUp
        /\ result' = [result EXCEPT ![w] = "ok"]
        /\ conns' = [conns EXCEPT ![c].count = @ + 1,
                                  ![c].served = IF n >= MaxRequests THEN 0 ELSE n]
  /\ Goto(w, "finish")
  /\ UNCHANGED <<envVars, counter, poolVars, totalRequests, dedicated, conn, sendMode,
                 usePool, unused, missed, attempts>>

\* A slip: a worn-out connection is closed and goes back to the list.
PutWorn(c) ==
  /\ conns' = IF closed \/ ShouldClose(c) THEN Closed(conns, c) ELSE conns
  /\ total' = IF ~closed /\ ShouldClose(c) THEN total - 1 ELSE total
  /\ idle' = IF closed THEN idle ELSE Append(idle, c)

\* pool.Put: a worn-out connection is closed and gives up its slot, any other
\* goes back to the list, and a closed pool closes everything.
Put(c) ==
  /\ conns' = IF closed \/ ShouldClose(c) THEN Closed(conns, c) ELSE conns
  /\ total' = IF ~closed /\ ShouldClose(c) THEN total - 1 ELSE total
  /\ idle' = IF closed \/ ShouldClose(c) THEN idle ELSE Append(idle, c)

\* A slip: a slot is freed without a signal.
PutWakesNobody(c) == IF closed \/ ShouldClose(c) THEN {{}} ELSE {Asleep}

\* Put signals for a slot and broadcasts for an idle connection.
PutWakes(c) ==
  CASE closed -> {{}}
    [] ~closed /\ ShouldClose(c) -> Signalled
    [] ~closed /\ ~ShouldClose(c) -> {Asleep}

\* Send leaves the connection with the worker.
Keeps(w) ==
  sendMode[w] = "dedicated" /\ result[w] # "error" /\ ~ShouldClose(conn[w])

\* The end of Send: the fate of the connection, the semaphore.  On success the
\* worker goes on unless it must replace its connection.
Finish(w) ==
  LET c == conn[w]
      over == result[w] = "error" \/ ShouldClose(c)
  IN
  /\ pc[w] = "finish"
  /\ \/ usePool[w] /\ (closed \/ MutexFree) /\ Put(c)
     \/ ~usePool[w] /\ Keeps(w) /\ UNCHANGED <<conns, poolVars>>
     \/ ~usePool[w] /\ ~Keeps(w) /\ conns' = Closed(conns, c) /\ UNCHANGED poolVars
  /\ conn' = [conn EXCEPT ![w] = 0]
  /\ \E W \in IF usePool[w] THEN PutWakes(c) ELSE {{}} :
       /\ GotoAndWake(w, IF over THEN "replace" ELSE "top", W)
       /\ missed' = missed \ W
  /\ unused' = [unused EXCEPT ![w] = @ /\ over]
  /\ Returns(w)
  /\ UNCHANGED <<envVars, counter, totalRequests, dedicated, result, attempts>>

\* After an error or a closed connection, a worker of dedicated mode creates
\* another connection; when that fails it keeps the old one after an error.
\* An old one that Send has not used, and so has not closed, goes astray.
Replace(w) ==
  LET rest == IF unused[w] THEN Stray(conns, dedicated[w]) ELSE conns IN
  /\ pc[w] = "replace"
  /\ \/ /\ mode = "dedicated" /\ MayCreate
        /\ conns' = Opened(rest)
        /\ dedicated' = [dedicated EXCEPT ![w] = Len(conns) + 1]
     \/ /\ mode = "dedicated" /\ CannotCreate /\ result[w] # "error"
        /\ conns' = rest
        /\ dedicated' = [dedicated EXCEPT ![w] = 0]
     \/ /\ mode = "dedicated" => CannotCreate /\ result[w] = "error"
        /\ UNCHANGED <<conns, dedicated>>
  /\ result' = [result EXCEPT ![w] = "ok"]
  /\ unused' = [unused EXCEPT ![w] = FALSE]
  /\ Goto(w, "top")
  /\ UNCHANGED <<envVars, counter, poolVars, totalRequests, conn, sendMode, usePool, missed,
                 attempts>>

\* A slip: the deferred cleanup is missing.
ExitWithout(w) ==
  /\ pc[w] = "exit"
  /\ dedicated' = [dedicated EXCEPT ![w] = 0]
  /\ Goto(w, "gone")
  /\ UNCHANGED <<envVars, counter, conns, poolVars, totalRequests, sendVars, missed, attempts>>

\* The deferred cleanup of a worker.
Exit(w) ==
  LET c == dedicated[w] IN
  /\ pc[w] = "exit"
  /\ conns' = IF c = 0 THEN conns ELSE Closed(conns, c)
  /\ dedicated' = [dedicated EXCEPT ![w] = 0]
  /\ Goto(w, "gone")
  /\ UNCHANGED <<envVars, counter, poolVars, totalRequests, sendVars, missed, attempts>>

-----------------------------------------------------------------------------

\* What the workers do not change.
workerVars == <<counter, totalRequests, pc, dedicated, sendVars, missed, attempts>>

TimeOut ==
  /\ MayTimeOut
  /\ ~ctxDone
  /\ ctxDone' = TRUE
  /\ UNCHANGED <<mode, serverUp, closed, switches, conns, poolVars, workerVars>>

\* Simulator.Stop: the servers ...
StopServers ==
  /\ MayStop
  /\ serverUp
  /\ serverUp' = FALSE
  /\ UNCHANGED <<mode, ctxDone, closed, switches, conns, poolVars, workerVars>>

\* ... and then the client, whose pool closes the idle connections and wakes
\* all waiters.
CloseClient ==
  /\ MayClose
  /\ ~serverUp
  /\ ~closed
  /\ MutexFree
  /\ closed' = TRUE
  /\ idle' = <<>>
  /\ conns' = [c \in Ids |-> IF \E i \in 1..Len(idle) : idle[i] = c
                               THEN Closed(conns, c)[c] ELSE conns[c]]
  /\ pc' = [v \in Workers |-> IF v \in Asleep THEN "woken" ELSE pc[v]]
  /\ missed' = missed \ Asleep
  /\ UNCHANGED <<mode, ctxDone, serverUp, switches, total, counter, totalRequests, dedicated,
                 sendVars, attempts>>

SetConnectionMode(m) ==
  /\ switches < MaxSwitches
  /\ m # mode
  /\ mode' = m
  /\ switches' = switches + 1
  /\ UNCHANGED <<ctxDone, serverUp, closed, conns, poolVars, workerVars>>

Step(w) ==
  \/ Start(w) \/ NextRequest(w) \/ GiveUp(w) \/ Acquire(w) \/ Refuse(w)
  \/ EnterGet(w) \/ Reuse(w) \/ Reserve(w) \/ SeeFull(w) \/ Wait(w) \/ WakeClosed(w)
  \/ PickServer(w) \/ PickFails(w) \/ PickFailSignals(w)
  \/ OpenSingle(w) \/ OwnConnection(w) \/ OpenDedicated(w) \/ NoConnection(w)
  \/ Transmit(w) \/ Finish(w) \/ Replace(w) \/ Exit(w)

Next ==
  \/ \E w \in Workers : Step(w)
  \/ TimeOut
  \/ StopServers
  \/ CloseClient
  \/ \E m \in Modes : SetConnectionMode(m)

Spec == Init /\ [][Next]_vars

\* A worker that can go on does; p.mu and the semaphore, a channel, are fair.
\* A worker parked in Get can go on only when it is woken.
Fairness == \A w \in Workers : SF_vars(Step(w))

FairSpec == Spec /\ Fairness

-----------------------------------------------------------------------------

\* The workers that have, or will have, to do with connection c.
Owners(c) == {w \in Workers : conn[w] = c \/ dedicated[w] = c}

(***************************************************************************)
(* A connection has one user: it is not idle and in use, not idle twice,   *)
(* not used by two workers, and an idle one is open (lines 199-283 of      *)
(* pkg/client/client.go).                                                  *)
(***************************************************************************)
Exclusive ==
  \A c \in Ids :
    LET places == {i \in 1..Len(idle) : idle[i] = c} IN
    /\ Cardinality(Owners(c)) + Cardinality(places) <= 1
    /\ places # {} => ~conns[c].closed /\ ~ShouldClose(c)

(***************************************************************************)
(* Every connection that a server has an entry for belongs to someone who  *)
(* will close it: a Send in progress, a worker, or the pool.  So when all  *)
(* workers are gone and the client is closed, no server has one left       *)
(* (lines 239-280, and line 311: "they will be closed when workers exit"). *)
(***************************************************************************)
NoOrphan ==
  \A c \in Ids :
    conns[c].served > 0 => Owners(c) # {} \/ \E i \in 1..Len(idle) : idle[i] = c

(***************************************************************************)
(* Connections are left behind in two ways only, in all modes and whatever *)
(* fails: Send opened one in dedicated mode that its worker does not get   *)
(* to know (lines 177-195 of pkg/client/client.go), or the worker replaced *)
(* its own after a Send that had not used it: one that was refused, or one *)
(* that had read another mode (lines 394-417 of                            *)
(* pkg/simulator/simulator.go).                                            *)
(***************************************************************************)
OnlyStrays ==
  \A c \in Ids :
    conns[c].served > 0 /\ ~conns[c].stray =>
      Owners(c) # {} \/ \E i \in 1..Len(idle) : idle[i] = c

AllGone == \A w \in Workers : pc[w] = "gone"

(***************************************************************************)
(* The workers share requests_per_client out exactly: Send is called no    *)
(* more often, and just as often when the context did not end first        *)
(* (lines 330-336 of pkg/simulator/simulator.go).                          *)
(***************************************************************************)
RequestsExact ==
  /\ attempts <= Requests
  /\ AllGone /\ ~ctxDone => attempts = Requests

(***************************************************************************)
(* Run comes to an end: every worker exits, also when the servers stop,    *)
(* the context ends or the pool is at its limit.  Only a Get of the pool   *)
(* that nobody wakes may keep one: it missed the signal of a failed pick   *)
(* (lines 249-251 and 269-272 of pkg/client/connection.go), or it waits in *)
(* a pool that was closed after its check.  No worker comes to rest in any *)
(* other place, and no other reason leaves one asleep (lines 324-421 of    *)
(* pkg/simulator/simulator.go).                                            *)
(***************************************************************************)
WorkersFinish ==
  <>[](\A w \in Workers :
         pc[w] = "gone" \/ (pc[w] = "parked" /\ (w \in missed \/ closed)))
=============================================================================
