--------------------------- MODULE ConnectionPool ---------------------------
(***************************************************************************)
(* The connection pool of a client (pkg/client/connection.go, type Pool).  *)
(* The goroutines of the client get a connection, send a request on it and *)
(* put it back; the client may be closed meanwhile.                        *)
(*                                                                         *)
(* A pooled connection is its request count: nothing else about it matters *)
(* to the pool.  Steps taken under p.mu are one step each, except that a   *)
(* Get that finds the pool full keeps p.mu from its look at                *)
(* TotalConnections until Wait has put it on the list of globalCond: the   *)
(* failure path of Get changes TotalConnections and signals without p.mu.  *)
(* globalCond wakes its waiters in the order they came.                    *)
(***************************************************************************)
EXTENDS Integers, Sequences, FiniteSets

CONSTANTS
  Users,         \* goroutines that call Get and Put
  MaxTotal,      \* p.maxTotalConnections, 0 for no limit
  MaxRequests,   \* p.maxRequestsPerConn
  Lifo,          \* p.strategy = "lifo"
  PickerFails,   \* whether the load balancer may find no server
  MayClose,      \* whether the client may be closed
  MaxCalls       \* bound on the number of Get calls of a user

ASSUME PoolAssumption ==
  /\ IsFiniteSet(Users)
  /\ MaxTotal \in Nat
  /\ MaxRequests \in Nat \ {0}
  /\ {Lifo, PickerFails, MayClose} \subseteq BOOLEAN
  /\ MaxCalls \in Nat

VARIABLES
  closed,   \* p.closed
  total,    \* p.stats.TotalConnections
  idle,     \* p.idleConnections
  queue,    \* the wait list of globalCond
  pc,       \* where a user is in Get, Send or Put
  held,     \* the connection it has, by its request count
  calls,    \* history: its number of Get calls
  closer,   \* where Close is
  missed    \* history: a failed pick signalled between another's look and its Wait

poolVars == <<closed, total, idle, queue>>
vars == <<closed, total, idle, queue, pc, held, calls, closer, missed>>

\* "enter" has passed the unlocked check of p.closed and wants p.mu, "full"
\* holds p.mu and has seen the limit reached, "woken" is back from Wait and
\* wants p.mu, "pick" has reserved a slot, "signal" has given it up again,
\* "put" has passed the unlocked check of Put and wants p.mu.
PCs == {"out", "enter", "full", "parked", "woken", "pick", "signal", "use", "put"}

TypeOK ==
  /\ closed \in BOOLEAN
  /\ total \in Nat
  /\ idle \in Seq(0..MaxRequests)
  /\ queue \in Seq(Users)
  /\ pc \in [Users -> PCs]
  /\ held \in [Users -> 0..MaxRequests]
  /\ calls \in [Users -> 0..MaxCalls]
  /\ closer \in {"open", "broadcast", "done"}
  /\ missed \in BOOLEAN

-----------------------------------------------------------------------------

Init ==
  /\ closed = FALSE
  /\ total = 0
  /\ idle = <<>>
  /\ queue = <<>>
  /\ pc = [u \in Users |-> "out"]
  /\ held = [u \in Users |-> 0]
  /\ calls = [u \in Users |-> 0]
  /\ closer = "open"
  /\ missed = FALSE

\* u moves on to where, the users in W are woken up.
MoveAndWake(u, where, W) ==
  pc' = [v \in Users |-> IF v = u THEN where ELSE IF v \in W THEN "woken" ELSE pc[v]]

Move(u, where) == MoveAndWake(u, where, {})

\* globalCond.Signal() by a user that goes on to where.
SignalAndMove(u, where) ==
  /\ MoveAndWake(u, where, IF queue = <<>> THEN {} ELSE {Head(queue)})
  /\ queue' = IF queue = <<>> THEN queue ELSE Tail(queue)

Parked == {u \in Users : pc[u] = "parked"}

\* The unlocked check at the top of Get; a closed pool refuses at once.
Get(u) ==
  /\ pc[u] = "out"
  /\ ~closed
  /\ calls[u] < MaxCalls
  /\ calls' = [calls EXCEPT ![u] = @ + 1]
  /\ Move(u, "enter")
  /\ UNCHANGED <<poolVars, held, closer, missed>>

\* p.mu is only held across steps by a Get that is about to wait.
MutexFree == \A u \in Users : pc[u] # "full"

Locks(u, where) == pc[u] = where /\ MutexFree

\* The limit that Get checks before it creates a connection.
Full == MaxTotal > 0 /\ total >= MaxTotal

\* Take an idle connection: at once on entry, and after Wait when the pool
\* is full still.
Reuse(u) ==
  LET i == IF Lifo THEN Len(idle) ELSE 1 IN
  /\ \/ Locks(u, "enter")
     \/ Locks(u, "woken") /\ ~closed /\ Full
  /\ idle # <<>>
  /\ held' = [held EXCEPT ![u] = idle[i]]
  /\ idle' = IF Lifo THEN SubSeq(idle, 1, Len(idle) - 1) ELSE Tail(idle)
  /\ Move(u, "use")
  /\ UNCHANGED <<closed, total, queue, calls, closer, missed>>

\* Reserve a slot below the limit and release p.mu.
Reserve(u) ==
  /\ \/ Locks(u, "enter") /\ idle = <<>>
     \/ Locks(u, "woken") /\ ~closed
  /\ ~Full
  /\ total' = total + 1
  /\ Move(u, "pick")
  /\ UNCHANGED <<closed, idle, queue, held, calls, closer, missed>>

\* Nothing idle and the limit reached: about to wait, with p.mu held.
SeeFull(u) ==
  /\ \/ Locks(u, "enter")
     \/ Locks(u, "woken") /\ ~closed
  /\ idle = <<>>
  /\ Full
  /\ Move(u, "full")
  /\ UNCHANGED <<closed, total, idle, queue, held, calls, closer, missed>>

\* globalCond.Wait() joins the list, then releases p.mu.
Wait(u) ==
  /\ pc[u] = "full"
  /\ queue' = Append(queue, u)
  /\ Move(u, "parked")
  /\ UNCHANGED <<closed, total, idle, held, calls, closer, missed>>

\* Woken up in a pool that has been closed: Get returns an error.
WakeClosed(u) ==
  /\ Locks(u, "woken")
  /\ closed
  /\ Move(u, "out")
  /\ UNCHANGED <<poolVars, held, calls, closer, missed>>

\* The picker found a server: a new connection.
PickServer(u) ==
  /\ pc[u] = "pick"
  /\ held' = [held EXCEPT ![u] = 0]
  /\ Move(u, "use")
  /\ UNCHANGED <<poolVars, calls, closer, missed>>

\* The picker failed: the slot is given back without p.mu ...
PickFails(u) ==
  /\ PickerFails
  /\ pc[u] = "pick"
  /\ total' = total - 1
  /\ Move(u, "signal")
  /\ UNCHANGED <<closed, idle, queue, held, calls, closer, missed>>

\* ... and a waiter is signalled, without p.mu as well.
PickFailSignals(u) ==
  /\ pc[u] = "signal"
  /\ SignalAndMove(u, "out")
  /\ missed' = (missed \/ ~MutexFree)
  /\ UNCHANGED <<closed, total, idle, held, calls, closer>>

\* Connection.Send counts the request; then Put makes its unlocked check and
\* closes the connection of a closed pool.
SendAndPut(u) ==
  /\ pc[u] = "use"
  /\ Move(u, IF closed THEN "out" ELSE "put")
  /\ held' = [held EXCEPT ![u] = IF closed THEN 0 ELSE @ + 1]
  /\ UNCHANGED <<poolVars, calls, closer, missed>>

\* Put under p.mu, in a pool closed since the check.
PutClosed(u) ==
  /\ Locks(u, "put")
  /\ closed
  /\ held' = [held EXCEPT ![u] = 0]
  /\ Move(u, "out")
  /\ UNCHANGED <<poolVars, calls, closer, missed>>

ShouldClose(u) == held[u] >= MaxRequests

\* A slip: the slot of a worn-out connection is freed without a signal.
PutWornSilently(u) ==
  /\ Locks(u, "put")
  /\ ~closed
  /\ ShouldClose(u)
  /\ total' = total - 1
  /\ held' = [held EXCEPT ![u] = 0]
  /\ Move(u, "out")
  /\ UNCHANGED <<closed, idle, queue, calls, closer, missed>>

\* A slip: the slot of a worn-out connection is not given back.
PutWornKeepsSlot(u) ==
  /\ Locks(u, "put")
  /\ ~closed
  /\ ShouldClose(u)
  /\ held' = [held EXCEPT ![u] = 0]
  /\ SignalAndMove(u, "out")
  /\ UNCHANGED <<closed, total, idle, calls, closer, missed>>

\* A worn-out connection leaves the pool and a waiter may have its slot.
PutWorn(u) ==
  /\ Locks(u, "put")
  /\ ~closed
  /\ ShouldClose(u)
  /\ total' = total - 1
  /\ held' = [held EXCEPT ![u] = 0]
  /\ SignalAndMove(u, "out")
  /\ UNCHANGED <<closed, idle, calls, closer, missed>>

\* Any other goes back to the list and all waiters are woken.
PutIdle(u) ==
  /\ Locks(u, "put")
  /\ ~closed
  /\ ~ShouldClose(u)
  /\ idle' = Append(idle, held[u])
  /\ held' = [held EXCEPT ![u] = 0]
  /\ MoveAndWake(u, "out", Parked)
  /\ queue' = <<>>
  /\ UNCHANGED <<closed, total, calls, closer, missed>>

\* Close marks the pool and drops the list under p.mu ...
Close ==
  /\ MayClose
  /\ closer = "open"
  /\ MutexFree
  /\ closed' = TRUE
  /\ idle' = <<>>
  /\ closer' = "broadcast"
  /\ UNCHANGED <<total, queue, pc, held, calls, missed>>

\* ... and broadcasts after it has closed the idle connections.
CloseBroadcast ==
  /\ closer = "broadcast"
  /\ queue' = <<>>
  /\ pc' = [u \in Users |-> IF u \in Parked THEN "woken" ELSE pc[u]]
  /\ closer' = "done"
  /\ UNCHANGED <<closed, total, idle, held, calls, missed>>

\* The steps that need p.mu, and the others.
LockedStep(u) ==
  \/ Reuse(u) \/ Reserve(u) \/ SeeFull(u) \/ WakeClosed(u)
  \/ PutClosed(u) \/ PutWorn(u) \/ PutIdle(u)

FreeStep(u) ==
  \/ Wait(u) \/ PickServer(u) \/ PickFails(u) \/ PickFailSignals(u) \/ SendAndPut(u)

Next ==
  \/ \E u \in Users : Get(u) \/ LockedStep(u) \/ FreeStep(u)
  \/ Close
  \/ CloseBroadcast

Spec == Init /\ [][Next]_vars

\* Go's mutex is starvation free, a goroutine keeps running, and a request in
\* progress comes to an end.  Nobody is obliged to call Get or Close.
Fairness ==
  /\ \A u \in Users : SF_vars(LockedStep(u)) /\ WF_vars(FreeStep(u))
  /\ WF_vars(CloseBroadcast)

FairSpec == Spec /\ Fairness

-----------------------------------------------------------------------------

\* Users that have a connection or the slot for one.
Holders == {u \in Users : pc[u] \in {"pick", "use", "put"}}

(***************************************************************************)
(* Every slot of an open pool is an idle connection, or one that a user    *)
(* has or is about to create: none leaks on the failure path, when a       *)
(* worn-out connection leaves, or when Get takes the other way after Wait. *)
(* And the connections, before Close and after it, stay within             *)
(* max_connections while waiters and newcomers race for a slot (lines      *)
(* 208-262, 307-315).                                                      *)
(***************************************************************************)
SlotsExact ==
  LET connections == Len(idle) + Cardinality(Holders) IN
  /\ ~closed => total = connections
  /\ MaxTotal > 0 => connections <= MaxTotal

(***************************************************************************)
(* No lost wake-up: while a slot or a connection is free and somebody      *)
(* waits for one, a waiter has been woken or is about to be.  One race is  *)
(* left: the failure path of Get signals without p.mu, so it may signal    *)
(* while another Get is between its look at the limit and its Wait (lines  *)
(* 249-251, 269-272).  Nothing else strands a waiter.                      *)
(***************************************************************************)
NoStrandedWaiter ==
  (total < MaxTotal \/ idle # <<>>) /\ queue # <<>> /\ ~closed
    => missed \/ \E u \in Users : pc[u] \in {"woken", "signal"}

(***************************************************************************)
(* "Get retrieves a reusable connection or creates a new one" (line 172):  *)
(* every call of Get returns, with a connection or an error.  Two calls    *)
(* may sleep on: one that missed a signal as above, and one that passed    *)
(* the unlocked check of p.closed and waits after the broadcast of Close.  *)
(***************************************************************************)
GetReturns ==
  \A u \in Users :
    pc[u] = "enter" ~> \/ pc[u] \in {"use", "out"}
                       \/ missed
                       \/ pc[u] = "parked" /\ closer = "done"
=============================================================================
