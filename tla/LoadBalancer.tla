---------------------------- MODULE LoadBalancer ----------------------------
(***************************************************************************)
(* The load balancers of pkg/loadbalancer/balancer.go: the list of servers *)
(* they share (BaseBalancer) and the four PickServer methods.              *)
(*                                                                         *)
(* PickServer copies the healthy servers under the read lock and chooses   *)
(* among the copy after it, while others register, remove and mark         *)
(* servers.  LeastConnections reads its counters one by one, as they       *)
(* change.  The counter of RoundRobin and Weighted is a uint64; the model  *)
(* stops long before it wraps around.                                      *)
(***************************************************************************)
EXTENDS Integers, FiniteSetsExt, SequencesExt

CONSTANTS
  Servers,      \* identifiers of servers
  Weight,       \* the Weight of a server in its ServerInfo
  Pickers,      \* goroutines that call PickServer
  Algorithms,   \* the algorithms to choose from
  Reports,      \* whether callers report connections to LeastConnections
  Disconnects,  \* whether they close connections again
  MaxPicks,     \* bound on the number of picks
  MaxChanges    \* bound on the number of changes to the list of servers

AllAlgorithms == {"round_robin", "random", "weighted", "least_conn"}

ASSUME BalancerAssumption ==
  /\ IsFiniteSet(Servers) /\ IsFiniteSet(Pickers)
  /\ Weight \in [Servers -> Int]
  /\ Algorithms \subseteq AllAlgorithms
  /\ {Reports, Disconnects} \subseteq BOOLEAN
  /\ {MaxPicks, MaxChanges} \subseteq Nat

VARIABLES
  algorithm,    \* what New was asked for
  servers,      \* b.servers
  healthy,      \* the Healthy flag of a server
  current,      \* r.current or w.current; for the others, picks so far
  connections,  \* l.connections, 0 for a server without an entry
  at,           \* where a picker is
  copy,         \* its copy of the healthy servers
  scan,         \* LeastConnections: the next position, best and bestCount
  picked,       \* the server it has picked
  open,         \* connections the callers have open, for LeastConnections
  picks,        \* history: picks of a server since the list last changed
  since,        \* history: current at that time
  lost,         \* history: a connection was closed
  down,         \* history: servers not in service ever since a call began
  changes       \* history: changes to the list

listVars == <<servers, healthy, changes>>
balancerVars == <<algorithm, servers, healthy, current, connections, at, copy, scan,
                  picked, open, picks, since, lost, down, changes>>

AnyServer == CHOOSE s \in Servers : TRUE

NoScan == [next |-> 1, best |-> 1, bestCount |-> -1]

BalancerTypeOK ==
  /\ algorithm \in Algorithms
  /\ servers \in Seq(Servers) /\ IsInjective(servers)
  /\ healthy \in [Servers -> BOOLEAN]
  /\ current \in Nat
  /\ connections \in [Servers -> Nat]
  /\ at \in [Pickers -> {"idle", "called", "pick", "scan", "picked"}]
  /\ copy \in [Pickers -> Seq(Servers)]
  /\ scan \in [Pickers -> [next : Nat \ {0}, best : Nat \ {0}, bestCount : Nat \cup {-1}]]
  /\ picked \in [Pickers -> Servers \cup {AnyServer}]
  /\ open \in [Servers -> Nat]
  /\ picks \in [Servers -> Nat]
  /\ since \in 0..current
  /\ lost \in BOOLEAN
  /\ down \in [Pickers -> SUBSET Servers]
  /\ changes \in 0..MaxChanges

\* New, with all servers registered as NewSimulator does.
BalancerInit ==
  /\ algorithm \in Algorithms
  /\ servers = SetToSeq(Servers)
  /\ healthy = [s \in Servers |-> TRUE]
  /\ current = 0
  /\ connections = [s \in Servers |-> 0]
  /\ at = [p \in Pickers |-> "idle"]
  /\ copy = [p \in Pickers |-> <<>>]
  /\ scan = [p \in Pickers |-> NoScan]
  /\ picked = [p \in Pickers |-> AnyServer]
  /\ open = [s \in Servers |-> 0]
  /\ picks = [s \in Servers |-> 0]
  /\ since = 0
  /\ lost = FALSE
  /\ down = [p \in Pickers |-> {}]
  /\ changes = 0

-----------------------------------------------------------------------------

NoPicks == [s \in Servers |-> 0]

\* A slip: every registered server is handed out.
AllServers == servers

getHealthyServers ==
  LET result[i \in 0..Len(servers)] ==
        IF i = 0 THEN <<>>
        ELSE IF healthy[servers[i]] THEN Append(result[i - 1], servers[i]) ELSE result[i - 1]
  IN result[Len(servers)]

\* A change of the list, under the write lock.
Changed ==
  /\ changes < MaxChanges
  /\ changes' = changes + 1
  /\ picks' = NoPicks
  /\ since' = current
  /\ UNCHANGED <<algorithm, current, connections, at, copy, scan, picked, open, lost>>

\* s comes into service: no call that is under way has it down throughout.
Serves(s) == down' = [p \in Pickers |-> down[p] \ {s}]

\* An identifier that is registered already is refused.
RegisterServer(s) ==
  /\ s \notin ToSet(servers)
  /\ servers' = Append(servers, s)
  /\ healthy' = [healthy EXCEPT ![s] = TRUE]
  /\ Serves(s)
  /\ Changed

RemoveServer(s) ==
  /\ \E i \in DOMAIN servers : servers[i] = s /\ servers' = RemoveAt(servers, i)
  /\ UNCHANGED <<healthy, down>>
  /\ Changed

MarkUnhealthy(s) ==
  /\ s \in ToSet(servers) /\ healthy[s]
  /\ healthy' = [healthy EXCEPT ![s] = FALSE]
  /\ UNCHANGED <<servers, down>>
  /\ Changed

MarkHealthy(s) ==
  /\ s \in ToSet(servers) /\ ~healthy[s]
  /\ healthy' = [healthy EXCEPT ![s] = TRUE]
  /\ Serves(s)
  /\ UNCHANGED servers
  /\ Changed

\* PickServer is called.
Call(p) ==
  /\ at[p] = "idle"
  /\ current + Cardinality({q \in Pickers : at[q] # "idle"}) < MaxPicks
  /\ at' = [at EXCEPT ![p] = "called"]
  /\ down' = [down EXCEPT ![p] = {s \in Servers : s \notin ToSet(servers) \/ ~healthy[s]}]
  /\ UNCHANGED <<algorithm, listVars, current, connections, copy, scan, picked, open, picks, since, lost>>

\* It copies the list; without a healthy server it returns an error.
Copy(p) ==
  LET list == getHealthyServers IN
  /\ at[p] = "called"
  /\ copy' = [copy EXCEPT ![p] = list]
  /\ scan' = [scan EXCEPT ![p] = NoScan]
  /\ at' = [at EXCEPT ![p] = IF list = <<>> THEN "idle"
                             ELSE IF algorithm = "least_conn" THEN "scan" ELSE "pick"]
  /\ UNCHANGED <<algorithm, listVars, current, connections, picked, open, picks, since, lost, down>>

\* A weight that is not positive counts as one.
WeightOf(s) == IF Weight[s] <= 0 THEN 1 ELSE Weight[s]

\* The weight of the first i servers of a list.
WeightUpTo(list, i) ==
  LET sum[j \in 0..i] == IF j = 0 THEN 0 ELSE sum[j - 1] + WeightOf(list[j])
  IN sum[i]

\* A slip: the boundary between two servers is off by one.
WeightedLate(list, idx) ==
  LET pick == idx % WeightUpTo(list, Len(list)) IN
  list[Min({i \in 1..Len(list) : pick <= WeightUpTo(list, i)})]

\* The first server at which the running difference becomes negative.
Weighted(list, idx) ==
  LET pick == idx % WeightUpTo(list, Len(list)) IN
  list[Min({i \in 1..Len(list) : pick < WeightUpTo(list, i)})]

RoundRobin(list, idx) == list[1 + (idx % Len(list))]

\* The choices of an algorithm that keeps no counters per server, when idx
\* picks have been made.
Candidates(list, idx) ==
  CASE algorithm = "round_robin" -> {RoundRobin(list, idx)}
    [] algorithm = "weighted" -> {Weighted(list, idx)}
    [] OTHER -> ToSet(list)

\* The pick is made from a copy; one from a copy that is out of date starts
\* the count of picks anew.
Picks(p, s) ==
  /\ picked' = [picked EXCEPT ![p] = s]
  /\ current' = current + 1
  /\ IF copy[p] = getHealthyServers
       THEN picks' = [picks EXCEPT ![s] = @ + 1] /\ UNCHANGED since
       ELSE picks' = NoPicks /\ since' = current + 1
  /\ at' = [at EXCEPT ![p] = "picked"]

Pick(p) ==
  /\ at[p] = "pick"
  /\ \E s \in Candidates(copy[p], current) : Picks(p, s)
  /\ UNCHANGED <<algorithm, listVars, connections, copy, scan, open, lost, down>>

\* A slip: bestCount stays what it was.
ScanForgets(p) ==
  LET here == scan[p] IN
  /\ at[p] = "scan"
  /\ here.next <= Len(copy[p])
  /\ scan' = [scan EXCEPT ![p] = [here EXCEPT !.next = @ + 1, !.best = here.next]]
  /\ UNCHANGED <<algorithm, listVars, current, connections, at, copy, picked, open, picks, since, lost, down>>

\* LeastConnections looks at the counter of one server of the copy ...
Scan(p) ==
  LET here == scan[p]
      n == connections[copy[p][here.next]]
  IN
  /\ at[p] = "scan"
  /\ here.next <= Len(copy[p])
  /\ scan' = [scan EXCEPT ![p] =
                IF here.bestCount < 0 \/ n < here.bestCount
                  THEN [next |-> here.next + 1, best |-> here.next, bestCount |-> n]
                  ELSE [here EXCEPT !.next = @ + 1]]
  /\ UNCHANGED <<algorithm, listVars, current, connections, at, copy, picked, open, picks, since, lost, down>>

\* ... and returns the best when it has seen them all.
PickBest(p) ==
  /\ at[p] = "scan"
  /\ scan[p].next > Len(copy[p])
  /\ Picks(p, copy[p][scan[p].best])
  /\ UNCHANGED <<algorithm, listVars, connections, copy, scan, open, lost, down>>

\* The caller opens a connection and may call IncrementConnections.  Its write
\* lock waits for scans in progress, which is not required here: more
\* interleavings than the code has.
Connect(p) ==
  LET s == picked[p]
      least == algorithm = "least_conn"
  IN
  /\ at[p] = "picked"
  /\ at' = [at EXCEPT ![p] = "idle"]
  /\ copy' = [copy EXCEPT ![p] = <<>>]
  /\ scan' = [scan EXCEPT ![p] = NoScan]
  /\ picked' = [picked EXCEPT ![p] = AnyServer]
  /\ down' = [down EXCEPT ![p] = {}]
  /\ open' = IF least THEN [open EXCEPT ![s] = @ + 1] ELSE open
  /\ connections' = IF least /\ Reports THEN [connections EXCEPT ![s] = @ + 1] ELSE connections
  /\ UNCHANGED <<algorithm, listVars, current, picks, since, lost>>

\* A connection is closed, with DecrementConnections if it was reported.
Disconnect(s) ==
  /\ Disconnects
  /\ open[s] > 0
  /\ open' = [open EXCEPT ![s] = @ - 1]
  /\ lost' = TRUE
  /\ connections' = IF Reports THEN [connections EXCEPT ![s] = @ - 1] ELSE connections
  /\ UNCHANGED <<algorithm, listVars, current, at, copy, scan, picked, picks, since, down>>

ChangeList(s) ==
  RegisterServer(s) \/ RemoveServer(s) \/ MarkUnhealthy(s) \/ MarkHealthy(s)

BalancerNext ==
  \/ \E s \in Servers : ChangeList(s) \/ Disconnect(s)
  \/ \E p \in Pickers :
       Call(p) \/ Copy(p) \/ Pick(p) \/ Scan(p) \/ PickBest(p) \/ Connect(p)

BalancerSpec == BalancerInit /\ [][BalancerNext]_balancerVars

-----------------------------------------------------------------------------

(***************************************************************************)
(* RoundRobin and Weighted share the picks out exactly: over any number of *)
(* picks from an unchanged list, made by any number of goroutines in any   *)
(* order, a server of weight w among a total of W has w in every W picks,  *)
(* and of the rest no more and no fewer than one contiguous run of W picks *)
(* allows (lines 120-122, 181-196).                                        *)
(***************************************************************************)
FairShare ==
  LET list == getHealthyServers
      weight(s) == IF algorithm = "weighted" THEN WeightOf(s) ELSE 1
      W == IF algorithm = "weighted" THEN WeightUpTo(list, Len(list)) ELSE Len(list)
      n == current - since
  IN
  algorithm \in {"round_robin", "weighted"} =>
    \A s \in ToSet(list) :
      /\ picks[s] >= (n \div W) * weight(s)
      /\ picks[s] >= (n \div W) * weight(s) + (n % W) - (W - weight(s))
      /\ picks[s] <= (n \div W) * weight(s) + weight(s)
      /\ picks[s] <= (n \div W) * weight(s) + (n % W)

(***************************************************************************)
(* A server that is removed or unhealthy before PickServer is called and   *)
(* stays so is not picked by that call, whatever happens to the list       *)
(* meanwhile (lines 84-96; TestRoundRobin_SkipsUnhealthy tries one case).  *)
(***************************************************************************)
AvoidsDown ==
  \A p \in Pickers : at[p] = "picked" => picked[p] \notin down[p]

(***************************************************************************)
(* LeastConnections keeps the servers level: goroutines that read the same *)
(* counters pick the same server, but as long as connections stay open and *)
(* the list stays as it is, no server gets further ahead of another than   *)
(* there are goroutines (lines 218-257).                                   *)
(***************************************************************************)
SpreadBounded ==
  algorithm = "least_conn" /\ Reports /\ changes = 0 /\ ~lost =>
    \A s, t \in Servers : open[s] <= open[t] + Cardinality(Pickers)
=============================================================================
