------------------------ MODULE ConnectionPoolProofs ------------------------
(***************************************************************************)
(* Proofs about the connection pool and about the load balancer that picks *)
(* the servers for its connections, for every number of goroutines, calls  *)
(* and servers, every limit, strategy, algorithm and weight.               *)
(*                                                                         *)
(* PoolInv is inductive.  For the slots it says that the counter covers    *)
(* the connections, exactly while the pool is open, and stays within the   *)
(* limit.  For the wake-ups it counts: as long as somebody waits, or is    *)
(* about to, as many goroutines are awake for a slot as slots are free.    *)
(*                                                                         *)
(* BalancerInv, in the second half, is inductive too.  Shares says how     *)
(* often a server has been picked as a function of the counter alone;      *)
(* Level counts the goroutines that are about to open a connection to a    *)
(* server among the connections it has.                                    *)
(***************************************************************************)
EXTENDS ConnectionPool, LoadBalancer, TLAPS, FiniteSetTheorems, SequenceTheorems

\* The users that are at one of the places in S.
In(p, S) == {u \in Users : p[u] \in S}

HolderPCs == {"pick", "use", "put"}
AwakePCs == {"woken", "signal"}

Awake == In(pc, AwakePCs)

\* A connection in the list, or on its way to a request, is not worn out.
Fresh ==
  /\ \A i \in 1..Len(idle) : idle[i] < MaxRequests
  /\ \A u \in Users : pc[u] = "use" => held[u] < MaxRequests

\* The counter covers the connections.  After Close it may be too high.
Covered ==
  /\ Len(idle) + Cardinality(Holders) <= total
  /\ ~closed => total = Len(idle) + Cardinality(Holders)
  /\ MaxTotal > 0 => total <= MaxTotal

\* The list of globalCond names parked users, once each.
Queued ==
  /\ \A i \in 1..Len(queue) : pc[queue[i]] = "parked"
  /\ \A i, j \in 1..Len(queue) : queue[i] = queue[j] => i = j

\* Nobody waits, or is about to, next to an idle connection.
NoneWaits == queue = <<>> /\ MutexFree
IdleUnwanted == idle # <<>> => NoneWaits

\* While somebody waits, a goroutine is awake for every free slot.
FreeSlotsAwaited ==
  closed \/ missed \/ NoneWaits \/ MaxTotal - total <= Cardinality(Awake)

PoolInv == TypeOK /\ Fresh /\ Covered /\ Queued /\ IdleUnwanted /\ FreeSlotsAwaited

-----------------------------------------------------------------------------

LEMMA CountType ==
  ASSUME NEW p, NEW S
  PROVE  IsFiniteSet(In(p, S)) /\ Cardinality(In(p, S)) \in Nat
  <1>1. In(p, S) \in SUBSET Users
    BY DEF In
  <1> QED BY <1>1, PoolAssumption, FS_Subset, FS_CardinalityType

One(b) == IF b THEN 1 ELSE 0

\* When one user moves, the number of users at the places in S changes by what
\* that user changes.
LEMMA CountMove ==
  ASSUME NEW p, NEW q, NEW S, NEW u \in Users,
         \A v \in Users \ {u} : q[v] \in S <=> p[v] \in S
  PROVE  Cardinality(In(q, S)) = Cardinality(In(p, S)) + One(q[u] \in S) - One(p[u] \in S)
  <1> DEFINE rest == In(p, S) \ {u}
  <1>1. IsFiniteSet(rest) /\ u \notin rest
    BY CountType, FS_RemoveElement
  <1>2. rest = In(q, S) \ {u}
    BY DEF In
  <1>3. /\ u \in In(p, S) <=> p[u] \in S
        /\ u \in In(q, S) <=> q[u] \in S
    BY DEF In
  <1>4. Cardinality(rest) = IF p[u] \in S THEN Cardinality(In(p, S)) - 1
                            ELSE Cardinality(In(p, S))
    BY <1>3, CountType, FS_RemoveElement
  <1>5. Cardinality(rest) = IF q[u] \in S THEN Cardinality(In(q, S)) - 1
                            ELSE Cardinality(In(q, S))
    BY <1>2, <1>3, CountType, FS_RemoveElement
  <1>6. Cardinality(In(p, S)) \in Nat /\ Cardinality(In(q, S)) \in Nat
    BY CountType
  <1> HIDE DEF rest
  <1> QED BY <1>4, <1>5, <1>6 DEF One

LEMMA Counted ==
  /\ Cardinality(Holders) = Cardinality(In(pc, HolderPCs))
  /\ Cardinality(Awake) = Cardinality(In(pc, AwakePCs))
  /\ Cardinality(Holders) \in Nat /\ Cardinality(Awake) \in Nat
  <1>1. Holders = In(pc, HolderPCs)
    BY DEF Holders, In, HolderPCs
  <1> QED BY <1>1, CountType DEF Awake

LEMMA CountedNext ==
  /\ Cardinality(Holders)' = Cardinality(In(pc', HolderPCs))
  /\ Cardinality(Awake)' = Cardinality(In(pc', AwakePCs))
  /\ Cardinality(Holders)' \in Nat /\ Cardinality(Awake)' \in Nat
  <1>1. Holders' = In(pc', HolderPCs)
    BY DEF Holders, In, HolderPCs
  <1>2. Awake' = In(pc', AwakePCs)
    BY DEF Awake, In
  <1> QED BY <1>1, <1>2, CountType

\* A user that was not waiting moves on, and nobody else does.
LEMMA PlainMove ==
  ASSUME TypeOK, Queued, NEW u \in Users, NEW where \in PCs, pc[u] # "parked",
         Move(u, where)
  PROVE  /\ pc' \in [Users -> PCs]
         /\ pc'[u] = where
         /\ \A v \in Users \ {u} : pc'[v] = pc[v]
         /\ queue' = queue => Queued'
         /\ pc[u] # "full" /\ where # "full" => (MutexFree' <=> MutexFree)
         /\ Cardinality(Holders)' = Cardinality(Holders)
              + One(where \in HolderPCs) - One(pc[u] \in HolderPCs)
         /\ Cardinality(Awake)' = Cardinality(Awake)
              + One(where \in AwakePCs) - One(pc[u] \in AwakePCs)
  <1>1. pc' = [v \in Users |-> IF v = u THEN where ELSE pc[v]]
    BY DEF Move, MoveAndWake
  <1>2. /\ pc' \in [Users -> PCs]
        /\ pc'[u] = where
        /\ \A v \in Users \ {u} : pc'[v] = pc[v]
    BY <1>1 DEF TypeOK
  <1>3. queue' = queue => Queued'
    BY <1>2 DEF Queued, TypeOK
  <1>4. pc[u] # "full" /\ where # "full" => (MutexFree' <=> MutexFree)
    BY <1>2 DEF MutexFree
  <1>5. Cardinality(In(pc', HolderPCs)) = Cardinality(In(pc, HolderPCs))
              + One(pc'[u] \in HolderPCs) - One(pc[u] \in HolderPCs)
    BY <1>2, CountMove
  <1>6. Cardinality(In(pc', AwakePCs)) = Cardinality(In(pc, AwakePCs))
              + One(pc'[u] \in AwakePCs) - One(pc[u] \in AwakePCs)
    BY <1>2, CountMove
  <1> QED BY <1>2, <1>3, <1>4, <1>5, <1>6, Counted, CountedNext

\* A Signal wakes the head of the list, when there is one.
LEMMA SignalMove ==
  ASSUME TypeOK, Queued, NEW u \in Users, pc[u] # "parked",
         pc[u] # "full", SignalAndMove(u, "out")
  PROVE  /\ pc' \in [Users -> PCs]
         /\ pc'[u] = "out"
         /\ \A v \in Users \ {u} : pc'[v] = pc[v] \/ pc'[v] = "woken"
         /\ queue' \in Seq(Users)
         /\ queue = <<>> => queue' = <<>>
         /\ Queued'
         /\ MutexFree' <=> MutexFree
         /\ Cardinality(Holders)' = Cardinality(Holders) - One(pc[u] \in HolderPCs)
         /\ Cardinality(Awake)' = Cardinality(Awake) - One(pc[u] \in AwakePCs)
                                    + One(queue # <<>>)
  <1>0. queue \in Seq(Users) /\ pc \in [Users -> PCs] /\ "out" \in PCs
        /\ "out" \notin HolderPCs \cup AwakePCs
    BY DEF TypeOK, PCs, HolderPCs, AwakePCs
  <1>1. CASE queue = <<>>
    <2>1. queue' = queue /\ Move(u, "out")
      BY <1>1 DEF SignalAndMove, Move
    <2> QED BY <1>0, <1>1, <2>1, PlainMove, Counted DEF One
  <1>2. CASE queue # <<>>
    <2> DEFINE h == Head(queue)
    <2>1. queue' = Tail(queue) /\ MoveAndWake(u, "out", {h})
      BY <1>2 DEF SignalAndMove
    <2>2. h \in Users /\ h = queue[1] /\ 1 \in 1..Len(queue) /\ Len(queue) \in Nat
      BY <1>0, <1>2
    <2>3. pc[h] = "parked" /\ h # u
      BY <2>2 DEF Queued
    <2> HIDE DEF h
    <2> DEFINE p == [v \in Users |-> IF v = u THEN "out" ELSE pc[v]]
    <2>4. /\ pc' = [v \in Users |-> IF v = u THEN "out" ELSE IF v = h THEN "woken" ELSE pc[v]]
          /\ p \in [Users -> PCs]
      BY <1>0, <2>1 DEF MoveAndWake
    <2>5. /\ pc' \in [Users -> PCs] /\ pc'[u] = "out" /\ pc'[h] = "woken"
          /\ \A v \in Users \ {u, h} : pc'[v] = pc[v]
      BY <1>0, <2>2, <2>3, <2>4 DEF PCs
    <2>6. /\ queue' \in Seq(Users) /\ Len(queue') = Len(queue) - 1
          /\ \A i \in 1..Len(queue') : queue'[i] = queue[i + 1]
                                       /\ i + 1 \in 1..Len(queue) /\ i + 1 # 1
      BY <1>0, <1>2, <2>1
    <2>7. Queued'
      <3>1. ASSUME NEW i \in 1..Len(queue') PROVE pc'[queue'[i]] = "parked"
        <4>1. queue[i + 1] # h /\ pc[queue[i + 1]] = "parked" /\ queue[i + 1] \in Users
          BY <1>0, <2>2, <2>6 DEF Queued
        <4> QED BY <2>5, <2>6, <4>1
      <3>2. ASSUME NEW i \in 1..Len(queue'), NEW j \in 1..Len(queue'), queue'[i] = queue'[j]
            PROVE  i = j
        <4>1. i + 1 = j + 1
          BY <2>6, <3>2 DEF Queued
        <4> QED BY <4>1
      <3> QED BY <3>1, <3>2 DEF Queued
    <2>8. MutexFree' <=> MutexFree
      BY <2>2, <2>3, <2>5 DEF MutexFree
    <2>9. \A S : /\ Cardinality(In(p, S)) = Cardinality(In(pc, S))
                      + One("out" \in S) - One(pc[u] \in S)
                 /\ Cardinality(In(pc', S)) = Cardinality(In(p, S))
                      + One("woken" \in S) - One("parked" \in S)
      <3>1. TAKE S
      <3>2. p[u] = "out" /\ p[h] = "parked" /\ \A v \in Users \ {u} : p[v] = pc[v]
        BY <2>2, <2>3
      <3>3. \A v \in Users \ {h} : pc'[v] = p[v]
        BY <2>3, <2>4
      <3>4. \A v \in Users \ {h} : pc'[v] \in S <=> p[v] \in S
        BY <3>3
      <3> HIDE DEF p
      <3>5. Cardinality(In(p, S)) = Cardinality(In(pc, S)) + One(p[u] \in S) - One(pc[u] \in S)
        BY <3>2, CountMove
      <3>6. Cardinality(In(pc', S)) = Cardinality(In(p, S)) + One(pc'[h] \in S) - One(p[h] \in S)
        BY <2>2, <3>4, CountMove, Zenon
      <3> QED BY <2>5, <3>2, <3>5, <3>6
    <2> HIDE DEF p
    <2>10. /\ Cardinality(In(p, HolderPCs)) \in Nat /\ Cardinality(In(p, AwakePCs)) \in Nat
      BY CountType
    <2>11. /\ Cardinality(In(p, HolderPCs)) = Cardinality(In(pc, HolderPCs))
                - One(pc[u] \in HolderPCs)
           /\ Cardinality(In(pc', HolderPCs)) = Cardinality(In(p, HolderPCs))
      <3>1. One("out" \in HolderPCs) = 0 /\ One("woken" \in HolderPCs) = 0
            /\ One("parked" \in HolderPCs) = 0
        BY <1>0 DEF One, HolderPCs
      <3>2. One(pc[u] \in HolderPCs) \in Nat
        BY DEF One
      <3> QED BY <2>9, <2>10, <3>1, <3>2, Counted
    <2>12. /\ Cardinality(In(p, AwakePCs)) = Cardinality(In(pc, AwakePCs))
                - One(pc[u] \in AwakePCs)
           /\ Cardinality(In(pc', AwakePCs)) = Cardinality(In(p, AwakePCs)) + 1
      <3>1. One("out" \in AwakePCs) = 0 /\ One("woken" \in AwakePCs) = 1
            /\ One("parked" \in AwakePCs) = 0
        BY <1>0 DEF One, AwakePCs
      <3>2. One(pc[u] \in AwakePCs) \in Nat
        BY DEF One
      <3> QED BY <2>9, <2>10, <3>1, <3>2, Counted
    <2>13. One(queue # <<>>) = 1
      BY <1>2 DEF One
    <2>14. \A v \in Users \ {u} : pc'[v] = pc[v] \/ pc'[v] = "woken"
      BY <2>5
    <2>15. Cardinality(Holders)' = Cardinality(Holders) - One(pc[u] \in HolderPCs)
      BY <2>11, Counted, CountedNext
    <2>16. Cardinality(Awake)' = Cardinality(Awake) - One(pc[u] \in AwakePCs) + One(queue # <<>>)
      BY <2>12, <2>13, Counted, CountedNext
    <2> QED BY <1>2, <2>5, <2>6, <2>7, <2>8, <2>14, <2>15, <2>16
  <1> QED BY <1>1, <1>2

-----------------------------------------------------------------------------

LEMMA AllButFirst ==
  ASSUME NEW T, NEW s \in Seq(T), Len(s) >= 1
  PROVE  /\ Tail(s) \in Seq(T) /\ Len(Tail(s)) = Len(s) - 1
         /\ \A j \in 1..Len(Tail(s)) : Tail(s)[j] = s[j + 1] /\ j + 1 \in 1..Len(s)
  <1>1. s # <<>>
    OBVIOUS
  <1> QED BY <1>1

LEMMA AllButLast ==
  ASSUME NEW T, NEW s \in Seq(T), Len(s) >= 1, NEW r, r = SubSeq(s, 1, Len(s) - 1)
  PROVE  /\ r \in Seq(T) /\ Len(r) = Len(s) - 1
         /\ \A j \in 1..Len(r) : r[j] = s[j] /\ j \in 1..Len(s)
  <1> DEFINE n == Len(s) - 1
  <1>1. n \in Nat /\ Len(s) = n + 1
    OBVIOUS
  <1>2. \A j \in 1..n : s[j] \in T /\ j \in 1..Len(s)
    OBVIOUS
  <1>3. r = SubSeq(s, 1, n)
    OBVIOUS
  <1> HIDE DEF n
  <1>4. /\ r \in Seq(T)
        /\ Len(r) = IF 1 <= n THEN n - 1 + 1 ELSE 0
        /\ \A j \in 1..(n - 1 + 1) : r[j] = s[1 + j - 1]
    BY <1>1, <1>2, <1>3, SubSeqProperties
  <1>5. Len(r) = n
    BY <1>1, <1>4
  <1>6. ASSUME NEW j \in 1..n PROVE r[j] = s[j]
    <2>1. j \in 1..(n - 1 + 1) /\ 1 + j - 1 = j
      BY <1>1
    <2> QED BY <1>4, <2>1
  <1> QED BY <1>1, <1>2, <1>4, <1>5, <1>6

LEMMA IdleFresh ==
  ASSUME TypeOK, Fresh, NEW i \in 1..Len(idle)
  PROVE  idle[i] \in 0..MaxRequests /\ idle[i] < MaxRequests
  <1>1. idle \in Seq(0..MaxRequests)
    BY DEF TypeOK
  <1>2. idle[i] \in 0..MaxRequests
    BY <1>1, ElementOfSeq
  <1>3. idle[i] < MaxRequests
    BY DEF Fresh
  <1> QED BY <1>2, <1>3

\* The lists of idle connections that Get leaves.
LEMMA Remainder ==
  ASSUME TypeOK, Fresh, idle # <<>>, NEW i, NEW rest,
         i = IF Lifo THEN Len(idle) ELSE 1,
         rest = IF Lifo THEN SubSeq(idle, 1, Len(idle) - 1) ELSE Tail(idle)
  PROVE  /\ idle[i] \in 0..MaxRequests /\ idle[i] < MaxRequests
         /\ rest \in Seq(0..MaxRequests) /\ Len(rest) = Len(idle) - 1
         /\ \A j \in 1..Len(rest) : rest[j] < MaxRequests
  <1>1. idle \in Seq(0..MaxRequests) /\ Len(idle) \in Nat /\ Len(idle) >= 1
    BY DEF TypeOK
  <1>2. i \in 1..Len(idle)
    BY <1>1
  <1>3. idle[i] \in 0..MaxRequests /\ idle[i] < MaxRequests
    BY <1>2, IdleFresh
  <1>4. CASE Lifo
    <2>1. rest = SubSeq(idle, 1, Len(idle) - 1)
      BY <1>4
    <2>2. /\ rest \in Seq(0..MaxRequests) /\ Len(rest) = Len(idle) - 1
          /\ \A j \in 1..Len(rest) : rest[j] = idle[j] /\ j \in 1..Len(idle)
      BY <1>1, <2>1, AllButLast
    <2>3. \A j \in 1..Len(rest) : rest[j] < MaxRequests
      BY <2>2 DEF Fresh
    <2> QED BY <1>3, <2>2, <2>3
  <1>5. CASE ~Lifo
    <2>1. rest = Tail(idle)
      BY <1>5
    <2>2. /\ rest \in Seq(0..MaxRequests) /\ Len(rest) = Len(idle) - 1
          /\ \A j \in 1..Len(rest) : rest[j] = idle[j + 1] /\ j + 1 \in 1..Len(idle)
      BY <1>1, <2>1, AllButFirst
    <2>3. \A j \in 1..Len(rest) : rest[j] < MaxRequests
      BY <2>2 DEF Fresh
    <2> QED BY <1>3, <2>2, <2>3
  <1> QED BY <1>4, <1>5

LEMMA GetKeeps ==
  ASSUME PoolInv, NEW u \in Users, Get(u)
  PROVE  PoolInv'
  <1>1. /\ pc[u] = "out" /\ Move(u, "enter") /\ "enter" \in PCs
        /\ calls[u] < MaxCalls /\ calls' = [calls EXCEPT ![u] = @ + 1]
        /\ UNCHANGED <<closed, total, idle, queue, held, closer, missed>>
    BY DEF Get, poolVars, PCs
  <1>2. TypeOK /\ Queued
    BY DEF PoolInv
  <1>3. /\ pc' \in [Users -> PCs] /\ pc'[u] = "enter"
        /\ \A v \in Users \ {u} : pc'[v] = pc[v]
        /\ Queued'
        /\ MutexFree' <=> MutexFree
        /\ Cardinality(Holders)' = Cardinality(Holders)
        /\ Cardinality(Awake)' = Cardinality(Awake)
    BY <1>1, <1>2, PlainMove, Counted DEF One, HolderPCs, AwakePCs
  <1>4. TypeOK'
    BY <1>1, <1>2, <1>3, PoolAssumption DEF TypeOK
  <1>5. Fresh' /\ Covered' /\ IdleUnwanted' /\ FreeSlotsAwaited'
    BY <1>1, <1>3 DEF PoolInv, Fresh, Covered, IdleUnwanted, NoneWaits, FreeSlotsAwaited
  <1> QED BY <1>3, <1>4, <1>5 DEF PoolInv

LEMMA ReuseKeeps ==
  ASSUME PoolInv, NEW u \in Users, Reuse(u)
  PROVE  PoolInv'
  <1> DEFINE i == IF Lifo THEN Len(idle) ELSE 1
  <1>1. /\ pc[u] \in {"enter", "woken"} /\ Move(u, "use") /\ "use" \in PCs
        /\ MutexFree /\ idle # <<>>
        /\ held' = [held EXCEPT ![u] = idle[i]]
        /\ idle' = IF Lifo THEN SubSeq(idle, 1, Len(idle) - 1) ELSE Tail(idle)
        /\ UNCHANGED <<closed, total, queue, calls, closer, missed>>
    BY DEF Reuse, Locks, PCs
  <1>2. TypeOK /\ Queued /\ Fresh
    BY DEF PoolInv
  <1>3. /\ idle[i] \in 0..MaxRequests /\ idle[i] < MaxRequests
        /\ idle' \in Seq(0..MaxRequests) /\ Len(idle') = Len(idle) - 1
        /\ \A j \in 1..Len(idle') : idle'[j] < MaxRequests
    BY <1>1, <1>2, Remainder
  <1> HIDE DEF i
  <1>4. /\ pc' \in [Users -> PCs] /\ pc'[u] = "use"
        /\ \A v \in Users \ {u} : pc'[v] = pc[v]
        /\ Queued'
        /\ MutexFree' <=> MutexFree
        /\ Cardinality(Holders)' = Cardinality(Holders) + 1
    BY <1>1, <1>2, PlainMove, Counted DEF One, HolderPCs
  <1>5. TypeOK'
    BY <1>1, <1>2, <1>3, <1>4 DEF TypeOK
  <1>6. Fresh'
    BY <1>1, <1>2, <1>3, <1>4 DEF Fresh, TypeOK
  <1>7. Covered'
    <2>1. Len(idle) \in Nat
      BY <1>2 DEF TypeOK
    <2> QED BY <1>1, <1>3, <1>4, <2>1, Counted DEF PoolInv, Covered
  <1>8. NoneWaits'
    BY <1>1, <1>4 DEF PoolInv, IdleUnwanted, NoneWaits
  <1> QED BY <1>4, <1>5, <1>6, <1>7, <1>8 DEF PoolInv, IdleUnwanted, FreeSlotsAwaited

LEMMA ReserveKeeps ==
  ASSUME PoolInv, NEW u \in Users, Reserve(u)
  PROVE  PoolInv'
  <1>1. /\ pc[u] \in {"enter", "woken"} /\ Move(u, "pick") /\ "pick" \in PCs
        /\ ~Full /\ total' = total + 1
        /\ UNCHANGED <<closed, idle, queue, held, calls, closer, missed>>
    BY DEF Reserve, Locks, PCs
  <1>2. TypeOK /\ Queued
    BY DEF PoolInv
  <1>3. /\ pc' \in [Users -> PCs] /\ pc'[u] = "pick"
        /\ \A v \in Users \ {u} : pc'[v] = pc[v]
        /\ Queued'
        /\ MutexFree' <=> MutexFree
        /\ Cardinality(Holders)' = Cardinality(Holders) + 1
        /\ Cardinality(Awake)' >= Cardinality(Awake) - 1
    BY <1>1, <1>2, PlainMove, Counted DEF One, HolderPCs, AwakePCs
  <1>4. TypeOK'
    BY <1>1, <1>2, <1>3 DEF TypeOK
  <1>5. Fresh'
    BY <1>1, <1>3 DEF PoolInv, Fresh
  <1>6. Covered'
    <2>1. Len(idle) \in Nat /\ total \in Nat
      BY <1>2 DEF TypeOK
    <2>2. MaxTotal > 0 => total < MaxTotal
      BY <1>1, <2>1, PoolAssumption DEF Full
    <2> QED BY <1>1, <1>3, <2>1, <2>2, Counted, PoolAssumption DEF PoolInv, Covered
  <1>7. IdleUnwanted' /\ (NoneWaits' <=> NoneWaits)
    BY <1>1, <1>3 DEF PoolInv, IdleUnwanted, NoneWaits
  <1>8. FreeSlotsAwaited'
    <2>1. CASE closed \/ missed \/ NoneWaits
      BY <1>1, <1>7, <2>1 DEF FreeSlotsAwaited
    <2>2. CASE MaxTotal - total <= Cardinality(Awake)
      <3>1. MaxTotal - total' <= Cardinality(Awake)'
        BY <1>1, <1>2, <1>3, <2>2, Counted, CountedNext, PoolAssumption DEF TypeOK
      <3> QED BY <3>1 DEF FreeSlotsAwaited
    <2> QED BY <2>1, <2>2 DEF PoolInv, FreeSlotsAwaited
  <1> QED BY <1>3, <1>4, <1>5, <1>6, <1>7, <1>8 DEF PoolInv

LEMMA SeeFullKeeps ==
  ASSUME PoolInv, NEW u \in Users, SeeFull(u)
  PROVE  PoolInv'
  <1>1. /\ pc[u] \in {"enter", "woken"} /\ Move(u, "full") /\ "full" \in PCs
        /\ idle = <<>> /\ Full
        /\ UNCHANGED <<closed, total, idle, queue, held, calls, closer, missed>>
    BY DEF SeeFull, Locks, PCs
  <1>2. TypeOK /\ Queued
    BY DEF PoolInv
  <1>3. /\ pc' \in [Users -> PCs] /\ pc'[u] = "full"
        /\ \A v \in Users \ {u} : pc'[v] = pc[v]
        /\ Queued'
        /\ Cardinality(Holders)' = Cardinality(Holders)
    BY <1>1, <1>2, PlainMove, Counted DEF One, HolderPCs
  <1>4. TypeOK' /\ Fresh' /\ Covered' /\ IdleUnwanted'
    BY <1>1, <1>2, <1>3 DEF PoolInv, TypeOK, Fresh, Covered, IdleUnwanted
  <1>5. MaxTotal - total' <= Cardinality(Awake)'
    BY <1>1, <1>2, CountedNext, PoolAssumption DEF Full, TypeOK
  <1> QED BY <1>3, <1>4, <1>5 DEF PoolInv, FreeSlotsAwaited

LEMMA WaitKeeps ==
  ASSUME PoolInv, NEW u \in Users, Wait(u)
  PROVE  PoolInv'
  <1>1. /\ pc[u] = "full" /\ Move(u, "parked") /\ "parked" \in PCs
        /\ queue' = Append(queue, u)
        /\ UNCHANGED <<closed, total, idle, held, calls, closer, missed>>
    BY DEF Wait, PCs
  <1>2. TypeOK /\ Queued
    BY DEF PoolInv
  <1>3. /\ pc' \in [Users -> PCs] /\ pc'[u] = "parked"
        /\ \A v \in Users \ {u} : pc'[v] = pc[v]
        /\ Cardinality(Holders)' = Cardinality(Holders)
        /\ Cardinality(Awake)' = Cardinality(Awake)
    BY <1>1, <1>2, PlainMove, Counted DEF One, HolderPCs, AwakePCs
  <1>4. /\ queue \in Seq(Users) /\ queue' \in Seq(Users) /\ Len(queue) \in Nat
        /\ Len(queue') = Len(queue) + 1 /\ queue'[Len(queue) + 1] = u
        /\ \A i \in 1..Len(queue) : queue'[i] = queue[i] /\ queue[i] \in Users
    BY <1>1, <1>2 DEF TypeOK
  <1>5. TypeOK'
    BY <1>1, <1>2, <1>3, <1>4 DEF TypeOK
  <1>6. Queued'
    <2>1. \A i \in 1..Len(queue) : queue[i] # u /\ pc'[queue[i]] = "parked"
      BY <1>1, <1>2, <1>3, <1>4 DEF Queued
    <2>2. \A i \in 1..Len(queue') : i \in 1..Len(queue) \/ i = Len(queue) + 1
      BY <1>4
    <2>3. \A i \in 1..Len(queue') : pc'[queue'[i]] = "parked"
      BY <1>3, <1>4, <2>1, <2>2
    <2>4. \A i, j \in 1..Len(queue') : queue'[i] = queue'[j] => i = j
      BY <1>2, <1>4, <2>1, <2>2 DEF Queued
    <2> QED BY <2>3, <2>4 DEF Queued
  <1>7. ~NoneWaits
    BY <1>1 DEF NoneWaits, MutexFree
  <1>8. Fresh' /\ Covered'
    BY <1>1, <1>3 DEF PoolInv, Fresh, Covered
  <1>9. IdleUnwanted' /\ FreeSlotsAwaited'
    BY <1>1, <1>3, <1>7 DEF PoolInv, IdleUnwanted, FreeSlotsAwaited
  <1> QED BY <1>5, <1>6, <1>8, <1>9 DEF PoolInv

LEMMA WakeClosedKeeps ==
  ASSUME PoolInv, NEW u \in Users, WakeClosed(u)
  PROVE  PoolInv'
  <1>1. /\ pc[u] = "woken" /\ Move(u, "out") /\ "out" \in PCs /\ closed
        /\ UNCHANGED <<closed, total, idle, queue, held, calls, closer, missed>>
    BY DEF WakeClosed, Locks, PCs, poolVars
  <1>2. TypeOK /\ Queued
    BY DEF PoolInv
  <1>3. /\ pc' \in [Users -> PCs] /\ pc'[u] = "out"
        /\ \A v \in Users \ {u} : pc'[v] = pc[v]
        /\ Queued'
        /\ MutexFree' <=> MutexFree
        /\ Cardinality(Holders)' = Cardinality(Holders)
    BY <1>1, <1>2, PlainMove, Counted DEF One, HolderPCs
  <1>4. TypeOK' /\ Fresh' /\ Covered' /\ IdleUnwanted' /\ FreeSlotsAwaited'
    BY <1>1, <1>2, <1>3
       DEF PoolInv, TypeOK, Fresh, Covered, IdleUnwanted, NoneWaits, FreeSlotsAwaited
  <1> QED BY <1>3, <1>4 DEF PoolInv

LEMMA PickServerKeeps ==
  ASSUME PoolInv, NEW u \in Users, PickServer(u)
  PROVE  PoolInv'
  <1>1. /\ pc[u] = "pick" /\ Move(u, "use") /\ "use" \in PCs
        /\ held' = [held EXCEPT ![u] = 0]
        /\ UNCHANGED <<closed, total, idle, queue, calls, closer, missed>>
    BY DEF PickServer, PCs, poolVars
  <1>2. TypeOK /\ Queued
    BY DEF PoolInv
  <1>3. /\ pc' \in [Users -> PCs] /\ pc'[u] = "use"
        /\ \A v \in Users \ {u} : pc'[v] = pc[v]
        /\ Queued'
        /\ MutexFree' <=> MutexFree
        /\ Cardinality(Holders)' = Cardinality(Holders)
        /\ Cardinality(Awake)' = Cardinality(Awake)
    BY <1>1, <1>2, PlainMove, Counted DEF One, HolderPCs, AwakePCs
  <1>4. TypeOK' /\ Fresh'
    BY <1>1, <1>2, <1>3, PoolAssumption DEF PoolInv, TypeOK, Fresh
  <1>5. Covered' /\ IdleUnwanted' /\ FreeSlotsAwaited'
    BY <1>1, <1>3 DEF PoolInv, Covered, IdleUnwanted, NoneWaits, FreeSlotsAwaited
  <1> QED BY <1>3, <1>4, <1>5 DEF PoolInv

LEMMA PickFailsKeeps ==
  ASSUME PoolInv, NEW u \in Users, PickFails(u)
  PROVE  PoolInv'
  <1>1. /\ pc[u] = "pick" /\ Move(u, "signal") /\ "signal" \in PCs
        /\ total' = total - 1
        /\ UNCHANGED <<closed, idle, queue, held, calls, closer, missed>>
    BY DEF PickFails, PCs
  <1>2. TypeOK /\ Queued
    BY DEF PoolInv
  <1>3. /\ pc' \in [Users -> PCs] /\ pc'[u] = "signal"
        /\ \A v \in Users \ {u} : pc'[v] = pc[v]
        /\ Queued'
        /\ MutexFree' <=> MutexFree
        /\ Cardinality(Holders)' = Cardinality(Holders) - 1
        /\ Cardinality(Awake)' = Cardinality(Awake) + 1
    BY <1>1, <1>2, PlainMove, Counted DEF One, HolderPCs, AwakePCs
  <1>4. Len(idle) \in Nat /\ total \in Nat /\ total >= 1
    BY <1>2, <1>3, Counted, CountedNext DEF PoolInv, Covered, TypeOK
  <1>5. TypeOK' /\ Fresh'
    BY <1>1, <1>2, <1>3, <1>4 DEF PoolInv, TypeOK, Fresh
  <1>6. Covered'
    BY <1>1, <1>3, <1>4, Counted, PoolAssumption DEF PoolInv, Covered
  <1>7. IdleUnwanted' /\ (NoneWaits' <=> NoneWaits)
    BY <1>1, <1>3 DEF PoolInv, IdleUnwanted, NoneWaits
  <1>8. FreeSlotsAwaited'
    BY <1>1, <1>3, <1>4, <1>7, Counted, PoolAssumption DEF PoolInv, FreeSlotsAwaited
  <1> QED BY <1>3, <1>5, <1>6, <1>7, <1>8 DEF PoolInv

LEMMA PickFailSignalsKeeps ==
  ASSUME PoolInv, NEW u \in Users, PickFailSignals(u)
  PROVE  PoolInv'
  <1>1. /\ pc[u] = "signal" /\ SignalAndMove(u, "out")
        /\ missed' = (missed \/ ~MutexFree)
        /\ UNCHANGED <<closed, total, idle, held, calls, closer>>
    BY DEF PickFailSignals
  <1>2. TypeOK /\ Queued
    BY DEF PoolInv
  <1>3. /\ pc' \in [Users -> PCs] /\ pc'[u] = "out"
        /\ \A v \in Users \ {u} : pc'[v] = pc[v] \/ pc'[v] = "woken"
        /\ queue' \in Seq(Users)
        /\ queue = <<>> => queue' = <<>>
        /\ Queued'
        /\ MutexFree' <=> MutexFree
        /\ Cardinality(Holders)' = Cardinality(Holders)
        /\ queue # <<>> => Cardinality(Awake)' = Cardinality(Awake)
    BY <1>1, <1>2, SignalMove, Counted DEF One, HolderPCs, AwakePCs
  <1>4. missed' \in BOOLEAN
    BY <1>1, Zenon
  <1>5. TypeOK'
    BY <1>1, <1>2, <1>3, <1>4 DEF TypeOK
  <1>6. Fresh' /\ Covered' /\ IdleUnwanted'
    BY <1>1, <1>3 DEF PoolInv, Fresh, Covered, IdleUnwanted, NoneWaits
  <1>7. FreeSlotsAwaited'
    <2>1. missed \/ ~MutexFree => missed'
      BY <1>1
    <2>2. CASE MutexFree /\ queue = <<>>
      BY <1>3, <2>2 DEF NoneWaits, FreeSlotsAwaited
    <2>3. CASE ~MutexFree \/ queue # <<>>
      BY <1>1, <1>3, <2>1, <2>3 DEF PoolInv, NoneWaits, FreeSlotsAwaited
    <2> QED BY <2>2, <2>3
  <1> QED BY <1>3, <1>5, <1>6, <1>7 DEF PoolInv

LEMMA SendAndPutKeeps ==
  ASSUME PoolInv, NEW u \in Users, SendAndPut(u)
  PROVE  PoolInv'
  <1>1. /\ pc[u] = "use" /\ Move(u, IF closed THEN "out" ELSE "put")
        /\ held' = [held EXCEPT ![u] = IF closed THEN 0 ELSE held[u] + 1]
        /\ UNCHANGED <<closed, total, idle, queue, calls, closer, missed>>
    BY DEF SendAndPut, poolVars
  <1>2. TypeOK /\ Queued /\ {"out", "put"} \subseteq PCs
    BY DEF PoolInv, PCs
  <1>3. /\ pc' \in [Users -> PCs] /\ pc'[u] # "use"
        /\ \A v \in Users \ {u} : pc'[v] = pc[v]
        /\ Queued'
        /\ MutexFree' <=> MutexFree
        /\ ~closed => Cardinality(Holders)' = Cardinality(Holders)
        /\ Cardinality(Holders)' <= Cardinality(Holders)
        /\ Cardinality(Awake)' = Cardinality(Awake)
    <2>1. CASE closed
      <3>1. Move(u, "out")
        BY <1>1, <2>1
      <3> QED BY <1>1, <1>2, <2>1, <3>1, PlainMove, Counted DEF One, HolderPCs, AwakePCs
    <2>2. CASE ~closed
      <3>1. Move(u, "put")
        BY <1>1, <2>2
      <3> QED BY <1>1, <1>2, <2>2, <3>1, PlainMove, Counted DEF One, HolderPCs, AwakePCs
    <2> QED BY <2>1, <2>2
  <1>4. held[u] \in 0..MaxRequests /\ held[u] < MaxRequests
    BY <1>1, <1>2 DEF PoolInv, Fresh, TypeOK
  <1>5. TypeOK'
    BY <1>1, <1>2, <1>3, <1>4, PoolAssumption DEF TypeOK
  <1>6. Fresh'
    BY <1>1, <1>2, <1>3 DEF PoolInv, Fresh, TypeOK
  <1>7. Covered'
    <2>1. Len(idle) \in Nat /\ total \in Nat
      BY <1>2 DEF TypeOK
    <2> QED BY <1>1, <1>3, <2>1, Counted, CountedNext DEF PoolInv, Covered
  <1>8. IdleUnwanted' /\ FreeSlotsAwaited'
    BY <1>1, <1>3 DEF PoolInv, IdleUnwanted, NoneWaits, FreeSlotsAwaited
  <1> QED BY <1>3, <1>5, <1>6, <1>7, <1>8 DEF PoolInv

LEMMA PutClosedKeeps ==
  ASSUME PoolInv, NEW u \in Users, PutClosed(u)
  PROVE  PoolInv'
  <1>1. /\ pc[u] = "put" /\ Move(u, "out") /\ "out" \in PCs /\ closed
        /\ held' = [held EXCEPT ![u] = 0]
        /\ UNCHANGED <<closed, total, idle, queue, calls, closer, missed>>
    BY DEF PutClosed, Locks, PCs, poolVars
  <1>2. TypeOK /\ Queued
    BY DEF PoolInv
  <1>3. /\ pc' \in [Users -> PCs] /\ pc'[u] = "out"
        /\ \A v \in Users \ {u} : pc'[v] = pc[v]
        /\ Queued'
        /\ MutexFree' <=> MutexFree
        /\ Cardinality(Holders)' = Cardinality(Holders) - 1
    BY <1>1, <1>2, PlainMove, Counted DEF One, HolderPCs
  <1>4. TypeOK' /\ Fresh'
    BY <1>1, <1>2, <1>3, PoolAssumption DEF PoolInv, TypeOK, Fresh
  <1>5. Covered'
    <2>1. Len(idle) \in Nat /\ total \in Nat
      BY <1>2 DEF TypeOK
    <2> QED BY <1>1, <1>3, <2>1, Counted DEF PoolInv, Covered
  <1>6. IdleUnwanted' /\ FreeSlotsAwaited'
    BY <1>1, <1>3 DEF PoolInv, IdleUnwanted, NoneWaits, FreeSlotsAwaited
  <1> QED BY <1>3, <1>4, <1>5, <1>6 DEF PoolInv

LEMMA PutWornKeeps ==
  ASSUME PoolInv, NEW u \in Users, PutWorn(u)
  PROVE  PoolInv'
  <1>1. /\ pc[u] = "put" /\ MutexFree /\ SignalAndMove(u, "out")
        /\ total' = total - 1
        /\ held' = [held EXCEPT ![u] = 0]
        /\ UNCHANGED <<closed, idle, calls, closer, missed>>
    BY DEF PutWorn, Locks
  <1>2. TypeOK /\ Queued
    BY DEF PoolInv
  <1>3. /\ pc' \in [Users -> PCs] /\ pc'[u] = "out"
        /\ \A v \in Users \ {u} : pc'[v] = pc[v] \/ pc'[v] = "woken"
        /\ queue' \in Seq(Users)
        /\ queue = <<>> => queue' = <<>>
        /\ Queued'
        /\ MutexFree'
        /\ Cardinality(Holders)' = Cardinality(Holders) - 1
        /\ queue # <<>> => Cardinality(Awake)' = Cardinality(Awake) + 1
    BY <1>1, <1>2, SignalMove, Counted DEF One, HolderPCs, AwakePCs
  <1>4. Len(idle) \in Nat /\ total \in Nat /\ total >= 1
    BY <1>2, <1>3, Counted, CountedNext DEF PoolInv, Covered, TypeOK
  <1>5. TypeOK' /\ Fresh'
    BY <1>1, <1>2, <1>3, <1>4, PoolAssumption DEF PoolInv, TypeOK, Fresh
  <1>6. Covered'
    BY <1>1, <1>3, <1>4, Counted, PoolAssumption DEF PoolInv, Covered
  <1>7. IdleUnwanted'
    BY <1>1, <1>3 DEF PoolInv, IdleUnwanted, NoneWaits
  <1>8. FreeSlotsAwaited'
    <2>1. CASE queue = <<>>
      BY <1>3, <2>1 DEF NoneWaits, FreeSlotsAwaited
    <2>2. CASE queue # <<>>
      BY <1>1, <1>3, <1>4, <2>2, Counted, PoolAssumption DEF PoolInv, NoneWaits, FreeSlotsAwaited
    <2> QED BY <2>1, <2>2
  <1> QED BY <1>3, <1>5, <1>6, <1>7, <1>8 DEF PoolInv

LEMMA PutIdleKeeps ==
  ASSUME PoolInv, NEW u \in Users, PutIdle(u)
  PROVE  PoolInv'
  <1>1. /\ pc[u] = "put" /\ MutexFree /\ ~(held[u] >= MaxRequests)
        /\ MoveAndWake(u, "out", Parked)
        /\ idle' = Append(idle, held[u])
        /\ held' = [held EXCEPT ![u] = 0]
        /\ queue' = <<>>
        /\ UNCHANGED <<closed, total, calls, closer, missed>>
    BY DEF PutIdle, Locks, ShouldClose
  <1>2. TypeOK
    BY DEF PoolInv
  <1>3. pc' = [v \in Users |-> IF v = u THEN "out" ELSE IF v \in Parked THEN "woken" ELSE pc[v]]
    BY <1>1 DEF MoveAndWake
  <1>4. /\ pc' \in [Users -> PCs] /\ pc'[u] = "out"
        /\ \A v \in Users \ {u} : \/ pc'[v] = pc[v]
                                  \/ pc'[v] = "woken" /\ pc[v] = "parked"
    BY <1>2, <1>3 DEF TypeOK, PCs, Parked
  <1>5. Cardinality(Holders)' = Cardinality(Holders) - 1
    <2>1. Cardinality(In(pc', HolderPCs)) = Cardinality(In(pc, HolderPCs))
            + One(pc'[u] \in HolderPCs) - One(pc[u] \in HolderPCs)
      BY <1>4, CountMove DEF HolderPCs
    <2> QED BY <1>1, <1>4, <2>1, Counted, CountedNext DEF One, HolderPCs
  <1>6. NoneWaits' /\ Queued'
    <2>1. MutexFree'
      BY <1>1, <1>4 DEF MutexFree
    <2> QED BY <1>1, <2>1 DEF NoneWaits, Queued
  <1>7. /\ idle' \in Seq(0..MaxRequests) /\ Len(idle) \in Nat /\ Len(idle') = Len(idle) + 1
        /\ idle'[Len(idle) + 1] = held[u] /\ held[u] < MaxRequests
        /\ \A i \in 1..Len(idle) : idle'[i] = idle[i]
    <2>1. held[u] \in 0..MaxRequests /\ idle \in Seq(0..MaxRequests)
      BY <1>2 DEF TypeOK
    <2> QED BY <1>1, <2>1, PoolAssumption
  <1>8. TypeOK'
    <2>1. <<>> \in Seq(Users)
      OBVIOUS
    <2> QED BY <1>1, <1>2, <1>4, <1>7, <2>1, PoolAssumption DEF TypeOK
  <1>9. Fresh'
    <2>1. \A i \in 1..Len(idle') : idle'[i] < MaxRequests
      <3>1. \A i \in 1..Len(idle') : i \in 1..Len(idle) \/ i = Len(idle) + 1
        BY <1>7
      <3> QED BY <1>7, <3>1 DEF PoolInv, Fresh
    <2>2. \A v \in Users : pc'[v] = "use" => held'[v] < MaxRequests
      BY <1>1, <1>2, <1>4 DEF PoolInv, Fresh, TypeOK
    <2> QED BY <2>1, <2>2 DEF Fresh
  <1>10. Covered'
    <2>1. total \in Nat
      BY <1>2 DEF TypeOK
    <2> QED BY <1>1, <1>5, <1>7, <2>1, Counted DEF PoolInv, Covered
  <1> QED BY <1>6, <1>8, <1>9, <1>10 DEF PoolInv, IdleUnwanted, FreeSlotsAwaited

LEMMA CloseKeeps ==
  ASSUME PoolInv, Close
  PROVE  PoolInv'
  <1>1. /\ closed' = TRUE /\ idle' = <<>> /\ closer' = "broadcast"
        /\ UNCHANGED <<total, queue, pc, held, calls, missed>>
    BY DEF Close
  <1>2. /\ Cardinality(Holders)' = Cardinality(Holders)
        /\ idle' \in Seq(0..MaxRequests) /\ Len(idle') = 0
    BY <1>1 DEF Holders
  <1>3. TypeOK' /\ Fresh' /\ Queued'
    BY <1>1, <1>2 DEF PoolInv, TypeOK, Fresh, Queued
  <1>4. Covered'
    <2>1. Len(idle) \in Nat /\ total \in Nat
      BY DEF PoolInv, TypeOK
    <2> QED BY <1>1, <1>2, <2>1, Counted DEF PoolInv, Covered
  <1> QED BY <1>1, <1>3, <1>4 DEF PoolInv, IdleUnwanted, FreeSlotsAwaited

LEMMA CloseBroadcastKeeps ==
  ASSUME PoolInv, CloseBroadcast
  PROVE  PoolInv'
  <1>1. /\ queue' = <<>> /\ closer' = "done"
        /\ pc' = [u \in Users |-> IF u \in Parked THEN "woken" ELSE pc[u]]
        /\ UNCHANGED <<closed, total, idle, held, calls, missed>>
    BY DEF CloseBroadcast
  <1>2. TypeOK
    BY DEF PoolInv
  <1>3. /\ pc' \in [Users -> PCs]
        /\ \A v \in Users : \/ pc'[v] = pc[v]
                            \/ pc'[v] = "woken" /\ pc[v] = "parked"
    BY <1>1, <1>2 DEF TypeOK, PCs, Parked
  <1>4. Cardinality(Holders)' = Cardinality(Holders)
    <2>1. Holders' = Holders
      BY <1>3 DEF Holders
    <2> QED BY <2>1
  <1>5. Cardinality(Awake)' >= Cardinality(Awake)
    <2>1. In(pc, AwakePCs) \in SUBSET In(pc', AwakePCs)
      BY <1>3 DEF In, AwakePCs
    <2>2. Cardinality(In(pc, AwakePCs)) <= Cardinality(In(pc', AwakePCs))
      BY <2>1, CountType, FS_Subset
    <2> QED BY <2>2, Counted, CountedNext
  <1>6. TypeOK'
    <2>1. <<>> \in Seq(Users)
      OBVIOUS
    <2> QED BY <1>1, <1>2, <1>3, <2>1 DEF TypeOK
  <1>7. MutexFree' <=> MutexFree
    BY <1>3 DEF MutexFree
  <1>8. Fresh' /\ Covered' /\ Queued' /\ IdleUnwanted'
    BY <1>1, <1>3, <1>4, <1>7 DEF PoolInv, Fresh, Covered, Queued, IdleUnwanted, NoneWaits
  <1>9. FreeSlotsAwaited'
    <2>1. CASE closed \/ missed \/ NoneWaits
      BY <1>1, <1>7, <2>1 DEF FreeSlotsAwaited, NoneWaits
    <2>2. CASE MaxTotal - total <= Cardinality(Awake)
      <3>1. MaxTotal - total' <= Cardinality(Awake)'
        BY <1>1, <1>2, <1>5, <2>2, Counted, CountedNext, PoolAssumption DEF TypeOK
      <3> QED BY <3>1 DEF FreeSlotsAwaited
    <2> QED BY <2>1, <2>2 DEF PoolInv, FreeSlotsAwaited
  <1> QED BY <1>6, <1>8, <1>9 DEF PoolInv

-----------------------------------------------------------------------------

LEMMA InitPoolInv == Init => PoolInv
  <1> SUFFICES ASSUME Init PROVE PoolInv
    OBVIOUS
  <1>1. /\ closed = FALSE /\ missed = FALSE /\ total = 0 /\ idle = <<>> /\ queue = <<>>
        /\ pc = [u \in Users |-> "out"] /\ held = [u \in Users |-> 0]
        /\ calls = [u \in Users |-> 0] /\ closer = "open"
    BY DEF Init
  <1>2. TypeOK
    <2>1. <<>> \in Seq(0..MaxRequests) /\ <<>> \in Seq(Users)
      OBVIOUS
    <2>2. /\ pc \in [Users -> PCs] /\ held \in [Users -> 0..MaxRequests]
          /\ calls \in [Users -> 0..MaxCalls]
      BY <1>1, PoolAssumption DEF PCs
    <2> QED BY <1>1, <2>1, <2>2 DEF TypeOK
  <1>3. Len(idle) = 0 /\ Len(queue) = 0
    BY <1>1
  <1>4. Cardinality(Holders) = 0
    <2>1. Holders = {}
      BY <1>1 DEF Holders
    <2> QED BY <2>1, FS_EmptySet
  <1>5. Fresh /\ Covered /\ Queued
    BY <1>1, <1>3, <1>4, PoolAssumption DEF Fresh, Covered, Queued
  <1>6. NoneWaits
    BY <1>1 DEF NoneWaits, MutexFree
  <1> QED BY <1>2, <1>5, <1>6 DEF PoolInv, IdleUnwanted, FreeSlotsAwaited

LEMMA NextPoolInv == PoolInv /\ [Next]_vars => PoolInv'
  <1> SUFFICES ASSUME PoolInv, [Next]_vars PROVE PoolInv'
    OBVIOUS
  <1>1. ASSUME NEW u \in Users, LockedStep(u) PROVE PoolInv'
    BY <1>1, ReuseKeeps, ReserveKeeps, SeeFullKeeps, WakeClosedKeeps, PutClosedKeeps,
       PutWornKeeps, PutIdleKeeps DEF LockedStep
  <1>2. ASSUME NEW u \in Users, FreeStep(u) PROVE PoolInv'
    BY <1>2, WaitKeeps, PickServerKeeps, PickFailsKeeps, PickFailSignalsKeeps,
       SendAndPutKeeps DEF FreeStep
  <1>3. CASE UNCHANGED vars
    BY <1>3 DEF vars, PoolInv, TypeOK, Fresh, Covered, Holders, Queued, IdleUnwanted,
                NoneWaits, MutexFree, FreeSlotsAwaited, Awake, In
  <1> QED BY <1>1, <1>2, <1>3, GetKeeps, CloseKeeps, CloseBroadcastKeeps DEF Next

LEMMA PoolInvariant == Spec => []PoolInv
  BY InitPoolInv, NextPoolInv, PTL DEF Spec

(***************************************************************************)
(* The counter of the pool stays a natural number, no connection takes     *)
(* more than MaxRequests requests, and the wait list holds users.          *)
(***************************************************************************)
THEOREM PoolTypes == Spec => []TypeOK
  <1>1. PoolInv => TypeOK
    BY DEF PoolInv
  <1> QED BY <1>1, PoolInvariant, PTL

(***************************************************************************)
(* TotalConnections of an open pool is exact and the connections never     *)
(* exceed max_connections, however waiters, newcomers, failing picks and   *)
(* Close race for the slots (Get, Put and Close of Pool).                  *)
(***************************************************************************)
THEOREM PoolSlotsExact == Spec => []SlotsExact
  <1>1. PoolInv => SlotsExact
    <2> SUFFICES ASSUME PoolInv PROVE SlotsExact
      OBVIOUS
    <2>1. Len(idle) \in Nat /\ total \in Nat /\ Cardinality(Holders) \in Nat
      BY Counted DEF PoolInv, TypeOK
    <2> QED BY <2>1, PoolAssumption DEF PoolInv, Covered, SlotsExact
  <1> QED BY <1>1, PoolInvariant, PTL

(***************************************************************************)
(* Only a signal that the failure path of Get sends between another Get's  *)
(* look at the limit and its Wait can be lost; otherwise a waiter next to  *)
(* a free slot always has somebody awake who will take or pass it on.      *)
(***************************************************************************)
THEOREM PoolNoStrandedWaiter == Spec => []NoStrandedWaiter
  <1>1. PoolInv => NoStrandedWaiter
    <2> SUFFICES ASSUME PoolInv, queue # <<>>, ~closed, ~missed,
                        total < MaxTotal \/ idle # <<>>
                 PROVE  \E u \in Users : pc[u] \in {"woken", "signal"}
      BY DEF NoStrandedWaiter
    <2>1. ~NoneWaits
      BY DEF NoneWaits
    <2>2. total < MaxTotal /\ MaxTotal - total <= Cardinality(Awake)
      BY <2>1 DEF PoolInv, IdleUnwanted, FreeSlotsAwaited
    <2>3. Cardinality(Awake) # 0
      BY <2>2, Counted, PoolAssumption DEF PoolInv, TypeOK
    <2>4. Awake # {}
      BY <2>3, FS_EmptySet
    <2> QED BY <2>4 DEF Awake, In, AwakePCs
  <1> QED BY <1>1, PoolInvariant, PTL

-----------------------------------------------------------------------------
(* Induction and recursion over the natural numbers. *)

\* A set that holds zero and the successor of each of its numbers holds all.
LEMMA Induction ==
  ASSUME NEW T, 0 \in T, \A n \in Nat : n \in T => n + 1 \in T
  PROVE  \A n \in Nat : n \in T
  <1>1. PICK R : IsWellFoundedOn(R, Nat) /\ \A m, n \in Nat : m < n => <<m, n>> \in R
    <2>1. IsWellFoundedOn({p \in Nat \X Nat : p[1] < p[2]}, Nat)
      BY NatLessThanWellFounded DEF OpToRel
    <2>2. \A m, n \in Nat : m < n => <<m, n>> \in {p \in Nat \X Nat : p[1] < p[2]}
      OBVIOUS
    <2> QED BY <2>1, <2>2
  <1>2. SUFFICES ASSUME Nat \ T # {} PROVE FALSE
    OBVIOUS
  <1>3. PICK x \in Nat \ T : \A y \in Nat \ T : ~(<<y, x>> \in R)
    <2>1. Nat \ T \subseteq Nat
      OBVIOUS
    <2> QED BY <1>1, <1>2, <2>1, WFMin
  <1>4. x # 0 /\ x - 1 \in Nat /\ x - 1 < x /\ (x - 1) + 1 = x
    OBVIOUS
  <1>5. x - 1 \notin T
    BY <1>4
  <1> QED BY <1>1, <1>3, <1>4, <1>5

\* f is computed from base by the steps g.
Computes(f, base, g, n) == f = [i \in 0..n |-> IF i = 0 THEN base ELSE g[i][f[i - 1]]]

\* Steps that stay within V can be taken one after the other.
LEMMA Computable ==
  ASSUME NEW V, NEW base \in V, NEW n \in Nat, NEW g \in [1..n -> [V -> V]]
  PROVE  \E f \in [0..n -> V] : Computes(f, base, g, n)
  <1> DEFINE T == {m \in Nat : m <= n => \E f \in [0..m -> V] : Computes(f, base, g, m)}
  <1>1. 0 \in T
    <2> DEFINE f == [i \in 0..0 |-> base]
    <2>1. f \in [0..0 -> V] /\ Computes(f, base, g, 0)
      BY DEF Computes
    <2> QED BY <2>1
  <1>2. ASSUME NEW m \in Nat, m \in T PROVE m + 1 \in T
    <2>1. SUFFICES ASSUME m + 1 <= n
                   PROVE  \E f \in [0..m + 1 -> V] : Computes(f, base, g, m + 1)
      OBVIOUS
    <2>2. PICK f \in [0..m -> V] : Computes(f, base, g, m)
      BY <1>2, <2>1
    <2> DEFINE new == [i \in 0..m + 1 |-> IF i = m + 1 THEN g[m + 1][f[m]] ELSE f[i]]
    <2>3. new \in [0..m + 1 -> V]
      BY <2>1
    <2>4. ASSUME NEW i \in 0..m + 1
          PROVE  new[i] = IF i = 0 THEN base ELSE g[i][new[i - 1]]
      <3>1. CASE i = m + 1
        BY <3>1
      <3>2. CASE i = 0
        BY <2>2, <3>2 DEF Computes
      <3>3. CASE i \in 1..m
        <4>1. new[i] = f[i] /\ new[i - 1] = f[i - 1]
          BY <3>3
        <4>2. f[i] = g[i][f[i - 1]]
          BY <2>2, <3>3 DEF Computes
        <4> QED BY <3>3, <4>1, <4>2
      <3> QED BY <3>1, <3>2, <3>3
    <2>5. Computes(new, base, g, m + 1)
      <3> HIDE DEF new
      <3> QED BY <2>3, <2>4 DEF Computes
    <2> QED BY <2>3, <2>5
  <1>3. n \in T
    <2> HIDE DEF T
    <2> QED BY <1>1, <1>2, Induction
  <1> QED BY <1>3

-----------------------------------------------------------------------------
(* The list of healthy servers. *)

\* getHealthyServers is built up from the front of the list.
LEMMA Collected ==
  ASSUME servers \in Seq(Servers), healthy \in [Servers -> BOOLEAN]
  PROVE  \E f \in [0..Len(servers) -> Seq(Servers)] :
           /\ getHealthyServers = f[Len(servers)]
           /\ f[0] = <<>>
           /\ \A i \in 1..Len(servers) :
                f[i] = IF healthy[servers[i]] THEN Append(f[i - 1], servers[i]) ELSE f[i - 1]
  <1> DEFINE n == Len(servers)
             g == [i \in 1..n |-> [v \in Seq(Servers) |->
                    IF healthy[servers[i]] THEN Append(v, servers[i]) ELSE v]]
             Is(f) == f = [i \in 0..n |->
                        IF i = 0 THEN <<>>
                        ELSE IF healthy[servers[i]] THEN Append(f[i - 1], servers[i]) ELSE f[i - 1]]
  <1>1. n \in Nat /\ \A i \in 1..n : servers[i] \in Servers
    OBVIOUS
  <1>2. g \in [1..n -> [Seq(Servers) -> Seq(Servers)]]
    BY <1>1
  <1>3. <<>> \in Seq(Servers)
    OBVIOUS
  <1>4. PICK f \in [0..n -> Seq(Servers)] : Computes(f, <<>>, g, n)
    <2> HIDE DEF g, n
    <2> QED BY <1>1, <1>2, <1>3, Computable
  <1>5. Is(f)
    <2>1. \A i \in 1..n : f[i - 1] \in Seq(Servers)
      BY <1>1, <1>4
    <2>2. f = [i \in 0..n |-> IF i = 0 THEN <<>> ELSE g[i][f[i - 1]]]
      BY <1>4 DEF Computes
    <2>3. \A i \in 0..n : (IF i = 0 THEN <<>> ELSE g[i][f[i - 1]])
                          = IF i = 0 THEN <<>>
                            ELSE IF healthy[servers[i]] THEN Append(f[i - 1], servers[i]) ELSE f[i - 1]
      BY <1>1, <2>1
    <2> HIDE DEF g, n
    <2> QED BY <2>2, <2>3
  <1> DEFINE r == CHOOSE h : Is(h)
  <1>6. Is(r)
    <2> HIDE DEF Is
    <2> QED BY <1>5
  <1>7. getHealthyServers = r[n]
    BY DEF getHealthyServers
  <1> HIDE DEF r
  <1>8. /\ DOMAIN r = 0..n
        /\ r[0] = <<>>
        /\ \A i \in 1..n :
             r[i] = IF healthy[servers[i]] THEN Append(r[i - 1], servers[i]) ELSE r[i - 1]
    <2> DEFINE body(i) == IF i = 0 THEN <<>>
                          ELSE IF healthy[servers[i]] THEN Append(r[i - 1], servers[i]) ELSE r[i - 1]
    <2>1. r = [i \in 0..n |-> body(i)]
      BY <1>6
    <2>2. DOMAIN r = 0..n /\ \A i \in 0..n : r[i] = body(i)
      <3> HIDE DEF body
      <3> QED BY <2>1
    <2>3. 0 \in 0..n /\ \A i \in 1..n : i \in 0..n /\ i # 0
      BY <1>1
    <2> QED BY <2>2, <2>3
  <1>9. r \in [0..n -> Seq(Servers)]
    <2> DEFINE T == {m \in Nat : m <= n => r[m] \in Seq(Servers)}
    <2>1. 0 \in T
      <3>1. r[0] \in Seq(Servers)
        BY <1>3, <1>8
      <3> QED BY <3>1
    <2>2. ASSUME NEW m \in Nat, m \in T PROVE m + 1 \in T
      <3>1. SUFFICES ASSUME m + 1 <= n PROVE r[m + 1] \in Seq(Servers)
        OBVIOUS
      <3>2. r[m] \in Seq(Servers) /\ m + 1 \in 1..n
        BY <1>1, <2>2, <3>1
      <3>3. r[m + 1] = IF healthy[servers[m + 1]] THEN Append(r[m], servers[m + 1]) ELSE r[m]
        BY <1>8, <3>2
      <3> QED BY <1>1, <3>2, <3>3
    <2>3. \A m \in Nat : m \in T
      <3> HIDE DEF T
      <3> QED BY <2>1, <2>2, Induction
    <2>4. \A m \in 0..n : r[m] \in Seq(Servers)
      BY <1>1, <2>3
    <2>5. r = [m \in 0..n |-> r[m]]
      BY <1>6
    <2> QED BY <2>4, <2>5
  <1> QED BY <1>7, <1>8, <1>9

\* It is the registered servers that are healthy, each of them once.
LEMMA HealthyList ==
  ASSUME servers \in Seq(Servers), IsInjective(servers), healthy \in [Servers -> BOOLEAN]
  PROVE  /\ getHealthyServers \in Seq(Servers)
         /\ IsInjective(getHealthyServers)
         /\ ToSet(getHealthyServers) = {s \in ToSet(servers) : healthy[s]}
  <1>1. PICK f \in [0..Len(servers) -> Seq(Servers)] :
           /\ getHealthyServers = f[Len(servers)]
           /\ f[0] = <<>>
           /\ \A i \in 1..Len(servers) :
                f[i] = IF healthy[servers[i]] THEN Append(f[i - 1], servers[i]) ELSE f[i - 1]
    BY Collected
  <1> DEFINE Good(i) ==
        /\ \A j, k \in 1..Len(f[i]) : f[i][j] = f[i][k] => j = k
        /\ \A j \in 1..Len(f[i]) : \E k \in 1..i : f[i][j] = servers[k] /\ healthy[servers[k]]
        /\ \A k \in 1..i : healthy[servers[k]] => \E j \in 1..Len(f[i]) : f[i][j] = servers[k]
             T == {i \in Nat : i <= Len(servers) => Good(i)}
  <1>2. 0 \in T
    BY <1>1
  <1>3. ASSUME NEW i \in Nat, i \in T PROVE i + 1 \in T
    <2>1. SUFFICES ASSUME i + 1 <= Len(servers) PROVE Good(i + 1)
      OBVIOUS
    <2>2. Good(i)
      BY <1>3, <2>1
    <2>3. /\ i + 1 \in 1..Len(servers) /\ i \in 0..Len(servers)
          /\ f[i] \in Seq(Servers) /\ servers[i + 1] \in Servers
          /\ Len(f[i]) \in Nat
          /\ f[i + 1] = IF healthy[servers[i + 1]] THEN Append(f[i], servers[i + 1]) ELSE f[i]
      BY <1>1, <2>1
    <2>4. CASE ~healthy[servers[i + 1]]
      <3>1. f[i + 1] = f[i]
        BY <2>3, <2>4
      <3>2. \A k \in 1..i + 1 : k \in 1..i \/ k = i + 1
        OBVIOUS
      <3>3. \A k \in 1..i : k \in 1..i + 1
        OBVIOUS
      <3>4. \A j \in 1..Len(f[i]) : \E k \in 1..i + 1 : f[i][j] = servers[k] /\ healthy[servers[k]]
        BY <2>2, <3>3
      <3>5. \A k \in 1..i + 1 : healthy[servers[k]] => \E j \in 1..Len(f[i]) : f[i][j] = servers[k]
        BY <2>2, <2>4, <3>2
      <3>6. \A j, k \in 1..Len(f[i]) : f[i][j] = f[i][k] => j = k
        BY <2>2
      <3> QED BY <3>1, <3>4, <3>5, <3>6
    <2>5. CASE healthy[servers[i + 1]]
      <3>1. /\ Len(f[i + 1]) = Len(f[i]) + 1
            /\ f[i + 1][Len(f[i]) + 1] = servers[i + 1]
            /\ \A j \in 1..Len(f[i]) : f[i + 1][j] = f[i][j]
        BY <2>3, <2>5
      <3>2. \A j \in 1..Len(f[i]) : f[i][j] # servers[i + 1]
        <4>1. \A k \in 1..i : servers[k] # servers[i + 1]
          BY <2>3 DEF IsInjective
        <4> QED BY <2>2, <4>1
      <3>3. \A j \in 1..Len(f[i + 1]) : j \in 1..Len(f[i]) \/ j = Len(f[i]) + 1
        BY <2>3, <3>1
      <3>4. \A k \in 1..i + 1 : k \in 1..i \/ k = i + 1
        OBVIOUS
      <3>5. \A k \in 1..i : k \in 1..i + 1
        OBVIOUS
      <3>6. Len(f[i]) + 1 \in 1..Len(f[i + 1]) /\ \A j \in 1..Len(f[i]) : j \in 1..Len(f[i + 1])
        BY <2>3, <3>1
      <3>7. \A j, k \in 1..Len(f[i + 1]) : f[i + 1][j] = f[i + 1][k] => j = k
        <4>1. \A j, k \in 1..Len(f[i]) : f[i + 1][j] = f[i + 1][k] => j = k
          BY <2>2, <3>1
        <4>2. \A j \in 1..Len(f[i]) : f[i + 1][j] # f[i + 1][Len(f[i]) + 1]
          BY <3>1, <3>2
        <4> QED BY <3>3, <4>1, <4>2
      <3>8. \A j \in 1..Len(f[i + 1]) : \E k \in 1..i + 1 : f[i + 1][j] = servers[k] /\ healthy[servers[k]]
        <4>1. SUFFICES ASSUME NEW j \in 1..Len(f[i + 1])
                       PROVE  \E k \in 1..i + 1 : f[i + 1][j] = servers[k] /\ healthy[servers[k]]
          OBVIOUS
        <4>2. CASE j = Len(f[i]) + 1
          BY <2>3, <2>5, <3>1, <4>2
        <4>3. CASE j \in 1..Len(f[i])
          <5>1. PICK k \in 1..i : f[i][j] = servers[k] /\ healthy[servers[k]]
            BY <2>2, <4>3
          <5>2. k \in 1..i + 1 /\ f[i + 1][j] = f[i][j]
            BY <3>1, <3>5, <4>3
          <5> QED BY <5>1, <5>2
        <4> QED BY <3>3, <4>2, <4>3
      <3>9. \A k \in 1..i + 1 : healthy[servers[k]] => \E j \in 1..Len(f[i + 1]) : f[i + 1][j] = servers[k]
        <4>1. SUFFICES ASSUME NEW k \in 1..i + 1, healthy[servers[k]]
                       PROVE  \E j \in 1..Len(f[i + 1]) : f[i + 1][j] = servers[k]
          OBVIOUS
        <4>2. CASE k = i + 1
          BY <3>1, <3>6, <4>2
        <4>3. CASE k \in 1..i
          <5>1. PICK j \in 1..Len(f[i]) : f[i][j] = servers[k]
            BY <2>2, <4>1, <4>3
          <5>2. j \in 1..Len(f[i + 1]) /\ f[i + 1][j] = f[i][j]
            BY <3>1, <3>6
          <5> QED BY <5>1, <5>2
        <4> QED BY <3>4, <4>2, <4>3
      <3> QED BY <3>7, <3>8, <3>9
    <2> QED BY <2>4, <2>5
  <1>4. Len(servers) \in T /\ Len(servers) \in Nat
    <2> HIDE DEF T
    <2> QED BY <1>2, <1>3, Induction
  <1>5. Good(Len(servers))
    <2> HIDE DEF Good
    <2> QED BY <1>4
  <1>6. getHealthyServers \in Seq(Servers)
    BY <1>1
  <1>7. DOMAIN getHealthyServers = 1..Len(getHealthyServers) /\ DOMAIN servers = 1..Len(servers)
    BY <1>6
  <1>8. IsInjective(getHealthyServers)
    BY <1>1, <1>5, <1>7 DEF IsInjective
  <1>9. ASSUME NEW s PROVE s \in ToSet(getHealthyServers) <=> s \in ToSet(servers) /\ healthy[s]
    <2>1. ASSUME s \in ToSet(getHealthyServers) PROVE s \in ToSet(servers) /\ healthy[s]
      <3>1. PICK j \in 1..Len(f[Len(servers)]) : s = f[Len(servers)][j]
        BY <1>1, <1>7, <2>1 DEF ToSet
      <3>2. PICK k \in 1..Len(servers) : s = servers[k] /\ healthy[servers[k]]
        BY <1>5, <3>1
      <3> QED BY <1>7, <3>2 DEF ToSet
    <2>2. ASSUME s \in ToSet(servers), healthy[s] PROVE s \in ToSet(getHealthyServers)
      <3>1. PICK k \in 1..Len(servers) : s = servers[k]
        BY <1>7, <2>2 DEF ToSet
      <3>2. PICK j \in 1..Len(f[Len(servers)]) : s = f[Len(servers)][j]
        BY <1>5, <2>2, <3>1
      <3> QED BY <1>1, <1>7, <3>2 DEF ToSet
    <2> QED BY <2>1, <2>2
  <1> QED BY <1>6, <1>8, <1>9

-----------------------------------------------------------------------------
(* Weights, and who is picked. *)

\* WeightOf is positive: a weight that is not counts as one.
LEMMA WeightType ==
  ASSUME NEW s \in Servers
  PROVE  WeightOf(s) \in Nat \ {0}
  BY BalancerAssumption DEF WeightOf

\* The weight of the first n servers is a running sum.
LEMMA WeightSteps ==
  ASSUME NEW list \in Seq(Servers), NEW n \in 0..Len(list)
  PROVE  /\ WeightUpTo(list, n) \in Nat
         /\ n = 0 => WeightUpTo(list, n) = 0
         /\ n > 0 => WeightUpTo(list, n) = WeightUpTo(list, n - 1) + WeightOf(list[n])
  <1> DEFINE Is(f, m) == f = [j \in 0..m |-> IF j = 0 THEN 0 ELSE f[j - 1] + WeightOf(list[j])]
             Sum(m) == CHOOSE f : Is(f, m)
             Runs(f, m) == /\ f[0] = 0
                           /\ \A j \in 1..m : f[j] = f[j - 1] + WeightOf(list[j])
  <1>1. \A j \in 1..Len(list) : list[j] \in Servers /\ WeightOf(list[j]) \in Nat \ {0}
    BY WeightType
  <1>2. ASSUME NEW m \in 0..Len(list)
        PROVE  /\ Sum(m) \in [0..m -> Nat] /\ Runs(Sum(m), m)
               /\ WeightUpTo(list, m) = Sum(m)[m]
    <2> DEFINE g == [j \in 1..m |-> [v \in Nat |-> v + WeightOf(list[j])]]
    <2>1. m \in Nat /\ \A j \in 1..m : WeightOf(list[j]) \in Nat
      BY <1>1
    <2>2. g \in [1..m -> [Nat -> Nat]]
      BY <2>1
    <2>3. PICK f \in [0..m -> Nat] : Computes(f, 0, g, m)
      <3> HIDE DEF g
      <3> QED BY <2>1, <2>2, Computable
    <2>4. Is(f, m)
      <3>1. \A j \in 1..m : f[j - 1] \in Nat
        BY <2>1, <2>3
      <3>2. \A j \in 0..m : (IF j = 0 THEN 0 ELSE g[j][f[j - 1]])
                            = IF j = 0 THEN 0 ELSE f[j - 1] + WeightOf(list[j])
        BY <2>1, <3>1
      <3>3. f = [j \in 0..m |-> IF j = 0 THEN 0 ELSE g[j][f[j - 1]]]
        BY <2>3 DEF Computes
      <3> HIDE DEF g
      <3> QED BY <3>2, <3>3
    <2>5. Is(Sum(m), m)
      <3> HIDE DEF Is
      <3> QED BY <2>4
    <2>6. WeightUpTo(list, m) = Sum(m)[m]
      BY DEF WeightUpTo
    <2>7. PICK r : r = Sum(m)
      OBVIOUS
    <2> HIDE DEF Sum
    <2> DEFINE body(j) == IF j = 0 THEN 0 ELSE r[j - 1] + WeightOf(list[j])
    <2>8. r = [j \in 0..m |-> body(j)]
      BY <2>5, <2>7
    <2>9. DOMAIN r = 0..m /\ \A j \in 0..m : r[j] = body(j)
      <3> HIDE DEF body
      <3> QED BY <2>8
    <2>10. Runs(r, m)
      BY <2>1, <2>9
    <2>11. \A j \in Nat : j <= m => r[j] \in Nat
      <3> DEFINE T == {j \in Nat : j <= m => r[j] \in Nat}
      <3>1. 0 \in T
        BY <2>10
      <3>2. ASSUME NEW j \in Nat, j \in T PROVE j + 1 \in T
        <4>1. SUFFICES ASSUME j + 1 <= m PROVE r[j + 1] \in Nat
          OBVIOUS
        <4>2. r[j] \in Nat /\ j + 1 \in 1..m
          BY <2>1, <3>2, <4>1
        <4>3. r[j + 1] = r[j] + WeightOf(list[j + 1])
          BY <2>10, <4>2
        <4> QED BY <2>1, <4>2, <4>3
      <3>3. \A j \in Nat : j \in T
        <4> HIDE DEF T
        <4> QED BY <3>1, <3>2, Induction
      <3> QED BY <3>3
    <2>12. r \in [0..m -> Nat]
      <3>1. r = [j \in 0..m |-> r[j]]
        BY <2>8
      <3>2. \A j \in 0..m : r[j] \in Nat
        BY <2>1, <2>11
      <3> QED BY <3>1, <3>2
    <2> QED BY <2>6, <2>7, <2>10, <2>12
  <1> HIDE DEF Sum
  <1>3. WeightUpTo(list, n) \in Nat /\ (n = 0 => WeightUpTo(list, n) = 0)
    BY <1>2
  <1>4. ASSUME n > 0
        PROVE  WeightUpTo(list, n) = WeightUpTo(list, n - 1) + WeightOf(list[n])
    <2>1. n - 1 \in 0..Len(list) /\ n \in Nat /\ n \in 1..n
      BY <1>4
    <2>2. PICK f : f = Sum(n)
      OBVIOUS
    <2>3. PICK h : h = Sum(n - 1)
      OBVIOUS
    <2>4. f \in [0..n -> Nat] /\ Runs(f, n) /\ WeightUpTo(list, n) = f[n]
      BY <1>2, <2>2
    <2>5. h \in [0..n - 1 -> Nat] /\ Runs(h, n - 1) /\ WeightUpTo(list, n - 1) = h[n - 1]
      BY <1>2, <2>1, <2>3
    <2>6. \A j \in Nat : j <= n - 1 => f[j] = h[j]
      <3> DEFINE T == {j \in Nat : j <= n - 1 => f[j] = h[j]}
      <3>1. 0 \in T
        BY <2>4, <2>5
      <3>2. ASSUME NEW j \in Nat, j \in T PROVE j + 1 \in T
        <4>1. SUFFICES ASSUME j + 1 <= n - 1 PROVE f[j + 1] = h[j + 1]
          OBVIOUS
        <4>2. f[j] = h[j] /\ j + 1 \in 1..n - 1 /\ j + 1 \in 1..n
          BY <2>1, <3>2, <4>1
        <4>3. f[j + 1] = f[j] + WeightOf(list[j + 1])
          BY <2>4, <4>2
        <4>4. h[j + 1] = h[j] + WeightOf(list[j + 1])
          BY <2>5, <4>2
        <4> QED BY <4>2, <4>3, <4>4
      <3>3. \A j \in Nat : j \in T
        <4> HIDE DEF T
        <4> QED BY <3>1, <3>2, Induction
      <3> QED BY <3>3
    <2>7. f[n] = f[n - 1] + WeightOf(list[n])
      BY <2>1, <2>4
    <2>8. f[n - 1] = h[n - 1]
      BY <2>1, <2>6
    <2> QED BY <2>4, <2>5, <2>7, <2>8
  <1> QED BY <1>3, <1>4

-----------------------------------------------------------------------------
(* Remainders. *)

\* Multiplication distributes over addition: SMT does not find it in place.
LEMMA Distribute ==
  ASSUME NEW a \in Int, NEW b \in Int, NEW r \in Int
  PROVE  /\ r * (a + b) = r * a + r * b
         /\ (a + b) * r = a * r + b * r
         /\ r * a \in Int /\ a * r \in Int
  BY SMT

\* A number is so many whole rounds of W and a rest.
LEMMA DivMod ==
  ASSUME NEW a \in Nat, NEW W \in Nat \ {0}
  PROVE  /\ a \div W \in Nat
         /\ a % W \in 0..W - 1
         /\ a = W * (a \div W) + (a % W)
  BY SMT

\* The rounds and the rest are determined.
LEMMA DivModUnique ==
  ASSUME NEW W \in Nat \ {0}, NEW q \in Nat, NEW r \in Nat, r < W
  PROVE  (W * q + r) \div W = q /\ (W * q + r) % W = r
  <1>1. W * q \in Nat
    BY SMT
  <1>0. PICK a \in Nat : a = W * q + r
    BY <1>1
  <1>2. PICK p \in Nat, t \in 0..W - 1 : p = a \div W /\ t = a % W /\ a = W * p + t
    BY DivMod
  <1>3. W * p \in Int
    BY Distribute
  <1>4. ASSUME NEW u \in Nat, NEW v \in Nat, u + 1 <= v PROVE W * v >= W * u + W
    <2>1. W * (v - u) >= W * 1
      BY <1>4, SMT
    <2>2. W * (u + (v - u)) = W * u + W * (v - u)
      BY Distribute
    <2> QED BY <2>1, <2>2, SMT
  <1>5. ~(p + 1 <= q)
    BY <1>0, <1>1, <1>2, <1>3, <1>4
  <1>6. ~(q + 1 <= p)
    BY <1>0, <1>1, <1>2, <1>3, <1>4
  <1>7. p = q
    BY <1>5, <1>6
  <1> QED BY <1>0, <1>1, <1>2, <1>3, <1>7

\* Of the first m picks, in rounds of W, those that hit the part of size w
\* that starts at lo.
Clamp(a, w) == IF a < 0 THEN 0 ELSE IF a > w THEN w ELSE a
Hits(m, lo, w, W) == (m \div W) * w + Clamp((m % W) - lo, w)

\* The next pick hits the part that its rest falls into.
LEMMA HitsStep ==
  ASSUME NEW m \in Nat, NEW lo \in Nat, NEW w \in Nat \ {0}, NEW W \in Nat \ {0}, lo + w <= W
  PROVE  /\ Hits(m, lo, w, W) \in Nat
         /\ Hits(m + 1, lo, w, W) =
              Hits(m, lo, w, W) + (IF lo <= m % W /\ m % W < lo + w THEN 1 ELSE 0)
  <1>1. PICK q \in Nat, r \in 0..W - 1 : q = m \div W /\ r = m % W /\ m = W * q + r
    BY DivMod
  <1>2. W * q \in Nat /\ q * w \in Nat
    BY SMT
  <1>3. Hits(m, lo, w, W) = q * w + Clamp(r - lo, w)
    BY <1>1 DEF Hits
  <1>4. Clamp(r - lo, w) \in Nat
    BY DEF Clamp
  <1>5. CASE r + 1 < W
    <2>1. m + 1 = W * q + (r + 1)
      BY <1>1, <1>2
    <2>2. (m + 1) \div W = q /\ (m + 1) % W = r + 1
      BY <1>5, <2>1, DivModUnique
    <2>3. Clamp((r + 1) - lo, w) = Clamp(r - lo, w) + (IF lo <= r /\ r < lo + w THEN 1 ELSE 0)
      BY DEF Clamp
    <2> QED BY <1>1, <1>2, <1>3, <1>4, <2>2, <2>3 DEF Hits
  <1>6. CASE r + 1 = W
    <2>1. W * (q + 1) = W * q + W * 1
      BY Distribute
    <2>2. m + 1 = W * (q + 1) + 0
      BY <1>1, <1>2, <1>6, <2>1
    <2>3. (m + 1) \div W = q + 1 /\ (m + 1) % W = 0
      <3>1. PICK u \in Nat : u = q + 1
        OBVIOUS
      <3>2. (W * u + 0) \div W = u /\ (W * u + 0) % W = 0
        BY DivModUnique
      <3> QED BY <2>2, <3>1, <3>2
    <2>4. (q + 1) * w = q * w + w
      BY <1>2, SMT
    <2>5. Clamp(0 - lo, w) = 0
      BY DEF Clamp
    <2>6. w = Clamp(r - lo, w) + (IF lo <= r /\ r < lo + w THEN 1 ELSE 0)
      BY <1>6 DEF Clamp
    <2> QED BY <1>1, <1>2, <1>3, <1>4, <2>3, <2>4, <2>5, <2>6 DEF Hits
  <1> QED BY <1>5, <1>6

\* Any n picks in a row hit a part of size w in W as FairShare says.
LEMMA HitsShare ==
  ASSUME NEW b \in Nat, NEW n \in Nat, NEW lo \in Nat, NEW w \in Nat \ {0}, NEW W \in Nat \ {0},
         lo + w <= W
  PROVE  LET k == Hits(b + n, lo, w, W) - Hits(b, lo, w, W)
             q == n \div W
             r == n % W
         IN  /\ k >= q * w
             /\ k >= q * w + r - (W - w)
             /\ k <= q * w + w
             /\ k <= q * w + r
  <1>1. PICK q \in Nat, r \in 0..W - 1 : q = n \div W /\ r = n % W /\ n = W * q + r
    BY DivMod
  <1>2. PICK a \in Nat, x \in 0..W - 1 : a = b \div W /\ x = b % W /\ b = W * a + x
    BY DivMod
  <1>3. W * q \in Nat /\ q * w \in Nat /\ W * a \in Nat /\ a * w \in Nat
    BY SMT
  <1>4. Hits(b, lo, w, W) = a * w + Clamp(x - lo, w) /\ Clamp(x - lo, w) \in Nat
    BY <1>2 DEF Hits, Clamp
  <1>5. W * (a + q) = W * a + W * q /\ (a + q) * w = a * w + q * w
    BY Distribute
  <1>6. CASE x + r < W
    <2>1. b + n = W * (a + q) + (x + r)
      <3>1. W * (a + q) \in Int
        BY Distribute
      <3> QED BY <1>1, <1>2, <1>3, <1>5, <3>1
    <2>2. (b + n) \div W = a + q /\ (b + n) % W = x + r
      <3>1. PICK u \in Nat, v \in Nat : u = a + q /\ v = x + r
        OBVIOUS
      <3>2. (W * u + v) \div W = u /\ (W * u + v) % W = v
        BY <1>6, <3>1, DivModUnique
      <3> QED BY <2>1, <3>1, <3>2
    <2>3. Hits(b + n, lo, w, W) = a * w + q * w + Clamp((x + r) - lo, w)
      BY <1>5, <2>2 DEF Hits
    <2>4. LET d == Clamp((x + r) - lo, w) - Clamp(x - lo, w)
          IN d \in Nat /\ d >= r - (W - w) /\ d <= w /\ d <= r
      BY <1>6 DEF Clamp
    <2>5. Clamp((x + r) - lo, w) \in Nat
      BY DEF Clamp
    <2> HIDE DEF Clamp
    <2> QED BY <1>1, <1>3, <1>4, <2>3, <2>4, <2>5
  <1>7. CASE x + r >= W
    <2>1. W * ((a + q) + 1) = W * (a + q) + W * 1 /\ ((a + q) + 1) * w = (a + q) * w + 1 * w
      BY Distribute
    <2>2. b + n = W * ((a + q) + 1) + (x + r - W)
      <3>1. PICK s \in Nat, t \in Nat : s = W * a /\ t = W * q
        BY <1>3
      <3>2. W * ((a + q) + 1) = (s + t) + W
        BY <1>5, <2>1, <3>1
      <3>3. b = s + x /\ n = t + r
        BY <1>1, <1>2, <3>1
      <3>4. b + n = ((s + t) + W) + (x + r - W)
        BY <3>3
      <3> QED BY <3>2, <3>4
    <2>3. (b + n) \div W = (a + q) + 1 /\ (b + n) % W = x + r - W
      <3>1. PICK u \in Nat, v \in Nat : u = (a + q) + 1 /\ v = x + r - W
        BY <1>7
      <3>2. (W * u + v) \div W = u /\ (W * u + v) % W = v
        BY <3>1, DivModUnique
      <3> QED BY <2>2, <3>1, <3>2
    <2>4. Hits(b + n, lo, w, W) = a * w + q * w + w + Clamp((x + r - W) - lo, w)
      BY <1>3, <1>5, <2>1, <2>3 DEF Hits
    <2>5. LET d == w + Clamp((x + r - W) - lo, w) - Clamp(x - lo, w)
          IN d \in Nat /\ d >= r - (W - w) /\ d <= w /\ d <= r
      BY <1>7 DEF Clamp
    <2>6. Clamp((x + r - W) - lo, w) \in Nat
      BY DEF Clamp
    <2> QED BY <1>1, <1>3, <1>4, <2>4, <2>5, <2>6
  <1> QED BY <1>6, <1>7

-----------------------------------------------------------------------------
(* Who is picked. *)

\* What a server counts for, and what the first i servers of a list do.
ShareOf(s) == IF algorithm = "weighted" THEN WeightOf(s) ELSE 1
ShareUpTo(list, i) == IF algorithm = "weighted" THEN WeightUpTo(list, i) ELSE i

\* What the first i servers count for is a running sum of positive numbers.
LEMMA ShareSteps ==
  ASSUME NEW list \in Seq(Servers), NEW i \in 0..Len(list)
  PROVE  /\ ShareUpTo(list, i) \in Nat
         /\ i = 0 => ShareUpTo(list, i) = 0
         /\ i > 0 => /\ ShareUpTo(list, i) = ShareUpTo(list, i - 1) + ShareOf(list[i])
                     /\ ShareOf(list[i]) \in Nat \ {0}
                     /\ ShareUpTo(list, i - 1) \in Nat
  <1>1. i > 0 => list[i] \in Servers /\ i - 1 \in 0..Len(list)
    OBVIOUS
  <1>2. i > 0 => WeightOf(list[i]) \in Nat \ {0} /\ WeightUpTo(list, i - 1) \in Nat
    BY <1>1, WeightType, WeightSteps
  <1> QED BY <1>1, <1>2, WeightSteps DEF ShareOf, ShareUpTo

\* It grows along the list.
LEMMA SharesGrow ==
  ASSUME NEW list \in Seq(Servers), NEW i \in 0..Len(list), NEW j \in 0..Len(list), i <= j
  PROVE  ShareUpTo(list, i) <= ShareUpTo(list, j)
  <1> DEFINE T == {n \in Nat : i + n <= Len(list) => ShareUpTo(list, i) <= ShareUpTo(list, i + n)}
  <1>1. 0 \in T
    BY ShareSteps
  <1>2. ASSUME NEW n \in Nat, n \in T PROVE n + 1 \in T
    <2>1. SUFFICES ASSUME i + (n + 1) <= Len(list)
                   PROVE  ShareUpTo(list, i) <= ShareUpTo(list, i + (n + 1))
      OBVIOUS
    <2>2. PICK k \in 1..Len(list) : k = i + (n + 1)
      BY <2>1
    <2>3. k \in 0..Len(list) /\ k - 1 = i + n /\ i + n <= Len(list) /\ k > 0
      BY <2>2
    <2>4. ShareUpTo(list, i) <= ShareUpTo(list, k - 1)
      BY <1>2, <2>3
    <2>5. /\ ShareUpTo(list, k) = ShareUpTo(list, k - 1) + ShareOf(list[k])
          /\ ShareOf(list[k]) \in Nat /\ ShareUpTo(list, k - 1) \in Nat
      BY <2>3, ShareSteps
    <2>6. ShareUpTo(list, i) \in Nat
      BY ShareSteps
    <2> QED BY <2>2, <2>4, <2>5, <2>6
  <1>3. j - i \in T
    <2>1. j - i \in Nat
      OBVIOUS
    <2> HIDE DEF T
    <2> QED BY <1>1, <1>2, <2>1, Induction
  <1> QED BY <1>3

\* A set of numbers that is not empty has a least element, and Min finds it.
LEMMA MinOfNats ==
  ASSUME NEW S \in SUBSET Nat, S # {}
  PROVE  Min(S) \in S /\ \A y \in S : Min(S) <= y
  <1>1. \E x \in S : \A y \in S : x <= y
    <2>1. SUFFICES ASSUME \A x \in S : \E y \in S : ~(x <= y) PROVE FALSE
      OBVIOUS
    <2> DEFINE T == {n \in Nat : \A m \in S : n < m}
    <2>2. 0 \in T
      BY <2>1
    <2>3. ASSUME NEW n \in Nat, n \in T PROVE n + 1 \in T
      <3>1. \A m \in S : n + 1 <= m
        BY <2>3
      <3>2. n + 1 \notin S
        BY <2>1, <3>1
      <3> QED BY <3>1, <3>2
    <2>4. \A n \in Nat : n \in T
      <3> HIDE DEF T
      <3> QED BY <2>2, <2>3, Induction
    <2>5. PICK x : x \in S
      OBVIOUS
    <2>6. x \in Nat /\ x \in T
      BY <2>4, <2>5
    <2> QED BY <2>5, <2>6
  <1> QED BY <1>1 DEF Min

\* The two algorithms with a counter pick the server whose share holds the
\* remainder of the counter.
LEMMA Chosen ==
  ASSUME NEW list \in Seq(Servers), list # <<>>, NEW idx \in Nat,
         algorithm \in {"round_robin", "weighted"}
  PROVE  /\ ShareUpTo(list, Len(list)) \in Nat \ {0}
         /\ \E j \in 1..Len(list) :
              /\ Candidates(list, idx) = {list[j]}
              /\ ShareUpTo(list, j - 1) <= idx % ShareUpTo(list, Len(list))
              /\ idx % ShareUpTo(list, Len(list)) < ShareUpTo(list, j)
  <1>1. Len(list) \in 1..Len(list) /\ Len(list) \in Nat /\ Len(list) > 0 /\ Len(list) \in 0..Len(list)
    OBVIOUS
  <1>2. PICK W : W = ShareUpTo(list, Len(list))
    OBVIOUS
  <1>3. W \in Nat \ {0}
    BY <1>1, <1>2, ShareSteps
  <1>4. PICK r \in 0..W - 1 : r = idx % W
    BY <1>3, DivMod
  <1>5. CASE algorithm = "round_robin"
    <2>1. W = Len(list)
      BY <1>2, <1>5 DEF ShareUpTo
    <2>2. Candidates(list, idx) = {list[1 + r]} /\ 1 + r \in 1..Len(list)
      BY <1>4, <1>5, <2>1 DEF Candidates, RoundRobin
    <2>3. ShareUpTo(list, (1 + r) - 1) = r /\ ShareUpTo(list, 1 + r) = 1 + r
      BY <1>5 DEF ShareUpTo
    <2> QED BY <1>2, <1>3, <1>4, <2>2, <2>3
  <1>6. CASE algorithm = "weighted"
    <2> DEFINE S == {i \in 1..Len(list) : r < WeightUpTo(list, i)}
    <2>1. \A i : ShareUpTo(list, i) = WeightUpTo(list, i)
      BY <1>6 DEF ShareUpTo
    <2>2. Len(list) \in S
      BY <1>1, <1>2, <1>3, <1>4, <2>1
    <2>3. S \in SUBSET Nat /\ S # {}
      BY <2>2
    <2>4. PICK j : j = Min(S)
      OBVIOUS
    <2>5. j \in S /\ \A y \in S : j <= y
      <3> HIDE DEF S
      <3> QED BY <2>3, <2>4, MinOfNats
    <2>6. Candidates(list, idx) = {list[j]}
      <3>1. idx % WeightUpTo(list, Len(list)) = r
        BY <1>2, <1>4, <2>1
      <3>2. Weighted(list, idx) = list[Min(S)]
        BY <3>1 DEF Weighted
      <3>3. Candidates(list, idx) = {Weighted(list, idx)}
        BY <1>6 DEF Candidates
      <3> QED BY <2>4, <3>2, <3>3
    <2>7. ShareUpTo(list, j - 1) <= r
      <3>1. CASE j = 1
        <4>1. ShareUpTo(list, 0) = 0
          BY <1>1, ShareSteps
        <4> QED BY <3>1, <4>1
      <3>2. CASE j > 1
        <4>1. j - 1 \in 1..Len(list) /\ j - 1 \in 0..Len(list) /\ ~(j <= j - 1)
          BY <2>5, <3>2
        <4>2. j - 1 \notin S
          BY <2>5, <4>1
        <4>3. ShareUpTo(list, j - 1) \in Nat
          BY <4>1, ShareSteps
        <4> QED BY <2>1, <4>1, <4>2, <4>3
      <3> QED BY <2>5, <3>1, <3>2
    <2> QED BY <1>2, <1>3, <1>4, <2>1, <2>5, <2>6, <2>7
  <1> QED BY <1>5, <1>6

-----------------------------------------------------------------------------
(* The inductive invariant of the balancer. *)

\* What a call has down is not in service.
OutOfService ==
  \A p \in Pickers : \A s \in down[p] : s \notin ToSet(servers) \/ ~healthy[s]

\* A call that has its copy has a server to pick, and none that is down.
InFlightAt(p) ==
  at[p] \in {"pick", "scan", "picked"} =>
    /\ copy[p] # <<>>
    /\ \A s \in ToSet(copy[p]) : s \notin down[p]
    /\ at[p] = "pick" => algorithm # "least_conn"
    /\ at[p] = "scan" => algorithm = "least_conn"
    /\ at[p] = "picked" => picked[p] \in ToSet(copy[p])
    /\ algorithm = "least_conn" => scan[p].best \in 1..Len(copy[p])

InFlight == \A p \in Pickers : InFlightAt(p)

\* A server has been picked once for every value of the counter that falls to
\* its part of the list.
Shares ==
  algorithm \in {"round_robin", "weighted"} =>
    \A i \in 1..Len(getHealthyServers) :
      LET list == getHealthyServers
          hits(m) == Hits(m, ShareUpTo(list, i - 1), ShareOf(list[i]), ShareUpTo(list, Len(list)))
      IN  picks[list[i]] = hits(current) - hits(since)

\* LeastConnections with a caller that reports, an unchanged list and no
\* connection closed.
Undisturbed == algorithm = "least_conn" /\ Reports /\ changes = 0 /\ ~lost

\* The counters are right, all servers are up, and a copy holds them all.
Reported == Reports => connections = open
AllUp ==
  changes = 0 => /\ ToSet(servers) = Servers /\ \A s \in Servers : healthy[s]
                 /\ \A p \in Pickers :
                      at[p] \in {"pick", "scan", "picked"} => ToSet(copy[p]) = Servers

\* The best so far has no more connections than a server that was looked at.
LookedAt(p) ==
  at[p] \in {"scan", "picked"} =>
    /\ scan[p].bestCount = -1 => at[p] = "scan" /\ scan[p].next = 1
    /\ scan[p].bestCount # -1 =>
         \A i \in 1..Len(copy[p]) :
           i < scan[p].next => scan[p].bestCount <= connections[copy[p][i]]
    /\ at[p] = "picked" => scan[p].next > Len(copy[p]) /\ picked[p] = copy[p][scan[p].best]

Looked == Undisturbed => \A p \in Pickers : LookedAt(p)

\* The pickers that hold s for the best, with at most c connections.
Threats(s, c) ==
  {p \in Pickers : /\ at[p] \in {"scan", "picked"}
                   /\ scan[p].bestCount \in 0..c
                   /\ copy[p][scan[p].best] = s}

\* While some server has at most c connections, another has at most c and
\* one for every picker, and the pickers that hold it for the best are among
\* those.
Level ==
  Undisturbed =>
    \A s, t \in Servers : \A c \in Nat :
      open[t] <= c => open[s] + Cardinality(Threats(s, c)) <= c + Cardinality(Pickers)

BalancerInv ==
  /\ BalancerTypeOK /\ OutOfService /\ InFlight /\ Shares
  /\ Reported /\ AllUp /\ Looked /\ Level

\* The servers as NewSimulator registers them: each of them, once.
LEMMA Registered ==
  LET list == SetToSeq(Servers)
  IN  list \in Seq(Servers) /\ IsInjective(list) /\ ToSet(list) = Servers
  <1>1. PICK n : n = Cardinality(Servers)
    OBVIOUS
  <1>2. n \in Nat /\ \E f \in [1..n -> Servers] : IsInjective(f)
    BY <1>1, BalancerAssumption, FS_CardinalityType
       DEF ExistsBijection, Bijection, Injection
  <1>3. PICK list : list = SetToSeq(Servers)
    OBVIOUS
  <1>4. list \in [1..n -> Servers] /\ IsInjective(list)
    BY <1>1, <1>2, <1>3 DEF SetToSeq
  <1>5. IsFiniteSet(1..n) /\ Cardinality(1..n) = n
    BY <1>2, FS_Interval
  <1>6. list \in Surjection(1..n, Servers)
    BY <1>1, <1>4, <1>5, BalancerAssumption, FS_Injection DEF Injection
  <1>7. list \in Seq(Servers) /\ DOMAIN list = 1..n
    BY <1>2, <1>4
  <1>8. ToSet(list) = Servers
    BY <1>4, <1>6, <1>7 DEF Surjection, ToSet
  <1> QED BY <1>3, <1>4, <1>7, <1>8

\* What a change of the list leaves: a server that was added, or one removed.
LEMMA Added ==
  ASSUME NEW list \in Seq(Servers), IsInjective(list), NEW s \in Servers, s \notin ToSet(list)
  PROVE  /\ Append(list, s) \in Seq(Servers) /\ IsInjective(Append(list, s))
         /\ ToSet(Append(list, s)) = ToSet(list) \cup {s}
  BY DEF IsInjective, ToSet

\* RemoveServer leaves a list without repetitions, and no server that was not there.
LEMMA Removed ==
  ASSUME NEW list \in Seq(Servers), IsInjective(list), NEW i \in DOMAIN list
  PROVE  /\ RemoveAt(list, i) \in Seq(Servers) /\ IsInjective(RemoveAt(list, i))
         /\ ToSet(RemoveAt(list, i)) \subseteq ToSet(list)
  <1>1. PICK n \in Nat : n = Len(list) /\ i \in 1..n
    OBVIOUS
  <1>2. SubSeq(list, 1, i - 1) \in Seq(Servers) /\ Len(SubSeq(list, 1, i - 1)) = i - 1
        /\ \A j \in 1..i - 1 : SubSeq(list, 1, i - 1)[j] = list[j]
    BY <1>1
  <1>3. SubSeq(list, i + 1, n) \in Seq(Servers) /\ Len(SubSeq(list, i + 1, n)) = n - i
        /\ \A j \in 1..n - i : SubSeq(list, i + 1, n)[j] = list[i + j]
    BY <1>1
  <1>4. PICK r : r = RemoveAt(list, i)
    OBVIOUS
  <1>5. r \in Seq(Servers) /\ Len(r) = n - 1
    BY <1>1, <1>2, <1>3, <1>4 DEF RemoveAt
  <1>6. \A j \in 1..n - 1 : r[j] = list[IF j < i THEN j ELSE j + 1]
    <2>1. PICK a, b : a = SubSeq(list, 1, i - 1) /\ b = SubSeq(list, i + 1, n)
      OBVIOUS
    <2>2. r = a \o b
      BY <1>1, <1>4, <2>1 DEF RemoveAt
    <2>3. \A j \in 1..n - 1 : r[j] = IF j < i THEN a[j] ELSE b[j - (i - 1)]
      <3>1. a \in Seq(Servers) /\ b \in Seq(Servers) /\ Len(a) = i - 1 /\ Len(b) = n - i
        BY <1>2, <1>3, <2>1
      <3>2. \A j \in 1..Len(a) + Len(b) :
              (a \o b)[j] = IF j <= Len(a) THEN a[j] ELSE b[j - Len(a)]
        BY <3>1
      <3>3. \A j \in 1..n - 1 : (j <= i - 1) = (j < i)
        BY <1>1
      <3> QED BY <1>1, <2>2, <3>1, <3>2, <3>3
    <2>4. ASSUME NEW j \in 1..n - 1, ~(j < i) PROVE r[j] = list[j + 1]
      <3>1. j - (i - 1) \in 1..n - i /\ i + (j - (i - 1)) = j + 1
        BY <1>1, <2>4
      <3> QED BY <1>3, <2>1, <2>3, <2>4, <3>1
    <2>5. ASSUME NEW j \in 1..n - 1, j < i PROVE r[j] = list[j]
      BY <1>1, <1>2, <2>1, <2>3, <2>5
    <2> QED BY <2>4, <2>5
  <1>7. \A j, k \in 1..n - 1 : r[j] = r[k] => j = k
    BY <1>1, <1>6 DEF IsInjective
  <1>8. \A j \in 1..n - 1 : r[j] \in ToSet(list)
    BY <1>1, <1>6 DEF ToSet
  <1> QED BY <1>4, <1>5, <1>7, <1>8 DEF IsInjective, ToSet

\* The part of the list that belongs to its i-th server.
LEMMA PartOf ==
  ASSUME NEW list \in Seq(Servers), NEW i \in 1..Len(list)
  PROVE  /\ ShareUpTo(list, i - 1) \in Nat
         /\ ShareOf(list[i]) \in Nat \ {0}
         /\ ShareUpTo(list, Len(list)) \in Nat \ {0}
         /\ ShareUpTo(list, i - 1) + ShareOf(list[i]) = ShareUpTo(list, i)
         /\ ShareUpTo(list, i - 1) + ShareOf(list[i]) <= ShareUpTo(list, Len(list))
  <1>1. i \in 0..Len(list) /\ i > 0 /\ Len(list) \in 0..Len(list) /\ i <= Len(list)
    OBVIOUS
  <1>2. /\ ShareUpTo(list, i - 1) + ShareOf(list[i]) = ShareUpTo(list, i)
        /\ ShareUpTo(list, i - 1) \in Nat /\ ShareOf(list[i]) \in Nat \ {0}
    BY <1>1, ShareSteps
  <1>3. ShareUpTo(list, i) <= ShareUpTo(list, Len(list))
    BY <1>1, SharesGrow
  <1>4. ShareUpTo(list, Len(list)) \in Nat
    BY <1>1, ShareSteps
  <1> QED BY <1>2, <1>3, <1>4

\* A new balancer with its servers registered satisfies the invariant.
LEMMA BalancerInitial ==
  ASSUME BalancerInit PROVE BalancerInv
  <1> USE BalancerAssumption DEF BalancerInit
  <1>1. servers \in Seq(Servers) /\ IsInjective(servers) /\ ToSet(servers) = Servers
    BY Registered
  <1>2. BalancerTypeOK
    <2>1. NoScan \in [next : Nat \ {0}, best : Nat \ {0}, bestCount : Nat \cup {-1}]
      BY DEF NoScan
    <2>2. copy \in [Pickers -> Seq(Servers)]
      OBVIOUS
    <2>3. at \in [Pickers -> {"idle", "called", "pick", "scan", "picked"}]
      OBVIOUS
    <2>4. changes \in 0..MaxChanges /\ since \in 0..current
      OBVIOUS
    <2>5. picked \in [Pickers -> Servers \cup {AnyServer}]
      OBVIOUS
    <2> QED BY <1>1, <2>1, <2>2, <2>3, <2>4, <2>5 DEF BalancerTypeOK
  <1>3. OutOfService /\ InFlight /\ Reported /\ AllUp /\ Looked
    BY <1>1 DEF OutOfService, InFlight, InFlightAt, Reported, AllUp, Looked, LookedAt
  <1>4. Shares
    <2>1. getHealthyServers \in Seq(Servers)
      BY <1>1, <1>2, HealthyList DEF BalancerTypeOK
    <2>2. SUFFICES ASSUME NEW i \in 1..Len(getHealthyServers)
                   PROVE  LET list == getHealthyServers
                              hits(m) == Hits(m, ShareUpTo(list, i - 1), ShareOf(list[i]),
                                              ShareUpTo(list, Len(list)))
                          IN  picks[list[i]] = hits(current) - hits(since)
      BY DEF Shares
    <2>3. PICK list, lo, w, W : /\ list = getHealthyServers /\ lo = ShareUpTo(list, i - 1)
                                /\ w = ShareOf(list[i]) /\ W = ShareUpTo(list, Len(list))
      OBVIOUS
    <2>4. lo \in Nat /\ w \in Nat \ {0} /\ W \in Nat \ {0} /\ lo + w <= W
      BY <2>1, <2>3, PartOf
    <2>5. Hits(0, lo, w, W) \in Nat
      BY <2>4, HitsStep
    <2>6. list[i] \in Servers
      BY <2>1, <2>3
    <2> QED BY <2>3, <2>5, <2>6
  <1>5. Level
    <2>1. SUFFICES ASSUME NEW s \in Servers, NEW c \in Nat
                   PROVE  0 + Cardinality(Threats(s, c)) <= c + Cardinality(Pickers)
      BY DEF Level
    <2>2. Threats(s, c) = {}
      BY DEF Threats
    <2>3. Cardinality(Pickers) \in Nat
      BY FS_CardinalityType
    <2> QED BY <2>2, <2>3, FS_EmptySet
  <1> QED BY <1>2, <1>3, <1>4, <1>5 DEF BalancerInv

\* A choice is from the copy.
LEMMA FromCopy ==
  ASSUME BalancerInv, NEW p \in Pickers, at[p] = "pick", NEW s \in Candidates(copy[p], current)
  PROVE  s \in ToSet(copy[p])
  <1>1. copy[p] \in Seq(Servers) /\ copy[p] # <<>> /\ current \in Nat
    BY DEF BalancerInv, BalancerTypeOK, InFlight, InFlightAt
  <1>2. CASE algorithm \in {"round_robin", "weighted"}
    <2>1. PICK j \in 1..Len(copy[p]) : Candidates(copy[p], current) = {copy[p][j]}
      BY <1>1, <1>2, Chosen
    <2> QED BY <1>1, <2>1 DEF ToSet
  <1>3. CASE algorithm \notin {"round_robin", "weighted"}
    BY <1>3 DEF Candidates
  <1> QED BY <1>2, <1>3

\* The servers of a list are servers.
LEMMA InSeq ==
  ASSUME NEW list \in Seq(Servers)
  PROVE  ToSet(list) \subseteq Servers
  BY DEF ToSet

\* A change of the list keeps the types.
LEMMA ChangedTypes ==
  ASSUME BalancerTypeOK, Changed, servers' \in Seq(Servers), IsInjective(servers'),
         healthy' \in [Servers -> BOOLEAN], down' \in [Pickers -> SUBSET Servers]
  PROVE  BalancerTypeOK'
  <1>1. changes' \in 0..MaxChanges
    BY BalancerAssumption DEF BalancerTypeOK, Changed
  <1>2. since' \in 0..current'
    BY DEF BalancerTypeOK, Changed
  <1>3. picks' \in [Servers -> Nat]
    BY DEF Changed, NoPicks
  <1> QED BY <1>1, <1>2, <1>3 DEF BalancerTypeOK, Changed

\* So does a pick,
LEMMA PicksTypes ==
  ASSUME BalancerTypeOK, NEW p \in Pickers, NEW s \in Servers, Picks(p, s),
         UNCHANGED <<algorithm, listVars, connections, copy, scan, open, lost, down>>
  PROVE  BalancerTypeOK'
  <1>1. current' \in Nat /\ since' \in 0..current'
    BY DEF BalancerTypeOK, Picks
  <1>2. picks' \in [Servers -> Nat]
    <2>1. [picks EXCEPT ![s] = @ + 1] \in [Servers -> Nat]
      BY DEF BalancerTypeOK
    <2> QED BY <2>1 DEF Picks, NoPicks
  <1>3. at' \in [Pickers -> {"idle", "called", "pick", "scan", "picked"}]
    BY DEF BalancerTypeOK, Picks
  <1>4. picked' \in [Pickers -> Servers \cup {AnyServer}]
    BY DEF BalancerTypeOK, Picks
  <1> QED BY <1>1, <1>2, <1>3, <1>4 DEF BalancerTypeOK, listVars

\* a look at one counter,
LEMMA ScanTypes ==
  ASSUME BalancerTypeOK, NEW p \in Pickers, Scan(p)
  PROVE  BalancerTypeOK'
  <1>1. PICK here : here = scan[p]
    OBVIOUS
  <1>2. here \in [next : Nat \ {0}, best : Nat \ {0}, bestCount : Nat \cup {-1}]
    BY <1>1 DEF BalancerTypeOK
  <1>3. here.next \in 1..Len(copy[p]) /\ copy[p] \in Seq(Servers)
    BY <1>1, <1>2 DEF BalancerTypeOK, Scan
  <1>4. copy[p][here.next] \in Servers
    BY <1>3
  <1>5. PICK n \in Nat : n = connections[copy[p][here.next]]
    BY <1>4 DEF BalancerTypeOK
  <1>6. PICK new : new = IF here.bestCount < 0 \/ n < here.bestCount
                           THEN [next |-> here.next + 1, best |-> here.next, bestCount |-> n]
                           ELSE [here EXCEPT !.next = @ + 1]
    OBVIOUS
  <1>7. new \in [next : Nat \ {0}, best : Nat \ {0}, bestCount : Nat \cup {-1}]
    BY <1>2, <1>3, <1>5, <1>6
  <1>8. scan' = [scan EXCEPT ![p] = new]
    BY <1>1, <1>5, <1>6 DEF Scan
  <1>9. scan' \in [Pickers -> [next : Nat \ {0}, best : Nat \ {0}, bestCount : Nat \cup {-1}]]
    BY <1>7, <1>8 DEF BalancerTypeOK
  <1> QED BY <1>9 DEF BalancerTypeOK, Scan, listVars

\* and the opening of a connection.
LEMMA ConnectTypes ==
  ASSUME BalancerTypeOK, InFlight, NEW p \in Pickers, Connect(p)
  PROVE  BalancerTypeOK'
  <1>1. copy[p] \in Seq(Servers) /\ picked[p] \in ToSet(copy[p])
    BY DEF BalancerTypeOK, InFlight, InFlightAt, Connect
  <1>2. picked[p] \in Servers
    BY <1>1, InSeq
  <1>3. NoScan \in [next : Nat \ {0}, best : Nat \ {0}, bestCount : Nat \cup {-1}]
    BY DEF NoScan
  <1>4. scan' \in [Pickers -> [next : Nat \ {0}, best : Nat \ {0}, bestCount : Nat \cup {-1}]]
    BY <1>3 DEF BalancerTypeOK, Connect
  <1>5. open' \in [Servers -> Nat] /\ connections' \in [Servers -> Nat]
    BY <1>2 DEF BalancerTypeOK, Connect
  <1>6. /\ at' \in [Pickers -> {"idle", "called", "pick", "scan", "picked"}]
        /\ copy' \in [Pickers -> Seq(Servers)]
        /\ picked' \in [Pickers -> Servers \cup {AnyServer}]
    BY DEF BalancerTypeOK, Connect
  <1>7. down' \in [Pickers -> SUBSET Servers]
    BY DEF BalancerTypeOK, Connect
  <1> QED BY <1>4, <1>5, <1>6, <1>7 DEF BalancerTypeOK, Connect, listVars

\* Every step keeps the types: a pick is from the copy, and only an open
\* connection is closed.
LEMMA BalancerTypesKept ==
  ASSUME BalancerInv, [BalancerNext]_balancerVars
  PROVE  BalancerTypeOK'
  <1>0. BalancerTypeOK /\ InFlight /\ Reported
    BY DEF BalancerInv
  <1>1. ASSUME NEW s \in Servers, RegisterServer(s) PROVE BalancerTypeOK'
    <2>1. servers' \in Seq(Servers) /\ IsInjective(servers')
      BY <1>0, <1>1, Added DEF BalancerTypeOK, RegisterServer
    <2>2. down' \in [Pickers -> SUBSET Servers] /\ healthy' \in [Servers -> BOOLEAN]
      BY <1>0, <1>1 DEF BalancerTypeOK, RegisterServer, Serves
    <2> QED BY <1>0, <1>1, <2>1, <2>2, ChangedTypes DEF RegisterServer
  <1>2. ASSUME NEW s \in Servers, RemoveServer(s) PROVE BalancerTypeOK'
    <2>1. servers' \in Seq(Servers) /\ IsInjective(servers')
      BY <1>0, <1>2, Removed DEF BalancerTypeOK, RemoveServer
    <2> QED BY <1>0, <1>2, <2>1, ChangedTypes DEF BalancerTypeOK, RemoveServer
  <1>3. ASSUME NEW s \in Servers, MarkUnhealthy(s) PROVE BalancerTypeOK'
    BY <1>0, <1>3, ChangedTypes DEF BalancerTypeOK, MarkUnhealthy
  <1>4. ASSUME NEW s \in Servers, MarkHealthy(s) PROVE BalancerTypeOK'
    <2>1. down' \in [Pickers -> SUBSET Servers] /\ healthy' \in [Servers -> BOOLEAN]
      BY <1>0, <1>4 DEF BalancerTypeOK, MarkHealthy, Serves
    <2> QED BY <1>0, <1>4, <2>1, ChangedTypes DEF BalancerTypeOK, MarkHealthy
  <1>5. ASSUME NEW s \in Servers, Disconnect(s) PROVE BalancerTypeOK'
    <2>1. open' \in [Servers -> Nat] /\ connections' \in [Servers -> Nat]
      BY <1>0, <1>5 DEF BalancerTypeOK, Disconnect, Reported
    <2> QED BY <1>0, <1>5, <2>1 DEF BalancerTypeOK, Disconnect, listVars
  <1>6. ASSUME NEW p \in Pickers, Call(p) PROVE BalancerTypeOK'
    <2>1. down' \in [Pickers -> SUBSET Servers]
      BY <1>0, <1>6 DEF BalancerTypeOK, Call
    <2>2. at' \in [Pickers -> {"idle", "called", "pick", "scan", "picked"}]
      BY <1>0, <1>6 DEF BalancerTypeOK, Call
    <2> QED BY <1>0, <1>6, <2>1, <2>2 DEF BalancerTypeOK, Call, listVars
  <1>7. ASSUME NEW p \in Pickers, Copy(p) PROVE BalancerTypeOK'
    <2>1. getHealthyServers \in Seq(Servers)
      BY <1>0, HealthyList DEF BalancerTypeOK
    <2>2. NoScan \in [next : Nat \ {0}, best : Nat \ {0}, bestCount : Nat \cup {-1}]
      BY DEF NoScan
    <2>3. scan' \in [Pickers -> [next : Nat \ {0}, best : Nat \ {0}, bestCount : Nat \cup {-1}]]
      BY <1>0, <1>7, <2>2 DEF BalancerTypeOK, Copy
    <2>4. copy' \in [Pickers -> Seq(Servers)]
      BY <1>0, <1>7, <2>1 DEF BalancerTypeOK, Copy
    <2>5. at' \in [Pickers -> {"idle", "called", "pick", "scan", "picked"}]
      BY <1>0, <1>7 DEF BalancerTypeOK, Copy
    <2> QED BY <1>0, <1>7, <2>3, <2>4, <2>5 DEF BalancerTypeOK, Copy, listVars
  <1>8. ASSUME NEW p \in Pickers, Pick(p) PROVE BalancerTypeOK'
    <2>1. PICK s \in Candidates(copy[p], current) : Picks(p, s)
      BY <1>8 DEF Pick
    <2>2. s \in Servers
      BY <1>0, <1>8, FromCopy, InSeq DEF BalancerTypeOK, Pick
    <2> QED BY <1>0, <1>8, <2>1, <2>2, PicksTypes DEF Pick
  <1>9. ASSUME NEW p \in Pickers, PickBest(p) PROVE BalancerTypeOK'
    <2>1. PICK s : s = copy[p][scan[p].best] /\ Picks(p, s)
      BY <1>9 DEF PickBest
    <2>2. s \in Servers
      BY <1>0, <1>9, <2>1 DEF BalancerTypeOK, InFlight, InFlightAt, PickBest
    <2> QED BY <1>0, <1>9, <2>1, <2>2, PicksTypes DEF PickBest
  <1>10. CASE UNCHANGED balancerVars
    BY <1>0, <1>10 DEF BalancerTypeOK, balancerVars
  <1> QED BY <1>0, <1>1, <1>2, <1>3, <1>4, <1>5, <1>6, <1>7, <1>8, <1>9, <1>10,
             ScanTypes, ConnectTypes DEF BalancerNext, ChangeList

\* A change of the list takes a server out of down when it comes into service.
LEMMA ListChanged ==
  ASSUME BalancerInv, NEW s \in Servers, ChangeList(s)
  PROVE  /\ Changed
         /\ OutOfService'
         /\ \A p \in Pickers : down'[p] \subseteq down[p]
  <1>0. BalancerTypeOK /\ OutOfService
    BY DEF BalancerInv
  <1>1. CASE RegisterServer(s)
    <2>1. ToSet(servers') = ToSet(servers) \cup {s}
      BY <1>0, <1>1, Added DEF BalancerTypeOK, RegisterServer
    <2> QED BY <1>0, <1>1, <2>1 DEF BalancerTypeOK, OutOfService, RegisterServer, Serves
  <1>2. CASE RemoveServer(s)
    <2>1. ToSet(servers') \subseteq ToSet(servers)
      BY <1>0, <1>2, Removed DEF BalancerTypeOK, RemoveServer
    <2> QED BY <1>0, <1>2, <2>1 DEF BalancerTypeOK, OutOfService, RemoveServer
  <1>3. CASE MarkUnhealthy(s)
    BY <1>0, <1>3 DEF BalancerTypeOK, OutOfService, MarkUnhealthy
  <1>4. CASE MarkHealthy(s)
    BY <1>0, <1>4 DEF BalancerTypeOK, OutOfService, MarkHealthy, Serves
  <1> QED BY <1>1, <1>2, <1>3, <1>4 DEF ChangeList

\* Every step keeps OutOfService.
LEMMA OutOfServiceKept ==
  ASSUME BalancerInv, [BalancerNext]_balancerVars
  PROVE  OutOfService'
  <1>0. BalancerTypeOK /\ OutOfService
    BY DEF BalancerInv
  <1>1. ASSUME NEW p \in Pickers, Call(p) PROVE OutOfService'
    BY <1>0, <1>1 DEF BalancerTypeOK, OutOfService, Call, listVars
  <1>2. ASSUME NEW p \in Pickers, Connect(p) PROVE OutOfService'
    BY <1>0, <1>2 DEF BalancerTypeOK, OutOfService, Connect, listVars
  <1>3. ASSUME UNCHANGED <<listVars, down>> PROVE OutOfService'
    BY <1>0, <1>3 DEF OutOfService, listVars
  <1>4. ASSUME NEW p \in Pickers, Copy(p) \/ Pick(p) \/ Scan(p) \/ PickBest(p) PROVE OutOfService'
    BY <1>3, <1>4 DEF Copy, Pick, Scan, PickBest
  <1>5. ASSUME NEW s \in Servers, Disconnect(s) PROVE OutOfService'
    BY <1>3, <1>5 DEF Disconnect
  <1>6. CASE UNCHANGED balancerVars
    BY <1>3, <1>6 DEF balancerVars, listVars
  <1> QED BY <1>1, <1>2, <1>4, <1>5, <1>6, ListChanged DEF BalancerNext

\* Every step keeps InFlight: Copy takes the healthy servers, and a server that
\* leaves down meanwhile does no harm.
LEMMA InFlightKept ==
  ASSUME BalancerInv, [BalancerNext]_balancerVars
  PROVE  InFlight'
  <1>0. BalancerTypeOK /\ OutOfService /\ InFlight
    BY DEF BalancerInv
  <1>1. ASSUME NEW s \in Servers, ChangeList(s) PROVE InFlight'
    <2>1. Changed /\ \A p \in Pickers : down'[p] \subseteq down[p]
      BY <1>1, ListChanged
    <2> QED BY <1>0, <2>1 DEF InFlight, InFlightAt, Changed
  <1>2. CASE UNCHANGED balancerVars
    BY <1>0, <1>2 DEF InFlight, InFlightAt, balancerVars
  <1>3. ASSUME NEW s \in Servers, Disconnect(s) PROVE InFlight'
    BY <1>0, <1>3 DEF InFlight, InFlightAt, Disconnect
  <1>4. ASSUME NEW p \in Pickers, \A q \in Pickers \ {p} : /\ at'[q] = at[q] /\ copy'[q] = copy[q]
                                                           /\ scan'[q] = scan[q] /\ down'[q] = down[q]
                                                           /\ picked'[q] = picked[q],
               algorithm' = algorithm, InFlightAt(p)'
        PROVE  InFlight'
    <2>1. SUFFICES ASSUME NEW q \in Pickers PROVE InFlightAt(q)'
      BY DEF InFlightAt, InFlight
    <2>2. CASE q = p
      BY <1>4, <2>2
    <2>3. CASE q # p
      <3>1. InFlightAt(q)
        BY <1>0 DEF InFlightAt, InFlight
      <3> QED BY <1>4, <2>3, <3>1 DEF InFlightAt
    <2> QED BY <2>2, <2>3
  <1>5. ASSUME NEW p \in Pickers, Call(p) PROVE InFlight'
    <2>1. InFlightAt(p)'
      BY <1>0, <1>5 DEF BalancerTypeOK, Call, InFlightAt
    <2> QED BY <1>0, <1>4, <1>5, <2>1 DEF BalancerTypeOK, Call
  <1>6. ASSUME NEW p \in Pickers, Copy(p) PROVE InFlight'
    <2>1. PICK list : list = getHealthyServers
      OBVIOUS
    <2>2. list \in Seq(Servers) /\ ToSet(list) = {s \in ToSet(servers) : healthy[s]}
      BY <1>0, <2>1, HealthyList DEF BalancerTypeOK
    <2>3. at'[p] \in {"pick", "scan", "picked"} => Len(list) > 0 /\ list # <<>>
      BY <1>0, <1>6, <2>1, <2>2 DEF BalancerTypeOK, Copy
    <2>4. scan'[p].best = 1
      BY <1>0, <1>6 DEF BalancerTypeOK, Copy, NoScan
    <2>5. InFlightAt(p)'
      BY <1>0, <1>6, <2>1, <2>2, <2>3, <2>4 DEF BalancerTypeOK, OutOfService, Copy, InFlightAt
    <2> QED BY <1>0, <1>4, <1>6, <2>5 DEF BalancerTypeOK, Copy
  <1>7. ASSUME NEW p \in Pickers, Pick(p) PROVE InFlight'
    <2>1. PICK s \in Candidates(copy[p], current) : Picks(p, s)
      BY <1>7 DEF Pick
    <2>2. s \in ToSet(copy[p])
      BY <1>7, FromCopy DEF Pick
    <2>3. InFlightAt(p)'
      BY <1>0, <1>7, <2>1, <2>2 DEF BalancerTypeOK, InFlight, Pick, Picks, InFlightAt
    <2> QED BY <1>0, <1>4, <1>7, <2>1, <2>3 DEF BalancerTypeOK, Pick, Picks
  <1>8. ASSUME NEW p \in Pickers, Scan(p) PROVE InFlight'
    <2>1. algorithm = "least_conn" /\ scan[p].next \in 1..Len(copy[p])
      BY <1>0, <1>8 DEF BalancerTypeOK, InFlight, InFlightAt, Scan
    <2>2. scan'[p].best \in {scan[p].best, scan[p].next}
      BY <1>0, <1>8 DEF BalancerTypeOK, Scan
    <2>3. InFlightAt(p)'
      BY <1>0, <1>8, <2>1, <2>2 DEF BalancerTypeOK, InFlight, Scan, InFlightAt
    <2> QED BY <1>0, <1>4, <1>8, <2>3 DEF BalancerTypeOK, Scan
  <1>9. ASSUME NEW p \in Pickers, PickBest(p) PROVE InFlight'
    <2>1. PICK s : s = copy[p][scan[p].best] /\ Picks(p, s)
      BY <1>9 DEF PickBest
    <2>2. s \in ToSet(copy[p])
      BY <1>0, <1>9, <2>1 DEF BalancerTypeOK, InFlight, InFlightAt, PickBest, ToSet
    <2>3. InFlightAt(p)'
      BY <1>0, <1>9, <2>1, <2>2 DEF BalancerTypeOK, InFlight, PickBest, Picks, InFlightAt
    <2> QED BY <1>0, <1>4, <1>9, <2>1, <2>3 DEF BalancerTypeOK, PickBest, Picks
  <1>10. ASSUME NEW p \in Pickers, Connect(p) PROVE InFlight'
    <2>1. InFlightAt(p)'
      BY <1>0, <1>10 DEF BalancerTypeOK, Connect, InFlightAt
    <2> QED BY <1>0, <1>4, <1>10, <2>1 DEF BalancerTypeOK, Connect
  <1> QED BY <1>1, <1>2, <1>3, <1>5, <1>6, <1>7, <1>8, <1>9, <1>10 DEF BalancerNext

\* The healthy servers are a list without repetitions, now
LEMMA ListTypes == BalancerTypeOK => getHealthyServers \in Seq(Servers) /\ IsInjective(getHealthyServers)
  BY HealthyList DEF BalancerTypeOK

\* and after a step.
LEMMA ListTypesNext == BalancerTypeOK' => getHealthyServers' \in Seq(Servers)
  <1>1. BalancerTypeOK' => (getHealthyServers \in Seq(Servers) /\ IsInjective(getHealthyServers))'
    BY ListTypes, PTL
  <1> QED BY <1>1

\* A new count starts from the picks that were made before.
LEMMA SharesAnew ==
  ASSUME BalancerTypeOK', algorithm' = algorithm, picks' = NoPicks, since' = current'
  PROVE  Shares'
  <1>1. PICK list : list = getHealthyServers'
    OBVIOUS
  <1>2. list \in Seq(Servers) /\ current' \in Nat
    BY <1>1, ListTypesNext DEF BalancerTypeOK
  <1>3. SUFFICES ASSUME NEW i \in 1..Len(list)
                 PROVE  LET hits(m) == Hits(m, ShareUpTo(list, i - 1), ShareOf(list[i]),
                                            ShareUpTo(list, Len(list)))
                        IN  picks'[list[i]] = hits(current') - hits(since')
    BY <1>1 DEF Shares, ShareUpTo, ShareOf
  <1>4. PICK lo, w, W : /\ lo = ShareUpTo(list, i - 1)
                        /\ w = ShareOf(list[i]) /\ W = ShareUpTo(list, Len(list))
    OBVIOUS
  <1>5. lo \in Nat /\ w \in Nat \ {0} /\ W \in Nat \ {0} /\ lo + w <= W
    BY <1>2, <1>4, PartOf
  <1>6. Hits(current', lo, w, W) \in Nat
    BY <1>2, <1>5, HitsStep
  <1>7. picks'[list[i]] = 0
    BY <1>2 DEF NoPicks
  <1> QED BY <1>4, <1>6, <1>7

\* A pick from the list as it is counts for the server it falls to, and for
\* no other.
LEMMA SharesPicked ==
  ASSUME BalancerInv, NEW p \in Pickers, Pick(p), copy[p] = getHealthyServers,
         algorithm \in {"round_robin", "weighted"}, BalancerTypeOK'
  PROVE  Shares'
  <1>1. PICK list : list = getHealthyServers /\ list = copy[p]
    OBVIOUS
  <1>2. getHealthyServers' = list
    BY <1>1 DEF Pick, listVars, getHealthyServers
  <1>3. /\ list \in Seq(Servers) /\ IsInjective(list) /\ list # <<>>
        /\ current \in Nat /\ since \in Nat /\ picks \in [Servers -> Nat]
    <2>1. BalancerTypeOK /\ InFlight
      BY DEF BalancerInv
    <2>2. list \in Seq(Servers) /\ IsInjective(list)
      BY <1>1, <2>1, ListTypes
    <2>3. list # <<>>
      BY <1>1, <2>1 DEF InFlight, InFlightAt, Pick
    <2>4. current \in Nat /\ since \in Nat /\ picks \in [Servers -> Nat]
      BY <2>1 DEF BalancerTypeOK
    <2> QED BY <2>2, <2>3, <2>4
  <1>4. PICK W : W = ShareUpTo(list, Len(list))
    OBVIOUS
  <1>5. PICK j \in 1..Len(list) : /\ Candidates(list, current) = {list[j]}
                                  /\ ShareUpTo(list, j - 1) <= current % W
                                  /\ current % W < ShareUpTo(list, j)
    BY <1>3, <1>4, Chosen
  <1>6. /\ picks' = [picks EXCEPT ![list[j]] = @ + 1]
        /\ since' = since /\ current' = current + 1 /\ algorithm' = algorithm
    BY <1>1, <1>5 DEF Pick, Picks
  <1>7. SUFFICES ASSUME NEW i \in 1..Len(list)
                 PROVE  LET hits(m) == Hits(m, ShareUpTo(list, i - 1), ShareOf(list[i]), W)
                        IN  picks'[list[i]] = hits(current + 1) - hits(since)
    BY <1>2, <1>4, <1>6 DEF Shares, ShareUpTo, ShareOf
  <1>8. PICK lo, w : lo = ShareUpTo(list, i - 1) /\ w = ShareOf(list[i])
    OBVIOUS
  <1>9. lo \in Nat /\ w \in Nat \ {0} /\ W \in Nat \ {0} /\ lo + w <= W /\ lo + w = ShareUpTo(list, i)
    BY <1>3, <1>4, <1>8, PartOf
  <1>10. picks[list[i]] = Hits(current, lo, w, W) - Hits(since, lo, w, W)
    BY <1>1, <1>4, <1>7, <1>8 DEF BalancerInv, Shares
  <1>11. /\ Hits(current, lo, w, W) \in Nat /\ Hits(since, lo, w, W) \in Nat
         /\ Hits(current + 1, lo, w, W) =
              Hits(current, lo, w, W) + (IF lo <= current % W /\ current % W < lo + w THEN 1 ELSE 0)
    <2>1. Hits(since, lo, w, W) \in Nat
      BY <1>3, <1>9, HitsStep
    <2>2. PICK m \in Nat : m = current
      BY <1>3
    <2>3. /\ Hits(m, lo, w, W) \in Nat
          /\ Hits(m + 1, lo, w, W) =
               Hits(m, lo, w, W) + (IF lo <= m % W /\ m % W < lo + w THEN 1 ELSE 0)
      BY <1>9, HitsStep, Zenon
    <2> QED BY <2>1, <2>2, <2>3
  <1>12. picks'[list[i]] = picks[list[i]] + (IF i = j THEN 1 ELSE 0)
    <2>1. i = j <=> list[i] = list[j]
      BY <1>3 DEF IsInjective
    <2>2. list[i] \in Servers /\ list[j] \in Servers
      BY <1>3
    <2> QED BY <1>3, <1>6, <2>1, <2>2
  <1>13. i = j <=> lo <= current % W /\ current % W < lo + w
    <2>0. PICK r : r = current % W
      OBVIOUS
    <2>1. CASE i = j
      BY <1>5, <1>8, <1>9, <2>1
    <2>2. CASE i < j
      <3>1. i \in 0..Len(list) /\ j - 1 \in 0..Len(list) /\ i <= j - 1
        BY <1>3, <2>2
      <3>2. lo + w <= ShareUpTo(list, j - 1)
        BY <1>3, <1>9, <3>1, SharesGrow
      <3>3. ShareUpTo(list, j - 1) \in Nat
        BY <1>3, <3>1, ShareSteps
      <3>4. r \in Int
        BY <1>3, <1>9, <2>0, DivMod
      <3> QED BY <1>5, <1>9, <2>0, <2>2, <3>2, <3>3, <3>4
    <2>3. CASE j < i
      <3>1. j \in 0..Len(list) /\ i - 1 \in 0..Len(list) /\ j <= i - 1
        BY <1>3, <2>3
      <3>2. ShareUpTo(list, j) <= lo
        BY <1>3, <1>8, <3>1, SharesGrow
      <3>3. ShareUpTo(list, j) \in Nat
        BY <1>3, <3>1, ShareSteps
      <3>4. r \in Int
        BY <1>3, <1>9, <2>0, DivMod
      <3> QED BY <1>5, <1>9, <2>0, <2>3, <3>2, <3>3, <3>4
    <2> QED BY <2>1, <2>2, <2>3
  <1> QED BY <1>3, <1>8, <1>10, <1>11, <1>12, <1>13

\* Every step keeps Shares.
LEMMA SharesKept ==
  ASSUME BalancerInv, [BalancerNext]_balancerVars, BalancerTypeOK'
  PROVE  Shares'
  <1>1. BalancerTypeOK /\ Shares /\ InFlight
    BY DEF BalancerInv
  <1>2. ASSUME UNCHANGED <<algorithm, listVars, current, picks, since>> PROVE Shares'
    BY <1>1, <1>2 DEF Shares, ShareOf, ShareUpTo, getHealthyServers, listVars
  <1>3. ASSUME NEW s \in Servers, ChangeList(s) PROVE Shares'
    <2>1. Changed
      BY <1>3, ListChanged
    <2> QED BY <2>1, SharesAnew DEF Changed
  <1>4. ASSUME NEW s \in Servers, Disconnect(s) PROVE Shares'
    BY <1>2, <1>4 DEF Disconnect
  <1>5. ASSUME NEW p \in Pickers, Call(p) \/ Copy(p) \/ Scan(p) \/ Connect(p) PROVE Shares'
    BY <1>2, <1>5 DEF Call, Copy, Scan, Connect
  <1>6. ASSUME NEW p \in Pickers, Pick(p) PROVE Shares'
    <2>1. CASE copy[p] # getHealthyServers
      <3>1. /\ picks' = NoPicks /\ since' = current + 1 /\ current' = current + 1
            /\ algorithm' = algorithm
        BY <1>6, <2>1 DEF Pick, Picks
      <3> QED BY <3>1, SharesAnew
    <2>2. CASE algorithm \notin {"round_robin", "weighted"}
      BY <1>6, <2>2 DEF Shares, Pick
    <2> QED BY <1>6, <2>1, <2>2, SharesPicked
  <1>7. ASSUME NEW p \in Pickers, PickBest(p) PROVE Shares'
    <2>1. algorithm = "least_conn" /\ algorithm' = algorithm
      BY <1>1, <1>7 DEF InFlight, InFlightAt, PickBest
    <2> QED BY <2>1 DEF Shares
  <1>8. CASE UNCHANGED balancerVars
    BY <1>2, <1>8 DEF balancerVars, listVars
  <1> QED BY <1>3, <1>4, <1>5, <1>6, <1>7, <1>8 DEF BalancerNext

\* Every step keeps Reported.
LEMMA ReportedKept ==
  ASSUME BalancerInv, [BalancerNext]_balancerVars
  PROVE  Reported'
  <1>1. BalancerTypeOK /\ Reported /\ InFlight
    BY DEF BalancerInv
  <1>2. ASSUME UNCHANGED <<connections, open>> PROVE Reported'
    BY <1>1, <1>2 DEF Reported
  <1>3. ASSUME NEW s \in Servers, ChangeList(s) PROVE Reported'
    BY <1>2, <1>3, ListChanged DEF Changed
  <1>4. ASSUME NEW s \in Servers, Disconnect(s) PROVE Reported'
    BY <1>1, <1>4 DEF Reported, Disconnect
  <1>5. ASSUME NEW p \in Pickers, Connect(p) PROVE Reported'
    <2>1. algorithm # "least_conn" => Reported'
      BY <1>1, <1>5 DEF Reported, Connect
    <2>2. algorithm = "least_conn" => Reported'
      BY <1>1, <1>5 DEF Reported, Connect
    <2> QED BY <2>1, <2>2
  <1>6. ASSUME NEW p \in Pickers, Call(p) \/ Copy(p) \/ Pick(p) \/ Scan(p) \/ PickBest(p)
        PROVE  Reported'
    BY <1>2, <1>6 DEF Call, Copy, Pick, Picks, Scan, PickBest
  <1>7. CASE UNCHANGED balancerVars
    BY <1>2, <1>7 DEF balancerVars
  <1> QED BY <1>3, <1>4, <1>5, <1>6, <1>7 DEF BalancerNext

\* A change of the list is counted.
LEMMA FirstChange ==
  ASSUME BalancerTypeOK, Changed
  PROVE  changes' # 0
  BY DEF BalancerTypeOK, Changed

\* Every step keeps AllUp.
LEMMA AllUpKept ==
  ASSUME BalancerInv, [BalancerNext]_balancerVars
  PROVE  AllUp'
  <1>1. BalancerTypeOK /\ AllUp
    BY DEF BalancerInv
  <1>2. ASSUME UNCHANGED listVars,
               \A p \in Pickers : at'[p] \in {"pick", "scan", "picked"} =>
                 \/ at[p] \in {"pick", "scan", "picked"} /\ copy'[p] = copy[p]
                 \/ copy'[p] = getHealthyServers
        PROVE  AllUp'
    <2>1. ToSet(getHealthyServers) = {s \in ToSet(servers) : healthy[s]}
      BY <1>1, HealthyList DEF BalancerTypeOK
    <2> QED BY <1>1, <1>2, <2>1 DEF AllUp, listVars
  <1>3. ASSUME NEW s \in Servers, ChangeList(s) PROVE AllUp'
    BY <1>1, <1>3, ListChanged, FirstChange DEF AllUp
  <1>4. ASSUME NEW s \in Servers, Disconnect(s) PROVE AllUp'
    BY <1>2, <1>4 DEF Disconnect
  <1>5. ASSUME NEW p \in Pickers, Call(p) \/ Copy(p) \/ Connect(p) PROVE AllUp'
    <2>1. UNCHANGED listVars
      BY <1>5 DEF Call, Copy, Connect
    <2>2. ASSUME NEW q \in Pickers, at'[q] \in {"pick", "scan", "picked"}
          PROVE  \/ at[q] \in {"pick", "scan", "picked"} /\ copy'[q] = copy[q]
                 \/ copy'[q] = getHealthyServers
      BY <1>1, <1>5, <2>2 DEF BalancerTypeOK, Call, Copy, Connect
    <2> QED BY <1>2, <2>1, <2>2
  <1>6. ASSUME NEW p \in Pickers, Pick(p) \/ Scan(p) \/ PickBest(p) PROVE AllUp'
    <2>1. UNCHANGED <<listVars, copy>>
      BY <1>6 DEF Pick, Scan, PickBest
    <2>2. ASSUME NEW q \in Pickers, at'[q] \in {"pick", "scan", "picked"}
          PROVE  at[q] \in {"pick", "scan", "picked"}
      BY <1>1, <1>6, <2>2 DEF BalancerTypeOK, Pick, Picks, Scan, PickBest
    <2> QED BY <1>2, <2>1, <2>2
  <1>7. CASE UNCHANGED balancerVars
    BY <1>2, <1>7 DEF balancerVars, listVars
  <1> QED BY <1>3, <1>4, <1>5, <1>6, <1>7 DEF BalancerNext

-----------------------------------------------------------------------------

\* While nothing disturbs LeastConnections, only pickers take steps.
LEMMA OnlyPickers ==
  ASSUME BalancerInv, [BalancerNext]_balancerVars, Undisturbed'
  PROVE  /\ Undisturbed
         /\ \/ UNCHANGED balancerVars
            \/ \E p \in Pickers : Call(p) \/ Copy(p) \/ Scan(p) \/ PickBest(p) \/ Connect(p)
  <1>1. BalancerTypeOK /\ InFlight
    BY DEF BalancerInv
  <1>2. ASSUME NEW s \in Servers PROVE ~ChangeList(s) /\ ~Disconnect(s)
    <2>1. ~ChangeList(s)
      BY <1>1, ListChanged, FirstChange DEF Undisturbed
    <2>2. ~Disconnect(s)
      BY DEF Undisturbed, Disconnect
    <2> QED BY <2>1, <2>2
  <1>3. CASE UNCHANGED balancerVars
    BY <1>3 DEF Undisturbed, balancerVars
  <1>4. ASSUME NEW p \in Pickers,
               Call(p) \/ Copy(p) \/ Pick(p) \/ Scan(p) \/ PickBest(p) \/ Connect(p)
        PROVE  Undisturbed /\ ~Pick(p)
    <2>1. Undisturbed
      BY <1>4 DEF Undisturbed, Call, Copy, Pick, Scan, PickBest, Connect, listVars
    <2> QED BY <1>1, <2>1 DEF Undisturbed, InFlight, InFlightAt, Pick
  <1> QED BY <1>2, <1>3, <1>4 DEF BalancerNext

\* Every step keeps Looked: the counters only grow while a picker reads them.
LEMMA LookedKept ==
  ASSUME BalancerInv, [BalancerNext]_balancerVars
  PROVE  Looked'
  <1>1. SUFFICES ASSUME Undisturbed' PROVE \A q \in Pickers : LookedAt(q)'
    BY DEF Looked
  <1>2. BalancerTypeOK /\ InFlight /\ (\A q \in Pickers : LookedAt(q)) /\ algorithm = "least_conn"
    BY <1>1, OnlyPickers DEF BalancerInv, Looked, Undisturbed
  <1>3. ASSUME NEW p \in Pickers,
               \A q \in Pickers \ {p} : /\ at'[q] = at[q] /\ copy'[q] = copy[q]
                                        /\ scan'[q] = scan[q] /\ picked'[q] = picked[q],
               \A s \in Servers : connections'[s] >= connections[s] /\ connections'[s] \in Nat,
               LookedAt(p)'
        PROVE  \A q \in Pickers : LookedAt(q)'
    <2>1. SUFFICES ASSUME NEW q \in Pickers, q # p PROVE LookedAt(q)'
      BY <1>3
    <2>2. PICK list \in Seq(Servers), here \in {scan[q]} : list = copy[q]
      BY <1>2 DEF BalancerTypeOK
    <2>3. here.bestCount \in Nat \cup {-1} /\ here.next \in Nat
      BY <1>2, <2>2 DEF BalancerTypeOK
    <2>4. \A i \in 1..Len(list) : /\ connections[list[i]] \in Nat /\ connections'[list[i]] \in Nat
                                  /\ connections'[list[i]] >= connections[list[i]]
      BY <1>2, <1>3 DEF BalancerTypeOK
    <2>5. LookedAt(q)
      BY <1>2
    <2>6. at'[q] = at[q] /\ copy'[q] = list /\ scan'[q] = here /\ picked'[q] = picked[q]
      BY <1>3, <2>1, <2>2
    <2>7. ASSUME at[q] \in {"scan", "picked"}, here.bestCount # -1,
                 NEW i \in 1..Len(list), i < here.next
          PROVE  here.bestCount <= connections'[list[i]]
      <3>1. here.bestCount <= connections[list[i]]
        BY <2>2, <2>5, <2>7 DEF LookedAt
      <3> QED BY <2>3, <2>4, <2>7, <3>1
    <2> QED BY <2>2, <2>5, <2>6, <2>7 DEF LookedAt
  <1>4. UNCHANGED connections =>
          \A s \in Servers : connections'[s] >= connections[s] /\ connections'[s] \in Nat
    BY <1>2 DEF BalancerTypeOK
  <1>5. ASSUME NEW p \in Pickers, Call(p) PROVE \A q \in Pickers : LookedAt(q)'
    <2>1. LookedAt(p)'
      BY <1>2, <1>5 DEF BalancerTypeOK, Call, LookedAt
    <2> QED BY <1>2, <1>3, <1>4, <1>5, <2>1 DEF BalancerTypeOK, Call
  <1>6. ASSUME NEW p \in Pickers, Copy(p) PROVE \A q \in Pickers : LookedAt(q)'
    <2>1. at'[p] # "picked" /\ scan'[p].bestCount = -1 /\ scan'[p].next = 1
      BY <1>2, <1>6 DEF BalancerTypeOK, Copy, NoScan
    <2>2. LookedAt(p)'
      BY <2>1 DEF LookedAt
    <2> QED BY <1>2, <1>3, <1>4, <1>6, <2>2 DEF BalancerTypeOK, Copy
  <1>7. ASSUME NEW p \in Pickers, Scan(p) PROVE \A q \in Pickers : LookedAt(q)'
    <2>1. PICK list \in Seq(Servers), here \in {scan[p]} : list = copy[p]
      BY <1>2 DEF BalancerTypeOK
    <2>2. here \in [next : Nat \ {0}, best : Nat \ {0}, bestCount : Nat \cup {-1}]
      BY <1>2, <2>1 DEF BalancerTypeOK
    <2>3. here.next \in 1..Len(list) /\ at[p] = "scan" /\ at' = at /\ copy' = copy
          /\ connections' = connections
      BY <1>7, <2>1, <2>2 DEF Scan
    <2>4. \A i \in 1..Len(list) : connections[list[i]] \in Nat
      BY <1>2 DEF BalancerTypeOK
    <2>5. PICK n \in Nat : n = connections[list[here.next]]
      BY <2>3, <2>4
    <2>6. scan'[p] = IF here.bestCount < 0 \/ n < here.bestCount
                       THEN [next |-> here.next + 1, best |-> here.next, bestCount |-> n]
                       ELSE [here EXCEPT !.next = @ + 1]
      BY <1>2, <1>7, <2>1, <2>5 DEF BalancerTypeOK, Scan
    <2>7. /\ here.bestCount = -1 => here.next = 1
          /\ here.bestCount # -1 =>
               \A i \in 1..Len(list) : i < here.next => here.bestCount <= connections[list[i]]
      BY <1>2, <2>1, <2>3 DEF LookedAt
    <2>8. PICK new : new = scan'[p]
      OBVIOUS
    <2>9. new.bestCount \in Nat /\ new.next = here.next + 1 /\ new.bestCount <= n
          /\ (here.bestCount # -1 => new.bestCount <= here.bestCount)
      BY <2>2, <2>3, <2>5, <2>6, <2>8
    <2>10. ASSUME NEW i \in 1..Len(list), i < new.next PROVE new.bestCount <= connections[list[i]]
      <3>1. i = here.next \/ i < here.next
        BY <2>2, <2>9, <2>10
      <3>2. CASE i = here.next
        BY <2>5, <2>9, <3>2
      <3>3. CASE i < here.next
        BY <2>2, <2>4, <2>7, <2>9, <3>3
      <3> QED BY <3>1, <3>2, <3>3
    <2>11. LookedAt(p)'
      BY <2>1, <2>3, <2>8, <2>9, <2>10 DEF LookedAt
    <2> QED BY <1>2, <1>3, <1>4, <1>7, <2>11 DEF BalancerTypeOK, Scan
  <1>8. ASSUME NEW p \in Pickers, PickBest(p) PROVE \A q \in Pickers : LookedAt(q)'
    <2>1. /\ at' = [at EXCEPT ![p] = "picked"] /\ picked' = [picked EXCEPT ![p] = copy[p][scan[p].best]]
          /\ UNCHANGED <<copy, scan, connections>>
      BY <1>8 DEF PickBest, Picks
    <2>2. scan[p].next > Len(copy[p]) /\ Len(copy[p]) >= 1
      BY <1>2, <1>8 DEF BalancerTypeOK, InFlight, InFlightAt, PickBest
    <2>3. LookedAt(p) /\ at[p] = "scan"
      BY <1>2, <1>8 DEF PickBest
    <2>4. scan[p].bestCount # -1
      BY <2>2, <2>3 DEF LookedAt
    <2>5. at'[p] = "picked" /\ picked'[p] = copy[p][scan[p].best]
      BY <1>2, <2>1 DEF BalancerTypeOK
    <2>6. LookedAt(p)'
      BY <2>1, <2>2, <2>3, <2>4, <2>5 DEF LookedAt
    <2> QED BY <1>2, <1>3, <1>4, <2>1, <2>6 DEF BalancerTypeOK
  <1>9. ASSUME NEW p \in Pickers, Connect(p) PROVE \A q \in Pickers : LookedAt(q)'
    <2>1. LookedAt(p)'
      BY <1>2, <1>9 DEF BalancerTypeOK, Connect, LookedAt
    <2>2. \A s \in Servers : connections'[s] >= connections[s] /\ connections'[s] \in Nat
      <3>1. connections \in [Servers -> Nat]
        BY <1>2 DEF BalancerTypeOK
      <3>2. \/ connections' = connections
            \/ connections' = [connections EXCEPT ![picked[p]] = @ + 1]
        BY <1>9 DEF Connect
      <3> QED BY <3>1, <3>2
    <2> QED BY <1>2, <1>3, <1>9, <2>1, <2>2 DEF BalancerTypeOK, Connect
  <1>10. CASE UNCHANGED balancerVars
    BY <1>2, <1>10 DEF balancerVars, LookedAt
  <1> QED BY <1>1, <1>5, <1>6, <1>7, <1>8, <1>9, <1>10, OnlyPickers

\* Threats are pickers, finitely many.
LEMMA ThreatsCount ==
  ASSUME NEW s, NEW c
  PROVE  /\ IsFiniteSet(Threats(s, c))
         /\ Cardinality(Threats(s, c)) \in Nat /\ Cardinality(Pickers) \in Nat
         /\ Cardinality(Threats(s, c)) <= Cardinality(Pickers)
  <1>1. Threats(s, c) \in SUBSET Pickers
    BY DEF Threats
  <1> QED BY <1>1, BalancerAssumption, FS_Subset, FS_CardinalityType

\* The same after a step.
LEMMA ThreatsCountNext ==
  ASSUME NEW s, NEW c
  PROVE  /\ IsFiniteSet(Threats(s, c)') /\ Cardinality(Threats(s, c)') \in Nat
         /\ Cardinality(Threats(s, c)') <= Cardinality(Pickers)
  <1>1. Threats(s, c)' \in SUBSET Pickers
    BY DEF Threats
  <1> QED BY <1>1, BalancerAssumption, FS_Subset, FS_CardinalityType

\* Every step keeps Level.  A picker that takes s for the best with at most c
\* connections read a counter of s that was no higher; one that opens its
\* connection to s was counted before, for it has looked at t as well.
LEMMA LevelKept ==
  ASSUME BalancerInv, [BalancerNext]_balancerVars
  PROVE  Level'
  <1>1. SUFFICES ASSUME Undisturbed', NEW s \in Servers, NEW t \in Servers, NEW c \in Nat,
                        open'[t] <= c
                 PROVE  open'[s] + Cardinality(Threats(s, c)') <= c + Cardinality(Pickers)
    BY DEF Level
  <1>2. Undisturbed /\ BalancerTypeOK /\ InFlight /\ Looked /\ Level /\ AllUp /\ Reported
    BY <1>1, OnlyPickers DEF BalancerInv
  <1>3. PICK N, k, l \in Nat : /\ N = Cardinality(Pickers) /\ k = Cardinality(Threats(s, c))
                               /\ l = Cardinality(Threats(s, c)')
    BY ThreatsCount, ThreatsCountNext
  <1>4. open[s] \in Nat /\ open[t] \in Nat /\ k <= N /\ l <= N
    BY <1>2, <1>3, ThreatsCount, ThreatsCountNext DEF BalancerTypeOK
  <1>5. open[t] <= c => open[s] + k <= c + N
    BY <1>2, <1>3 DEF Level
  <1>6. ASSUME open' = open, Threats(s, c)' \subseteq Threats(s, c)
        PROVE  open'[s] + l <= c + N
    <2>1. l <= k
      BY <1>3, <1>6, ThreatsCount, FS_Subset
    <2> QED BY <1>1, <1>4, <1>5, <1>6, <2>1
  <1>7. ASSUME open' = open, open[s] <= c PROVE open'[s] + l <= c + N
    BY <1>4, <1>7
  <1>8. ASSUME NEW p \in Pickers, Call(p) \/ Copy(p) \/ PickBest(p) PROVE open'[s] + l <= c + N
    <2>1. open' = open
      BY <1>8 DEF Call, Copy, PickBest
    <2>2. ASSUME NEW q \in Threats(s, c)' PROVE q \in Threats(s, c)
      <3>1. /\ q \in Pickers /\ at'[q] \in {"scan", "picked"} /\ scan'[q].bestCount \in 0..c
            /\ copy'[q][scan'[q].best] = s
        BY <2>2 DEF Threats
      <3>2. CASE Call(p)
        BY <1>2, <3>1, <3>2 DEF BalancerTypeOK, Call, Threats
      <3>3. CASE Copy(p)
        <4>1. scan'[p].bestCount = -1
          BY <1>2, <3>3 DEF BalancerTypeOK, Copy, NoScan
        <4>2. q # p
          BY <3>1, <4>1
        <4> QED BY <1>2, <3>1, <3>3, <4>2 DEF BalancerTypeOK, Copy, Threats
      <3>4. CASE PickBest(p)
        BY <1>2, <3>1, <3>4 DEF BalancerTypeOK, PickBest, Picks, Threats
      <3> QED BY <1>8, <3>2, <3>3, <3>4
    <2> QED BY <1>6, <2>1, <2>2
  <1>9. ASSUME NEW p \in Pickers, Scan(p) PROVE open'[s] + l <= c + N
    <2>1. open' = open /\ at' = at /\ copy' = copy /\ at[p] = "scan"
          /\ \A q \in Pickers \ {p} : scan'[q] = scan[q]
      BY <1>2, <1>9 DEF BalancerTypeOK, Scan
    <2>2. PICK list \in Seq(Servers), here \in {scan[p]} : list = copy[p]
      BY <1>2 DEF BalancerTypeOK
    <2>3. here \in [next : Nat \ {0}, best : Nat \ {0}, bestCount : Nat \cup {-1}]
      BY <1>2, <2>2 DEF BalancerTypeOK
    <2>4. here.next \in 1..Len(list)
      BY <1>9, <2>2, <2>3 DEF Scan
    <2>5. PICK n \in Nat : n = connections[list[here.next]]
      <3>1. list[here.next] \in Servers
        BY <2>4
      <3> QED BY <1>2, <3>1 DEF BalancerTypeOK
    <2>6. scan'[p] = IF here.bestCount < 0 \/ n < here.bestCount
                       THEN [next |-> here.next + 1, best |-> here.next, bestCount |-> n]
                       ELSE [here EXCEPT !.next = @ + 1]
      BY <1>2, <1>9, <2>2, <2>5 DEF BalancerTypeOK, Scan
    <2>7. CASE p \notin Threats(s, c)'
      <3>1. Threats(s, c)' \subseteq Threats(s, c)
        BY <2>1, <2>7 DEF Threats
      <3> QED BY <1>6, <2>1, <3>1
    <2>8. CASE p \in Threats(s, c)'
      <3>1. scan'[p].bestCount \in 0..c /\ list[scan'[p].best] = s
        BY <2>1, <2>2, <2>8 DEF Threats
      <3>2. CASE here.bestCount < 0 \/ n < here.bestCount
        <4>1. n <= c /\ list[here.next] = s
          BY <2>3, <2>5, <2>6, <3>1, <3>2
        <4>2. open[s] <= c
          BY <1>2, <2>5, <4>1 DEF Undisturbed, Reported
        <4> QED BY <1>7, <2>1, <4>2
      <3>3. CASE ~(here.bestCount < 0 \/ n < here.bestCount)
        <4>1. here.bestCount \in 0..c /\ list[here.best] = s
          BY <2>3, <2>6, <3>1, <3>3
        <4>2. Threats(s, c)' \subseteq Threats(s, c)
          BY <2>1, <2>2, <4>1 DEF Threats
        <4> QED BY <1>6, <2>1, <4>2
      <3> QED BY <3>2, <3>3
    <2> QED BY <2>7, <2>8
  <1>10. ASSUME NEW p \in Pickers, Connect(p) PROVE open'[s] + l <= c + N
    <2>1. at[p] = "picked" /\ picked[p] \in Servers
      <3>1. at[p] = "picked" /\ copy[p] \in Seq(Servers) /\ picked[p] \in ToSet(copy[p])
        BY <1>2, <1>10 DEF BalancerTypeOK, InFlight, InFlightAt, Connect
      <3> QED BY <3>1, InSeq
    <2>2. open' = [open EXCEPT ![picked[p]] = @ + 1]
      BY <1>2, <1>10 DEF Undisturbed, Connect
    <2>3. open[t] <= c
      BY <1>1, <1>2, <1>4, <2>1, <2>2 DEF BalancerTypeOK
    <2>4. Threats(s, c)' \subseteq Threats(s, c) \ {p}
      BY <1>2, <1>10 DEF BalancerTypeOK, Connect, Threats
    <2>5. CASE picked[p] # s
      <3>1. open'[s] = open[s]
        BY <1>2, <2>1, <2>2, <2>5 DEF BalancerTypeOK
      <3>2. l <= k
        BY <1>3, <2>4, ThreatsCount, FS_Subset
      <3> QED BY <1>4, <1>5, <2>3, <3>1, <3>2
    <2>6. CASE picked[p] = s
      <3>1. open'[s] = open[s] + 1
        BY <1>2, <2>1, <2>2, <2>6 DEF BalancerTypeOK
      <3>2. PICK list \in Seq(Servers), here \in {scan[p]} : list = copy[p]
        BY <1>2 DEF BalancerTypeOK
      <3>3. here \in [next : Nat \ {0}, best : Nat \ {0}, bestCount : Nat \cup {-1}]
        BY <1>2, <3>2 DEF BalancerTypeOK
      <3>4. /\ here.bestCount # -1 /\ here.next > Len(list) /\ list[here.best] = s
            /\ \A i \in 1..Len(list) : i < here.next => here.bestCount <= connections[list[i]]
        BY <1>2, <2>1, <2>6, <3>2 DEF Looked, LookedAt
      <3>5. PICK i \in 1..Len(list) : list[i] = t
        BY <1>2, <2>1, <3>2 DEF Undisturbed, AllUp, ToSet
      <3>6. connections[list[i]] = open[t]
        BY <1>2, <3>5 DEF Undisturbed, Reported
      <3>7. here.bestCount <= open[t]
        BY <3>3, <3>4, <3>5, <3>6
      <3>8. here.bestCount \in 0..c
        BY <1>4, <2>3, <3>3, <3>4, <3>7
      <3>9. p \in Threats(s, c)
        BY <2>1, <3>2, <3>4, <3>8 DEF Threats
      <3>10. /\ IsFiniteSet(Threats(s, c) \ {p})
             /\ Cardinality(Threats(s, c) \ {p}) = k - 1
        BY <1>3, <3>9, ThreatsCount, FS_RemoveElement
      <3>11. l <= k - 1
        BY <1>3, <2>4, <3>10, FS_Subset
      <3> QED BY <1>4, <1>5, <2>3, <3>1, <3>11
    <2> QED BY <2>5, <2>6
  <1>11. ASSUME UNCHANGED balancerVars PROVE open'[s] + l <= c + N
    <2>1. open' = open /\ Threats(s, c)' = Threats(s, c)
      BY <1>11 DEF balancerVars, Threats
    <2> QED BY <1>6, <2>1
  <1>12. open'[s] + l <= c + N
    BY <1>1, <1>8, <1>9, <1>10, <1>11, OnlyPickers
  <1> QED BY <1>3, <1>12

-----------------------------------------------------------------------------

\* Every step keeps the invariant, so it holds throughout.
LEMMA BalancerKept ==
  BalancerInv /\ [BalancerNext]_balancerVars => BalancerInv'
  BY BalancerTypesKept, OutOfServiceKept, InFlightKept, SharesKept, ReportedKept, AllUpKept,
     LookedKept, LevelKept DEF BalancerInv

\* The invariant holds in every state.
LEMMA BalancerInvariant == BalancerSpec => []BalancerInv
  <1>1. BalancerInit => BalancerInv
    BY BalancerInitial
  <1> QED BY <1>1, BalancerKept, PTL DEF BalancerSpec

(***************************************************************************)
(* The state of the balancers is well typed: a registered identifier stays *)
(* unique, a PickServer that has got its copy never indexes outside it     *)
(* (RoundRobin's list[idx % len], Weighted's running difference,           *)
(* LeastConnections' best), and a counter never goes below zero.           *)
(***************************************************************************)
THEOREM BalancerTypes == BalancerSpec => []BalancerTypeOK
  <1>1. BalancerInv => BalancerTypeOK
    BY DEF BalancerInv
  <1> QED BY <1>1, BalancerInvariant, PTL

(***************************************************************************)
(* RoundRobin and Weighted share out the picks exactly, for every set of   *)
(* servers, all weights and any number of concurrent PickServer calls.     *)
(***************************************************************************)
THEOREM BalancerFairShare == BalancerSpec => []FairShare
  <1>1. ASSUME BalancerInv PROVE FairShare
    <2>1. SUFFICES ASSUME algorithm \in {"round_robin", "weighted"},
                          NEW s \in ToSet(getHealthyServers)
                   PROVE  LET W == ShareUpTo(getHealthyServers, Len(getHealthyServers))
                              n == current - since
                          IN  /\ picks[s] >= (n \div W) * ShareOf(s)
                              /\ picks[s] >= (n \div W) * ShareOf(s) + (n % W) - (W - ShareOf(s))
                              /\ picks[s] <= (n \div W) * ShareOf(s) + ShareOf(s)
                              /\ picks[s] <= (n \div W) * ShareOf(s) + (n % W)
      BY DEF FairShare, ShareOf, ShareUpTo
    <2>2. PICK list : list = getHealthyServers
      OBVIOUS
    <2>3. list \in Seq(Servers)
      BY <1>1, <2>2, ListTypes DEF BalancerInv
    <2>4. PICK i \in 1..Len(list) : s = list[i]
      BY <2>2, <2>3 DEF ToSet
    <2>5. PICK lo, w, W : /\ lo = ShareUpTo(list, i - 1)
                          /\ w = ShareOf(s) /\ W = ShareUpTo(list, Len(list))
      OBVIOUS
    <2>6. lo \in Nat /\ w \in Nat \ {0} /\ W \in Nat \ {0} /\ lo + w <= W
      BY <2>3, <2>4, <2>5, PartOf
    <2>7. PICK b, n \in Nat : b = since /\ n = current - since /\ current = b + n
      BY <1>1 DEF BalancerInv, BalancerTypeOK
    <2>8. PICK k : k = Hits(b + n, lo, w, W) - Hits(b, lo, w, W)
      OBVIOUS
    <2>9. picks[s] = k
      BY <1>1, <2>1, <2>2, <2>4, <2>5, <2>7, <2>8 DEF BalancerInv, Shares
    <2>10. /\ k >= (n \div W) * w
           /\ k >= (n \div W) * w + (n % W) - (W - w)
           /\ k <= (n \div W) * w + w
           /\ k <= (n \div W) * w + (n % W)
      BY <2>6, <2>8, HitsShare, Zenon
    <2> QED BY <2>2, <2>5, <2>7, <2>9, <2>10
  <1> QED BY <1>1, BalancerInvariant, PTL

(***************************************************************************)
(* PickServer never returns a server that was removed or unhealthy all     *)
(* through the call, whichever algorithm picks.                            *)
(***************************************************************************)
THEOREM BalancerAvoidsDown == BalancerSpec => []AvoidsDown
  <1>1. BalancerInv => AvoidsDown
    BY DEF BalancerInv, InFlight, InFlightAt, AvoidsDown
  <1> QED BY <1>1, BalancerInvariant, PTL

(***************************************************************************)
(* LeastConnections keeps the servers level to within one connection for   *)
(* every goroutine that may pick, although each reads the counters one by  *)
(* one while the others change them.                                       *)
(***************************************************************************)
THEOREM BalancerSpreadBounded == BalancerSpec => []SpreadBounded
  <1>1. ASSUME BalancerInv PROVE SpreadBounded
    <2>1. SUFFICES ASSUME Undisturbed, NEW s \in Servers, NEW t \in Servers
                   PROVE  open[s] <= open[t] + Cardinality(Pickers)
      BY DEF SpreadBounded, Undisturbed
    <2>2. open[s] \in Nat /\ open[t] \in Nat
      BY <1>1 DEF BalancerInv, BalancerTypeOK
    <2>3. open[s] + Cardinality(Threats(s, open[t])) <= open[t] + Cardinality(Pickers)
      BY <1>1, <2>1, <2>2 DEF BalancerInv, Level
    <2> QED BY <2>2, <2>3, ThreatsCount
  <1> QED BY <1>1, BalancerInvariant, PTL
=============================================================================
