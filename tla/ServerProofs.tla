---------------------------- MODULE ServerProofs ----------------------------
(***************************************************************************)
(* Proofs about the server, for every number of handlers, identifiers,     *)
(* requests and restarts, and every limit on the requests of a connection. *)
(*                                                                         *)
(* ServerInv is inductive.  Its heart is a debt: a connection in the table *)
(* that is over its limit by n has n handlers on their way to close it, so *)
(* nobody forgets it; and once it is out of the table only the handlers    *)
(* that hold it already can count on it, each once.                        *)
(***************************************************************************)
EXTENDS Server, TLAPS, FiniteSetTheorems

IdlePCs == {"idle", "entered", "closing"}
OpenPCs == {"lookup", "create", "count", "check", "process"}
ClosingPCs == {"check", "process", "rejected", "done", "closing"}
HoldingPCs == {"count", "check", "process", "rejected", "done"}

\* The requests that have no outcome yet.
Unanswered == {h \in Handlers : pc[h] \in OpenPCs}

\* The identifiers that have a connection.
Connected == {i \in ConnIDs : table[i] # 0}

\* The handlers that are on their way to close i.
Closers(i) == {h \in Handlers : id[h] = i /\ close[h] = TRUE /\ pc[h] \in ClosingPCs}

\* The handlers that are about to count a request on o.
CountersOf(o) == {h \in Handlers : conn[h] = o /\ pc[h] = "count"}

\* The wait group counts the requests in progress.
GroupExact == wg = Cardinality(Pending)

\* A handler has a connection exactly while it holds one.
Located ==
  \A h \in Handlers : conn[h] # 0 <=> pc[h] \in HoldingPCs

\* An object serves one identifier.
Owned ==
  /\ \A i, j \in ConnIDs : table[i] # 0 /\ table[i] = table[j] => i = j
  /\ \A h \in Handlers, i \in ConnIDs : conn[h] # 0 /\ table[i] = conn[h] => i = id[h]

\* What a connection in the table is over its limit is owed by its closers.
Owed ==
  \A i \in ConnIDs :
    table[i] # 0 => count[table[i]] <= MaxRequests - 1 + Cardinality(Closers(i))

\* Whatever becomes of a connection, only its holders can count on it.
Capped ==
  \A o \in Objects :
    count[o] + Cardinality(CountersOf(o)) <= MaxRequests - 1 + Cardinality(Handlers)

\* Since the counter was found at zero, nobody has entered.
Drained ==
  /\ stopper = "returned" => waiter = "finished"
  /\ ~running /\ waiter \in {"released", "finished"} => Pending \cup Entered \subseteq late

ServerInv ==
  /\ TypeOK /\ GroupExact /\ RequestLedger
  /\ IsFiniteSet(Connected) /\ ConnectionLedger
  /\ Located /\ Owned /\ Owed /\ Capped /\ Drained

-----------------------------------------------------------------------------

One(b) == IF b THEN 1 ELSE 0

StatRecords == [total : Nat, success : Nat, limited : Nat, active : Nat,
                opened : Nat, closed : Nat]

\* One more in a counter of Stats.
LEMMA StatsUp ==
  ASSUME NEW s \in StatRecords
  PROVE  /\ s.total \in Nat /\ s.success \in Nat /\ s.limited \in Nat
         /\ s.active \in Nat /\ s.opened \in Nat /\ s.closed \in Nat
         /\ [s EXCEPT !.total = s.total + 1] \in StatRecords
         /\ [s EXCEPT !.success = s.success + 1] \in StatRecords
         /\ [s EXCEPT !.limited = s.limited + 1] \in StatRecords
  BY DEF StatRecords

\* A connection more, and one less.
LEMMA StatsOpen ==
  ASSUME NEW s \in StatRecords, NEW t,
         t = [s EXCEPT !.opened = s.opened + 1, !.active = s.active + 1]
  PROVE  /\ t \in StatRecords
         /\ t.opened = s.opened + 1 /\ t.active = s.active + 1 /\ t.closed = s.closed
         /\ t.total = s.total /\ t.success = s.success /\ t.limited = s.limited
  <1>1. s.active \in Nat /\ s.opened \in Nat /\ s.closed \in Nat
    BY StatsUp
  <1>2. s.active + 1 \in Nat /\ s.opened + 1 \in Nat
    BY <1>1
  <1> QED BY <1>2 DEF StatRecords

LEMMA StatsClose ==
  ASSUME NEW s \in StatRecords, s.active >= 1, NEW t,
         t = [s EXCEPT !.active = s.active - 1, !.closed = s.closed + 1]
  PROVE  /\ t \in StatRecords
         /\ t.opened = s.opened /\ t.active = s.active - 1 /\ t.closed = s.closed + 1
         /\ t.total = s.total /\ t.success = s.success /\ t.limited = s.limited
  <1>1. s.active \in Nat /\ s.opened \in Nat /\ s.closed \in Nat
    BY StatsUp
  <1>2. s.active - 1 \in Nat /\ s.closed + 1 \in Nat
    BY <1>1
  <1> QED BY <1>2 DEF StatRecords

LEMMA SubsetCount ==
  ASSUME NEW A \in SUBSET Handlers
  PROVE  /\ IsFiniteSet(A) /\ Cardinality(A) \in Nat /\ Cardinality(Handlers) \in Nat
         /\ Cardinality(A) <= Cardinality(Handlers)
  BY ServerAssumption, FS_Subset, FS_CardinalityType

\* Two sets that differ in h at most.
LEMMA SetMove ==
  ASSUME NEW A \in SUBSET Handlers, NEW B \in SUBSET Handlers, NEW h,
         A \ {h} = B \ {h}
  PROVE  Cardinality(B) = Cardinality(A) + One(h \in B) - One(h \in A)
  <1>1. /\ IsFiniteSet(A) /\ Cardinality(A) \in Nat
        /\ IsFiniteSet(B) /\ Cardinality(B) \in Nat
    BY SubsetCount
  <1>2. Cardinality(A \ {h}) = IF h \in A THEN Cardinality(A) - 1 ELSE Cardinality(A)
    BY <1>1, FS_RemoveElement
  <1>3. Cardinality(B \ {h}) = IF h \in B THEN Cardinality(B) - 1 ELSE Cardinality(B)
    BY <1>1, FS_RemoveElement
  <1>4. Cardinality(A \ {h}) = Cardinality(B \ {h})
    OBVIOUS
  <1> QED BY <1>1, <1>2, <1>3, <1>4 DEF One

\* Two sets that share nothing.
LEMMA Apart ==
  ASSUME NEW A \in SUBSET Handlers, NEW B \in SUBSET Handlers, A \cap B = {}
  PROVE  Cardinality(A) + Cardinality(B) <= Cardinality(Handlers)
  <1>1. IsFiniteSet(A) /\ IsFiniteSet(B) /\ A \cup B \in SUBSET Handlers
    BY SubsetCount
  <1>2. Cardinality(A \cup B) = Cardinality(A) + Cardinality(B) - Cardinality(A \cap B)
    BY <1>1, FS_Union
  <1>3. Cardinality(A \cap B) = 0
    BY FS_EmptySet
  <1> QED BY <1>1, <1>2, <1>3, SubsetCount

LEMMA Sets ==
  /\ Pending \in SUBSET Handlers /\ Unanswered \in SUBSET Handlers
  /\ Entered \in SUBSET Handlers
  /\ \A i : Closers(i) \in SUBSET Handlers
  /\ \A o : CountersOf(o) \in SUBSET Handlers
  BY DEF Pending, Unanswered, Entered, Closers, CountersOf

LEMMA SetsNext ==
  /\ Pending' \in SUBSET Handlers /\ Unanswered' \in SUBSET Handlers
  /\ Entered' \in SUBSET Handlers
  /\ \A i : Closers(i)' \in SUBSET Handlers
  /\ \A o : CountersOf(o)' \in SUBSET Handlers
  BY DEF Pending, Unanswered, Entered, Closers, CountersOf

LEMMA Counted ==
  /\ Cardinality(Pending) \in Nat /\ Cardinality(Unanswered) \in Nat
  /\ Cardinality(Pending)' \in Nat /\ Cardinality(Unanswered)' \in Nat
  /\ Cardinality(Pending)' <= Cardinality(Handlers)
  /\ Cardinality(Handlers) \in Nat
  BY Sets, SetsNext, SubsetCount

\* The ledger of requests, with a name for those without an outcome.
LEMMA LedgerForm ==
  ASSUME pc \in [Handlers -> PCs]
  PROVE  RequestLedger <=> stats.total = stats.success + stats.limited + failed
                                         + Cardinality(Unanswered)
  <1>1. Unanswered = {h \in Pending : pc[h] \notin {"rejected", "done"}}
    BY DEF Unanswered, Pending, PCs, OpenPCs
  <1> QED BY <1>1 DEF RequestLedger

LEMMA LedgerFormNext ==
  ASSUME pc' \in [Handlers -> PCs]
  PROVE  RequestLedger' <=> stats'.total = stats'.success + stats'.limited + failed'
                                           + Cardinality(Unanswered)'
  <1>1. Unanswered' = {h \in Pending' : pc'[h] \notin {"rejected", "done"}}
    BY DEF Unanswered, Pending, PCs, OpenPCs
  <1> QED BY <1>1 DEF RequestLedger

\* A handler moves on.
LEMMA Moved ==
  ASSUME TypeOK, NEW h \in Handlers, NEW where \in PCs, Goto(h, where)
  PROVE  /\ pc' \in [Handlers -> PCs]
         /\ pc'[h] = where
         /\ \A g \in Handlers \ {h} : pc'[g] = pc[g]
         /\ Cardinality(Pending)' = Cardinality(Pending)
              + One(where \notin IdlePCs) - One(pc[h] \notin IdlePCs)
         /\ Cardinality(Unanswered)' = Cardinality(Unanswered)
              + One(where \in OpenPCs) - One(pc[h] \in OpenPCs)
  <1>1. /\ pc' \in [Handlers -> PCs]
        /\ pc'[h] = where
        /\ \A g \in Handlers \ {h} : pc'[g] = pc[g]
    BY DEF Goto, TypeOK
  <1>2. /\ Pending \ {h} = Pending' \ {h} /\ Unanswered \ {h} = Unanswered' \ {h}
        /\ h \in Pending <=> pc[h] \notin IdlePCs
        /\ h \in Pending' <=> where \notin IdlePCs
        /\ h \in Unanswered <=> pc[h] \in OpenPCs
        /\ h \in Unanswered' <=> where \in OpenPCs
    BY <1>1 DEF Pending, Unanswered, IdlePCs
  <1>3. Cardinality(Pending') = Cardinality(Pending) + One(h \in Pending') - One(h \in Pending)
    BY <1>2, Sets, SetsNext, SetMove
  <1>4. Cardinality(Unanswered') = Cardinality(Unanswered)
          + One(h \in Unanswered') - One(h \in Unanswered)
    BY <1>2, Sets, SetsNext, SetMove
  <1> QED BY <1>1, <1>2, <1>3, <1>4 DEF One

\* A step that moves nobody out of rest keeps what Stop relies on.
LEMMA DrainedFrame ==
  ASSUME Drained, UNCHANGED <<running, waiter, stopper, late>>,
         \A g \in Handlers : pc'[g] \notin {"idle", "closing"} => pc[g] \notin {"idle", "closing"}
  PROVE  Drained'
  <1>1. Pending' \cup Entered' \subseteq Pending \cup Entered
    BY DEF Pending, Entered
  <1> QED BY <1>1 DEF Drained

\* The steps of Start and Stop leave the requests and the connections alone.
LEMMA LifeFrame ==
  ASSUME ServerInv,
         UNCHANGED <<wg, table, count, stats, pc, id, conn, close, calls, failed>>
  PROVE  /\ GroupExact' /\ RequestLedger' /\ IsFiniteSet(Connected)' /\ ConnectionLedger'
         /\ Located' /\ Owned' /\ Owed' /\ Capped'
  <1>1. GroupExact' /\ RequestLedger'
    BY DEF ServerInv, GroupExact, RequestLedger, Pending
  <1>2. IsFiniteSet(Connected)' /\ ConnectionLedger'
    BY DEF ServerInv, Connected, ConnectionLedger
  <1>3. Located' /\ Owned'
    BY DEF ServerInv, Located, Owned
  <1>4. Owed' /\ Capped'
    BY DEF ServerInv, Owed, Capped, Closers, CountersOf, Objects
  <1> QED BY <1>1, <1>2, <1>3, <1>4

\* The steps of a handler that touch no connection.
LEMMA QuietFrame ==
  ASSUME ServerInv, NEW h \in Handlers, NEW where \in PCs, Goto(h, where),
         UNCHANGED <<table, count, id, conn, close>>,
         pc[h] \in ClosingPCs <=> where \in ClosingPCs,
         pc[h] \in HoldingPCs <=> where \in HoldingPCs,
         pc[h] # "count", where # "count"
  PROVE  IsFiniteSet(Connected)' /\ Located' /\ Owned' /\ Owed' /\ Capped'
  <1>0. TypeOK
    BY DEF ServerInv
  <1>1. pc'[h] = where /\ \A g \in Handlers \ {h} : pc'[g] = pc[g]
    BY <1>0, Moved
  <1>2. Located' /\ Owned'
    BY <1>1 DEF ServerInv, Located, Owned
  <1>3. \A i : Closers(i)' = Closers(i)
    BY <1>1 DEF Closers
  <1>4. \A o : CountersOf(o)' = CountersOf(o)
    BY <1>1 DEF CountersOf
  <1>5. Owed' /\ Capped'
    BY <1>3, <1>4 DEF ServerInv, Owed, Capped, Objects
  <1>6. IsFiniteSet(Connected)'
    BY DEF ServerInv, Connected
  <1> QED BY <1>2, <1>5, <1>6

LEMMA ConnectionFrame ==
  ASSUME ConnectionLedger, table' = table, stats'.active = stats.active,
         stats'.opened = stats.opened, stats'.closed = stats.closed
  PROVE  ConnectionLedger'
  BY DEF ConnectionLedger

-----------------------------------------------------------------------------
\* Start and Stop.

LEMMA StartKeeps == ASSUME ServerInv, Start PROVE ServerInv'
  <1>1. /\ running' = TRUE /\ starts' = starts + 1 /\ starts < MaxStarts
        /\ UNCHANGED <<wg, waiter, stopper, late, table, count, stats, pc, id, conn, close,
                       calls, failed>>
    BY DEF Start, tableVars, handlerVars
  <1>2. TypeOK'
    BY <1>1, ServerAssumption DEF ServerInv, TypeOK
  <1>3. Drained'
    BY <1>1 DEF ServerInv, Drained
  <1> QED BY <1>1, <1>2, <1>3, LifeFrame DEF ServerInv

LEMMA StopKeeps == ASSUME ServerInv, Stop PROVE ServerInv'
  <1>1. /\ running' = FALSE /\ stopper' = "waiting" /\ waiter' = "flagged"
        /\ UNCHANGED <<wg, starts, late, table, count, stats, pc, id, conn, close,
                       calls, failed>>
    BY DEF Stop, tableVars, handlerVars
  <1>2. TypeOK'
    BY <1>1 DEF ServerInv, TypeOK
  <1>3. Drained'
    BY <1>1 DEF Drained
  <1> QED BY <1>1, <1>2, <1>3, LifeFrame DEF ServerInv

LEMMA WaitKeeps == ASSUME ServerInv, Wait PROVE ServerInv'
  <1>1. /\ waiter = "flagged"
        /\ waiter' = IF wg = 0 THEN "finished" ELSE "parked"
        /\ late' = IF wg = 0 THEN Entered ELSE late
        /\ UNCHANGED <<running, wg, stopper, starts, table, count, stats, pc, id, conn, close,
                       calls, failed>>
    BY DEF Wait, tableVars, handlerVars
  <1>2. TypeOK'
    BY <1>1, Sets DEF ServerInv, TypeOK
  <1>3. Drained'
    <2>1. stopper # "returned"
      BY <1>1 DEF ServerInv, Drained
    <2>2. Pending' = Pending /\ Entered' = Entered
      BY <1>1 DEF Pending, Entered
    <2>3. CASE wg = 0
      <3>1. Pending = {}
        BY <2>3, Sets, SubsetCount, FS_EmptySet DEF ServerInv, GroupExact
      <3> QED BY <1>1, <2>1, <2>2, <2>3, <3>1 DEF Drained
    <2>4. CASE wg # 0
      BY <1>1, <2>1, <2>4 DEF Drained
    <2> QED BY <2>3, <2>4
  <1> QED BY <1>1, <1>2, <1>3, LifeFrame DEF ServerInv

LEMMA WakeKeeps == ASSUME ServerInv, Wake PROVE ServerInv'
  <1>1. /\ waiter = "released"
        /\ waiter' = IF wg = 0 THEN "finished" ELSE "panicked"
        /\ UNCHANGED <<running, wg, stopper, starts, late, table, count, stats, pc, id, conn,
                       close, calls, failed>>
    BY DEF Wake, tableVars, handlerVars
  <1>2. TypeOK'
    BY <1>1 DEF ServerInv, TypeOK
  <1>3. Drained'
    <2>1. Pending' = Pending /\ Entered' = Entered
      BY <1>1 DEF Pending, Entered
    <2> QED BY <1>1, <2>1 DEF ServerInv, Drained
  <1> QED BY <1>1, <1>2, <1>3, LifeFrame DEF ServerInv

LEMMA StopEndsKeeps == ASSUME ServerInv, StopReturns \/ StopTimesOut PROVE ServerInv'
  <1>1. /\ \/ stopper' = "timedout"
           \/ stopper' = "returned" /\ waiter = "finished"
        /\ UNCHANGED <<running, wg, waiter, starts, late, table, count, stats, pc, id, conn,
                       close, calls, failed>>
    BY DEF StopReturns, StopTimesOut, tableVars, handlerVars
  <1>2. TypeOK'
    BY <1>1 DEF ServerInv, TypeOK
  <1>3. Drained'
    <2>1. Pending' = Pending /\ Entered' = Entered
      BY <1>1 DEF Pending, Entered
    <2> QED BY <1>1, <2>1 DEF ServerInv, Drained
  <1> QED BY <1>1, <1>2, <1>3, LifeFrame DEF ServerInv

-----------------------------------------------------------------------------
\* The steps of a request that touch no connection.

LEMMA HandleRequestKeeps ==
  ASSUME ServerInv, NEW h \in Handlers, NEW i \in ConnIDs, HandleRequest(h, i)
  PROVE  ServerInv'
  <1>1. /\ pc[h] = "idle" /\ Goto(h, "entered") /\ "entered" \in PCs /\ running
        /\ id' = [id EXCEPT ![h] = i] /\ calls' = calls + 1 /\ calls < MaxCalls
        /\ UNCHANGED <<running, wg, waiter, stopper, starts, late, table, count, stats, conn,
                       close, failed>>
    BY DEF HandleRequest, At, PCs, lifeVars, tableVars
  <1>2. TypeOK
    BY DEF ServerInv
  <1>3. /\ pc' \in [Handlers -> PCs] /\ pc'[h] = "entered"
        /\ \A g \in Handlers \ {h} : pc'[g] = pc[g]
        /\ Cardinality(Pending)' = Cardinality(Pending)
        /\ Cardinality(Unanswered)' = Cardinality(Unanswered)
    BY <1>1, <1>2, Moved, Counted DEF One, IdlePCs, OpenPCs
  <1>4. id' \in [Handlers -> ConnIDs] /\ id'[h] = i /\ \A g \in Handlers \ {h} : id'[g] = id[g]
    BY <1>1, <1>2 DEF TypeOK
  <1>5. TypeOK'
    <2>1. calls' \in 0..MaxCalls
      BY <1>1, <1>2, ServerAssumption DEF TypeOK
    <2> QED BY <1>1, <1>2, <1>3, <1>4, <2>1 DEF TypeOK
  <1>6. GroupExact' /\ RequestLedger'
    BY <1>1, <1>2, <1>3, LedgerForm, LedgerFormNext DEF ServerInv, TypeOK, GroupExact
  <1>7. IsFiniteSet(Connected)' /\ ConnectionLedger'
    BY <1>1 DEF ServerInv, Connected, ConnectionLedger
  <1>8. Located' /\ Owned'
    BY <1>1, <1>3, <1>4 DEF ServerInv, Located, Owned, HoldingPCs
  <1>9. Owed' /\ Capped'
    <2>1. \A j : Closers(j)' = Closers(j)
      BY <1>1, <1>3, <1>4 DEF Closers, ClosingPCs
    <2>2. \A o : CountersOf(o)' = CountersOf(o)
      BY <1>1, <1>3 DEF CountersOf
    <2> QED BY <1>1, <2>1, <2>2 DEF ServerInv, Owed, Capped, Objects
  <1>10. Drained'
    BY <1>1 DEF ServerInv, Drained
  <1> QED BY <1>5, <1>6, <1>7, <1>8, <1>9, <1>10 DEF ServerInv

LEMMA BeginKeeps ==
  ASSUME ServerInv, NEW h \in Handlers, Begin(h)
  PROVE  ServerInv'
  <1>1. /\ pc[h] = "entered" /\ Goto(h, "lookup") /\ "lookup" \in PCs
        /\ wg' = wg + 1 /\ stats' = [stats EXCEPT !.total = stats.total + 1]
        /\ UNCHANGED <<running, waiter, stopper, starts, late, table, count, id, conn,
                       close, calls, failed>>
    BY DEF Begin, At, PCs, tableVars
  <1>2. TypeOK
    BY DEF ServerInv
  <1>3. /\ pc' \in [Handlers -> PCs] /\ pc'[h] = "lookup"
        /\ \A g \in Handlers \ {h} : pc'[g] = pc[g]
        /\ Cardinality(Pending)' = Cardinality(Pending) + 1
        /\ Cardinality(Unanswered)' = Cardinality(Unanswered) + 1
    BY <1>1, <1>2, Moved, Counted DEF One, IdlePCs, OpenPCs
  <1>4. /\ stats'.total = stats.total + 1 /\ stats'.success = stats.success
        /\ stats'.limited = stats.limited /\ stats'.active = stats.active
        /\ stats'.opened = stats.opened /\ stats'.closed = stats.closed
        /\ stats' \in StatRecords
    <2>1. stats \in StatRecords
      BY <1>2 DEF TypeOK, StatRecords
    <2>2. stats' \in StatRecords
      BY <1>1, <2>1, StatsUp
    <2> QED BY <1>1, <2>1, <2>2 DEF StatRecords
  <1>5. GroupExact'
    BY <1>1, <1>3, Counted DEF ServerInv, GroupExact
  <1>6. RequestLedger'
    <2>1. stats.total = stats.success + stats.limited + failed + Cardinality(Unanswered)
      BY <1>2, LedgerForm DEF ServerInv, TypeOK
    <2>2. stats.total \in Nat /\ stats.success \in Nat /\ stats.limited \in Nat /\ failed \in Nat
      BY <1>2 DEF TypeOK
    <2>3. stats'.total = stats'.success + stats'.limited + failed' + Cardinality(Unanswered)'
      BY <1>1, <1>3, <1>4, <2>1, <2>2, Counted
    <2> QED BY <1>3, <2>3, LedgerFormNext
  <1>7. TypeOK'
    <2>1. wg' \in 0..Cardinality(Handlers)
      BY <1>5, Counted DEF GroupExact
    <2> QED BY <1>1, <1>2, <1>3, <1>4, <2>1 DEF TypeOK, StatRecords
  <1>8. IsFiniteSet(Connected)' /\ Located' /\ Owned' /\ Owed' /\ Capped'
    BY <1>1, QuietFrame DEF ClosingPCs, HoldingPCs
  <1>9. ConnectionLedger'
    BY <1>1, <1>4, ConnectionFrame DEF ServerInv
  <1>10. Drained'
    BY <1>1, <1>3, DrainedFrame DEF ServerInv
  <1> QED BY <1>5, <1>6, <1>7, <1>8, <1>9, <1>10 DEF ServerInv

\* A request gets its outcome, or goes on from the rate limiter to the
\* processing.
LEMMA OutcomeKeeps ==
  ASSUME ServerInv, NEW h \in Handlers, Check(h) \/ Process(h)
  PROVE  ServerInv'
  <1>1. PICK where \in {"process", "rejected", "done"} :
           /\ pc[h] \in {"check", "process"} /\ Goto(h, where)
           /\ \/ where = "process" /\ stats' = stats /\ failed' = failed
              \/ where = "done" /\ stats' = stats /\ failed' = failed + 1
              \/ /\ where = "rejected" /\ failed' = failed
                 /\ stats' = [stats EXCEPT !.limited = stats.limited + 1]
              \/ /\ where = "done" /\ failed' = failed
                 /\ stats' = [stats EXCEPT !.success = stats.success + 1]
           /\ UNCHANGED <<running, wg, waiter, stopper, starts, late, table, count, id, conn,
                          close, calls>>
    BY DEF Check, Process, At, lifeVars, tableVars
  <1>2. TypeOK /\ where \in PCs
    BY DEF ServerInv, PCs
  <1>3. /\ pc' \in [Handlers -> PCs] /\ pc'[h] = where
        /\ \A g \in Handlers \ {h} : pc'[g] = pc[g]
        /\ Cardinality(Pending)' = Cardinality(Pending)
        /\ where = "process" => Cardinality(Unanswered)' = Cardinality(Unanswered)
        /\ where # "process" => Cardinality(Unanswered)' = Cardinality(Unanswered) - 1
    BY <1>1, <1>2, Moved, Counted DEF One, IdlePCs, OpenPCs
  <1>4. /\ stats'.total = stats.total /\ stats'.active = stats.active
        /\ stats'.opened = stats.opened /\ stats'.closed = stats.closed
        /\ stats' \in StatRecords
        /\ failed' \in Nat
        /\ stats'.success + stats'.limited + failed' = stats.success + stats.limited + failed
             + One(where # "process")
    <2>1. stats \in StatRecords /\ failed \in Nat
      BY <1>2 DEF TypeOK, StatRecords
    <2>2. stats' \in StatRecords /\ failed' \in Nat
      <3>1. \/ stats' = stats
            \/ stats' = [stats EXCEPT !.limited = stats.limited + 1]
            \/ stats' = [stats EXCEPT !.success = stats.success + 1]
        BY <1>1
      <3>2. stats' \in StatRecords
        BY <2>1, <3>1, StatsUp
      <3>3. failed' = failed \/ failed' = failed + 1
        BY <1>1
      <3>4. failed' \in Nat
        BY <2>1, <3>3
      <3> QED BY <3>2, <3>4
    <2>3. /\ stats'.total = stats.total /\ stats'.active = stats.active
          /\ stats'.opened = stats.opened /\ stats'.closed = stats.closed
      BY <1>1, <2>1 DEF StatRecords
    <2>4. \/ /\ where = "process" /\ stats'.success = stats.success
             /\ stats'.limited = stats.limited /\ failed' = failed
          \/ /\ where = "done" /\ stats'.success = stats.success
             /\ stats'.limited = stats.limited /\ failed' = failed + 1
          \/ /\ where = "rejected" /\ stats'.success = stats.success
             /\ stats'.limited = stats.limited + 1 /\ failed' = failed
          \/ /\ where = "done" /\ stats'.success = stats.success + 1
             /\ stats'.limited = stats.limited /\ failed' = failed
      BY <1>1, <2>1 DEF StatRecords
    <2>5. stats.success \in Nat /\ stats.limited \in Nat
      BY <2>1, StatsUp
    <2> QED BY <2>1, <2>2, <2>3, <2>4, <2>5 DEF One
  <1>5. GroupExact'
    BY <1>1, <1>3 DEF ServerInv, GroupExact
  <1>6. RequestLedger'
    <2>1. stats.total = stats.success + stats.limited + failed + Cardinality(Unanswered)
      BY <1>2, LedgerForm DEF ServerInv, TypeOK
    <2>2. /\ stats.total \in Nat /\ stats.success \in Nat /\ stats.limited \in Nat
          /\ failed \in Nat
      BY <1>2 DEF TypeOK
    <2>3. stats'.total = stats'.success + stats'.limited + failed' + Cardinality(Unanswered)'
      BY <1>3, <1>4, <2>1, <2>2, Counted DEF One
    <2> QED BY <1>3, <2>3, LedgerFormNext
  <1>7. TypeOK'
    BY <1>1, <1>2, <1>3, <1>4 DEF TypeOK, StatRecords
  <1>8. IsFiniteSet(Connected)' /\ Located' /\ Owned' /\ Owed' /\ Capped'
    BY <1>1, <1>2, QuietFrame DEF ClosingPCs, HoldingPCs
  <1>9. ConnectionLedger'
    BY <1>1, <1>4, ConnectionFrame DEF ServerInv
  <1>10. Drained'
    BY <1>1, <1>3, DrainedFrame DEF ServerInv
  <1> QED BY <1>5, <1>6, <1>7, <1>8, <1>9, <1>10 DEF ServerInv

-----------------------------------------------------------------------------
\* The steps of a request that get a connection, count on it and return.

\* The closers of a connection and those about to count on it are different
\* handlers, so that what the ones owe bounds what the others may add.
LEMMA Debt ==
  ASSUME NEW n \in Nat, NEW A \in SUBSET Handlers, NEW B \in SUBSET Handlers,
         A \cap B = {}, n <= MaxRequests - 1 + Cardinality(A)
  PROVE  n + Cardinality(B) <= MaxRequests - 1 + Cardinality(Handlers)
  <1>1. Cardinality(A) + Cardinality(B) <= Cardinality(Handlers)
    BY Apart
  <1>2. Cardinality(A) \in Nat /\ Cardinality(B) \in Nat /\ Cardinality(Handlers) \in Nat
    BY SubsetCount
  <1> QED BY <1>1, <1>2, ServerAssumption

LEMMA ApartNext ==
  \A i, o : Closers(i)' \cap CountersOf(o)' = {}
  BY DEF Closers, CountersOf, ClosingPCs

\* A handler finds the connection of its identifier in the table.
LEMMA ObtainKeeps ==
  ASSUME ServerInv, NEW h \in Handlers, pc[h] \in {"lookup", "create"},
         table[id[h]] # 0, conn' = [conn EXCEPT ![h] = table[id[h]]], Goto(h, "count"),
         UNCHANGED <<running, wg, waiter, stopper, starts, late, table, count, stats, id,
                     close, calls, failed>>
  PROVE  ServerInv'
  <1>0. PICK found : found = table[id[h]]
    OBVIOUS
  <1>1. TypeOK /\ "count" \in PCs
    BY DEF ServerInv, PCs
  <1>2. /\ pc' \in [Handlers -> PCs] /\ pc'[h] = "count"
        /\ \A g \in Handlers \ {h} : pc'[g] = pc[g]
        /\ Cardinality(Pending)' = Cardinality(Pending)
        /\ Cardinality(Unanswered)' = Cardinality(Unanswered)
    BY <1>1, Moved, Counted DEF One, IdlePCs, OpenPCs
  <1>3. /\ id[h] \in ConnIDs /\ found \in 1..stats.opened /\ stats.opened \in Nat
        /\ found \in Objects /\ Objects = 1..stats.opened
    BY <1>1, <1>0 DEF TypeOK, Objects
  <1>4. /\ conn' \in [Handlers -> 0..stats.opened] /\ conn'[h] = found
        /\ \A g \in Handlers \ {h} : conn'[g] = conn[g]
    BY <1>1, <1>3, <1>0 DEF TypeOK
  <1>5. found # 0 /\ \A i \in ConnIDs : table[i] = found => i = id[h]
    BY <1>3, <1>0 DEF ServerInv, Owned
  <1>6. TypeOK'
    BY <1>1, <1>2, <1>4 DEF TypeOK
  <1>7. GroupExact' /\ RequestLedger'
    BY <1>1, <1>2, LedgerForm, LedgerFormNext DEF ServerInv, TypeOK, GroupExact
  <1>8. IsFiniteSet(Connected)' /\ ConnectionLedger'
    BY DEF ServerInv, Connected, ConnectionLedger
  <1>9. Located' /\ Owned'
    BY <1>2, <1>4, <1>5 DEF ServerInv, Located, Owned, HoldingPCs
  <1>10. \A i : Closers(i)' = Closers(i)
    BY <1>2 DEF Closers, ClosingPCs
  <1>11. Owed'
    BY <1>10 DEF ServerInv, Owed
  <1>12. Capped'
    <2>1. \A o \in Objects : o # found => CountersOf(o)' = CountersOf(o)
      BY <1>2, <1>4 DEF CountersOf
    <2>2. count[found] \in Nat
      BY <1>1, <1>3 DEF TypeOK
    <2>3. count[found] <= MaxRequests - 1 + Cardinality(Closers(id[h]))
      BY <1>3, <1>5, <1>0 DEF ServerInv, Owed
    <2>4. Closers(id[h]) \cap CountersOf(found)' = {}
      <3>1. Closers(id[h])' \cap CountersOf(found)' = {}
        BY ApartNext
      <3> QED BY <1>10, <3>1
    <2>5. count[found] + Cardinality(CountersOf(found)') <= MaxRequests - 1 + Cardinality(Handlers)
      BY <2>2, <2>3, <2>4, Debt, Sets, SetsNext
    <2>6. ASSUME NEW o \in Objects
          PROVE  count[o] + Cardinality(CountersOf(o)') <= MaxRequests - 1 + Cardinality(Handlers)
      <3>1. CASE o = found
        BY <2>5, <3>1
      <3>2. CASE o # found
        BY <2>1, <3>2 DEF ServerInv, Capped
      <3> QED BY <3>1, <3>2
    <2> QED BY <2>6 DEF Capped, Objects
  <1>13. Drained'
    BY <1>2, DrainedFrame DEF ServerInv
  <1> QED BY <1>6, <1>7, <1>8, <1>9, <1>11, <1>12, <1>13 DEF ServerInv

LEMMA LookupKeeps ==
  ASSUME ServerInv, NEW h \in Handlers, Lookup(h)
  PROVE  ServerInv'
  <1>1. /\ pc[h] = "lookup" /\ Goto(h, IF table[id[h]] = 0 THEN "create" ELSE "count")
        /\ conn' = [conn EXCEPT ![h] = table[id[h]]]
        /\ UNCHANGED <<running, wg, waiter, stopper, starts, late, table, count, stats, id,
                       close, calls, failed>>
    BY DEF Lookup, At, lifeVars, tableVars
  <1>2. CASE table[id[h]] # 0
    BY <1>1, <1>2, ObtainKeeps
  <1>3. CASE table[id[h]] = 0
    <2>1. TypeOK /\ "create" \in PCs /\ Goto(h, "create")
      BY <1>1, <1>3 DEF ServerInv, PCs
    <2>2. conn' = conn
      <3>1. conn[h] = 0
        BY <1>1 DEF ServerInv, Located, HoldingPCs
      <3> QED BY <1>1, <1>3, <2>1, <3>1 DEF TypeOK
    <2>3. /\ pc' \in [Handlers -> PCs] /\ pc'[h] = "create"
          /\ \A g \in Handlers \ {h} : pc'[g] = pc[g]
          /\ Cardinality(Pending)' = Cardinality(Pending)
          /\ Cardinality(Unanswered)' = Cardinality(Unanswered)
      BY <1>1, <2>1, Moved, Counted DEF One, IdlePCs, OpenPCs
    <2>4. TypeOK'
      BY <1>1, <2>1, <2>2, <2>3 DEF TypeOK
    <2>5. GroupExact' /\ RequestLedger'
      BY <1>1, <2>1, <2>3, LedgerForm, LedgerFormNext DEF ServerInv, TypeOK, GroupExact
    <2>6. IsFiniteSet(Connected)' /\ Located' /\ Owned' /\ Owed' /\ Capped'
      BY <1>1, <2>1, <2>2, QuietFrame DEF ClosingPCs, HoldingPCs
    <2>7. ConnectionLedger'
      BY <1>1 DEF ServerInv, ConnectionLedger
    <2>8. Drained'
      BY <1>1, <2>3, DrainedFrame DEF ServerInv
    <2> QED BY <2>4, <2>5, <2>6, <2>7, <2>8 DEF ServerInv
  <1> QED BY <1>2, <1>3

LEMMA CreateKeeps ==
  ASSUME ServerInv, NEW h \in Handlers, Create(h)
  PROVE  ServerInv'
  <1>0. PICK new, i : new = stats.opened + 1 /\ i = id[h]
    OBVIOUS
  <1>1. /\ pc[h] = "create" /\ Goto(h, "count")
        /\ \/ /\ table[i] # 0
              /\ conn' = [conn EXCEPT ![h] = table[i]]
              /\ UNCHANGED <<table, count, stats>>
           \/ /\ table[i] = 0
              /\ table' = [table EXCEPT ![i] = new]
              /\ count' = [o \in 1..new |-> IF o = new THEN 0 ELSE count[o]]
              /\ stats' = [stats EXCEPT !.opened = new, !.active = stats.active + 1]
              /\ conn' = [conn EXCEPT ![h] = new]
        /\ UNCHANGED <<running, wg, waiter, stopper, starts, late, id, close, calls, failed>>
    BY <1>0 DEF Create, At, lifeVars, tableVars
  <1>2. CASE table[i] # 0
    BY <1>0, <1>1, <1>2, ObtainKeeps
  <1>3. CASE table[i] = 0
    <2>1. /\ table' = [table EXCEPT ![i] = new]
          /\ count' = [o \in 1..new |-> IF o = new THEN 0 ELSE count[o]]
          /\ stats' = [stats EXCEPT !.opened = new, !.active = stats.active + 1]
          /\ conn' = [conn EXCEPT ![h] = new]
      BY <1>1, <1>3
    <2>2. TypeOK /\ "count" \in PCs
      BY DEF ServerInv, PCs
    <2>3. stats \in StatRecords /\ i \in ConnIDs
      BY <1>0, <2>2 DEF TypeOK, StatRecords
    <2>4. /\ stats' \in StatRecords /\ stats'.opened = new /\ stats'.active = stats.active + 1
          /\ stats'.total = stats.total /\ stats'.success = stats.success
          /\ stats'.limited = stats.limited /\ stats'.closed = stats.closed
          /\ stats.opened \in Nat /\ stats.active \in Nat /\ stats.closed \in Nat
          /\ new \in Nat /\ new > stats.opened
      <3>1. /\ stats' \in StatRecords /\ stats'.opened = stats.opened + 1
            /\ stats'.active = stats.active + 1
            /\ stats'.total = stats.total /\ stats'.success = stats.success
            /\ stats'.limited = stats.limited /\ stats'.closed = stats.closed
        BY <1>0, <2>1, <2>3, StatsOpen
      <3>2. stats.opened \in Nat /\ stats.active \in Nat /\ stats.closed \in Nat
        BY <2>3, StatsUp
      <3> QED BY <1>0, <3>1, <3>2
    <2>5. /\ pc' \in [Handlers -> PCs] /\ pc'[h] = "count"
          /\ \A g \in Handlers \ {h} : pc'[g] = pc[g]
          /\ Cardinality(Pending)' = Cardinality(Pending)
          /\ Cardinality(Unanswered)' = Cardinality(Unanswered)
      BY <1>1, <2>2, Moved, Counted DEF One, IdlePCs, OpenPCs
    <2>6. /\ table' \in [ConnIDs -> 0..new] /\ table'[i] = new
          /\ \A j \in ConnIDs \ {i} : table'[j] = table[j]
          /\ \A j \in ConnIDs : table[j] \in 0..stats.opened /\ table[j] < new
      BY <2>1, <2>2, <2>3, <2>4, <1>0 DEF TypeOK
    <2>7. /\ conn' \in [Handlers -> 0..new] /\ conn'[h] = new
          /\ \A g \in Handlers \ {h} : conn'[g] = conn[g]
          /\ \A g \in Handlers : conn[g] \in 0..stats.opened /\ conn[g] < new
      BY <2>1, <2>2, <2>4, <1>0 DEF TypeOK
    <2>8. /\ count' \in [1..new -> Nat] /\ count'[new] = 0 /\ new \in 1..new
          /\ \A o \in 1..new : o # new => o \in 1..stats.opened /\ count'[o] = count[o]
      BY <2>1, <2>2, <2>4, <1>0 DEF TypeOK
    <2>9. Objects = 1..stats.opened /\ Objects' = 1..new
      BY <2>2, <2>8 DEF TypeOK, Objects
    <2>10. TypeOK'
      BY <1>1, <2>2, <2>4, <2>5, <2>6, <2>7, <2>8 DEF TypeOK, StatRecords
    <2>11. GroupExact' /\ RequestLedger'
      BY <1>1, <2>2, <2>4, <2>5, LedgerForm, LedgerFormNext DEF ServerInv, TypeOK, GroupExact
    <2>12. IsFiniteSet(Connected)' /\ ConnectionLedger'
      <3>1. Connected' = Connected \cup {i} /\ i \notin Connected
        BY <1>3, <2>3, <2>4, <2>6 DEF Connected
      <3>2. /\ IsFiniteSet(Connected \cup {i})
            /\ Cardinality(Connected \cup {i}) = Cardinality(Connected) + 1
        BY <3>1, FS_AddElement DEF ServerInv
      <3>3. stats.active = Cardinality(Connected) /\ stats.opened = stats.active + stats.closed
        BY DEF ServerInv, ConnectionLedger, Connected
      <3>4. stats'.active = Cardinality(Connected') /\ stats'.opened = stats'.active + stats'.closed
        BY <2>4, <1>0, <3>1, <3>2, <3>3
      <3> QED BY <3>1, <3>2, <3>4 DEF ConnectionLedger, Connected
    <2>13. Located'
      BY <2>4, <2>5, <2>7 DEF ServerInv, Located, HoldingPCs
    <2>14. Owned'
      <3>1. \A j, k \in ConnIDs : table'[j] # 0 /\ table'[j] = table'[k] => j = k
        BY <2>4, <2>6 DEF ServerInv, Owned
      <3>2. \A g \in Handlers, j \in ConnIDs : conn'[g] # 0 /\ table'[j] = conn'[g] => j = id[g]
        BY <2>4, <1>0, <2>6, <2>7 DEF ServerInv, Owned
      <3> QED BY <1>1, <3>1, <3>2 DEF Owned
    <2>15. \A j : Closers(j)' = Closers(j)
      BY <1>1, <2>5 DEF Closers, ClosingPCs
    <2>16. Owed'
      <3>1. ASSUME NEW j \in ConnIDs, table'[j] # 0
            PROVE  count'[table'[j]] <= MaxRequests - 1 + Cardinality(Closers(j))
        <4>1. CASE j = i
          BY <2>6, <2>8, <4>1, Sets, SubsetCount, ServerAssumption
        <4>2. CASE j # i
          <5>1. table'[j] = table[j] /\ table[j] \in 1..new /\ table[j] # new /\ table[j] # 0
            BY <2>4, <2>6, <3>1, <4>2
          <5>2. count'[table'[j]] = count[table[j]]
            BY <2>8, <5>1
          <5> QED BY <5>1, <5>2 DEF ServerInv, Owed
        <4> QED BY <4>1, <4>2
      <3> QED BY <2>15, <3>1 DEF Owed
    <2>17. Capped'
      <3>1. ASSUME NEW o \in 1..new
            PROVE  count'[o] + Cardinality(CountersOf(o)') <= MaxRequests - 1 + Cardinality(Handlers)
        <4>1. CASE o = new
          <5>1. count'[o] = 0 /\ 0 <= MaxRequests - 1 + Cardinality(Closers(i)')
            BY <2>8, <4>1, SetsNext, SubsetCount, ServerAssumption
          <5>2. Closers(i)' \cap CountersOf(o)' = {}
            BY ApartNext
          <5> QED BY <5>1, <5>2, Debt, SetsNext
        <4>2. CASE o # new
          <5>1. o \in Objects /\ count'[o] = count[o]
            BY <2>8, <2>9, <4>2
          <5>2. CountersOf(o)' = CountersOf(o)
            BY <1>1, <2>5, <2>7, <4>2 DEF CountersOf
          <5> QED BY <5>1, <5>2 DEF ServerInv, Capped
        <4> QED BY <4>1, <4>2
      <3> QED BY <2>9, <3>1 DEF Capped
    <2>18. Drained'
      BY <1>1, <2>5, DrainedFrame DEF ServerInv
    <2> QED BY <2>10, <2>11, <2>12, <2>13, <2>14, <2>16, <2>17, <2>18 DEF ServerInv
  <1> QED BY <1>2, <1>3

LEMMA CountKeeps ==
  ASSUME ServerInv, NEW h \in Handlers, Count(h)
  PROVE  ServerInv'
  <1>0. PICK o, n, i : o = conn[h] /\ n = count[o] + 1 /\ i = id[h]
    OBVIOUS
  <1>1. PICK where \in {"check", "process"} :
          /\ pc[h] = "count" /\ Goto(h, where)
          /\ count' = [count EXCEPT ![o] = n]
          /\ close' = [close EXCEPT ![h] = (n >= MaxRequests)]
          /\ UNCHANGED <<running, wg, waiter, stopper, starts, late, table, stats, id, conn,
                         calls, failed>>
    BY <1>0 DEF Count, At, ByRateLimitKey, Worn, lifeVars
  <1>2. TypeOK /\ where \in PCs
    BY DEF ServerInv, PCs
  <1>3. /\ pc' \in [Handlers -> PCs] /\ pc'[h] = where
        /\ \A g \in Handlers \ {h} : pc'[g] = pc[g]
        /\ Cardinality(Pending)' = Cardinality(Pending)
        /\ Cardinality(Unanswered)' = Cardinality(Unanswered)
    BY <1>1, <1>2, Moved, Counted DEF One, IdlePCs, OpenPCs
  <1>4. o # 0
    BY <1>0, <1>1 DEF ServerInv, Located, HoldingPCs
  <1>5. /\ stats.opened \in Nat /\ o \in 1..stats.opened /\ count[o] \in Nat /\ n \in Nat
        /\ Objects = 1..stats.opened /\ o \in Objects
    BY <1>0, <1>2, <1>4 DEF TypeOK, Objects
  <1>6. /\ count' \in [1..stats.opened -> Nat] /\ count'[o] = n
        /\ \A p \in 1..stats.opened : p # o => count'[p] = count[p]
        /\ Objects' = Objects
    BY <1>1, <1>2, <1>5 DEF TypeOK, Objects
  <1>7. /\ close' \in [Handlers -> BOOLEAN]
        /\ close'[h] = (n >= MaxRequests)
        /\ \A g \in Handlers \ {h} : close'[g] = close[g]
    BY <1>1, <1>2 DEF TypeOK
  <1>8. TypeOK'
    BY <1>1, <1>2, <1>3, <1>6, <1>7 DEF TypeOK
  <1>9. GroupExact' /\ RequestLedger'
    BY <1>1, <1>2, <1>3, LedgerForm, LedgerFormNext DEF ServerInv, TypeOK, GroupExact
  <1>10. IsFiniteSet(Connected)' /\ ConnectionLedger'
    BY <1>1 DEF ServerInv, Connected, ConnectionLedger
  <1>11. Located' /\ Owned'
    BY <1>1, <1>3 DEF ServerInv, Located, Owned, HoldingPCs
  \* The handler joins the closers when the request is one too many.
  <1>12. /\ \A j : Closers(j) \subseteq Closers(j)'
         /\ h \notin Closers(i)
         /\ n >= MaxRequests => Closers(i)' = Closers(i) \cup {h}
    <2>1. \A j : h \notin Closers(j)
      BY <1>1 DEF Closers, ClosingPCs
    <2>2. \A j : \A g \in Handlers \ {h} : g \in Closers(j)' <=> g \in Closers(j)
      BY <1>1, <1>3, <1>7 DEF Closers
    <2>3. n >= MaxRequests => h \in Closers(i)'
      <3>1. n >= MaxRequests => close'[h] = TRUE
        BY <1>7
      <3> QED BY <1>0, <1>1, <1>3, <3>1 DEF Closers, ClosingPCs
    <2> QED BY <2>1, <2>2, <2>3, Sets, SetsNext
  <1>13. Owed'
    <2>1. ASSUME NEW j \in ConnIDs, table[j] # 0
          PROVE  count'[table[j]] <= MaxRequests - 1 + Cardinality(Closers(j)')
      <3>1. /\ Cardinality(Closers(j)) \in Nat /\ Cardinality(Closers(j)') \in Nat
            /\ IsFiniteSet(Closers(j)) /\ IsFiniteSet(Closers(j)')
            /\ Cardinality(Closers(j)) <= Cardinality(Closers(j)')
        BY <1>12, Sets, SetsNext, SubsetCount, FS_Subset
      <3>2. count[table[j]] <= MaxRequests - 1 + Cardinality(Closers(j))
        BY <2>1 DEF ServerInv, Owed
      <3>3. table[j] \in 1..stats.opened /\ count[table[j]] \in Nat
        BY <1>2, <1>5, <2>1 DEF TypeOK
      <3>4. CASE table[j] # o
        <4>1. count'[table[j]] = count[table[j]]
          BY <1>6, <3>3, <3>4
        <4> QED BY <3>1, <3>2, <3>3, <4>1, ServerAssumption
      <3>5. CASE table[j] = o /\ n < MaxRequests
        <4>1. count'[table[j]] = n
          BY <1>6, <3>5
        <4> QED BY <1>5, <3>1, <3>5, <4>1, ServerAssumption
      <3>6. CASE table[j] = o /\ n >= MaxRequests
        <4>1. j = i /\ count'[table[j]] = n /\ n = count[table[j]] + 1
          BY <1>4, <1>0, <1>6, <3>6 DEF ServerInv, Owned
        <4>2. Cardinality(Closers(j)') = Cardinality(Closers(j)) + 1
          BY <1>12, <3>1, <3>6, <4>1, FS_AddElement
        <4> QED BY <3>1, <3>2, <3>3, <4>1, <4>2, ServerAssumption
      <3> QED BY <1>5, <3>4, <3>5, <3>6, ServerAssumption
    <2> QED BY <1>1, <2>1 DEF Owed
  <1>14. Capped'
    <2>1. ASSUME NEW p \in Objects
          PROVE  count'[p] + Cardinality(CountersOf(p)') <= MaxRequests - 1 + Cardinality(Handlers)
      <3>1. count[p] + Cardinality(CountersOf(p)) <= MaxRequests - 1 + Cardinality(Handlers)
        BY DEF ServerInv, Capped
      <3>2. /\ Cardinality(CountersOf(p)) \in Nat /\ IsFiniteSet(CountersOf(p))
            /\ Cardinality(Handlers) \in Nat
        BY Sets, SubsetCount
      <3>3. CASE p = o
        <4>1. CountersOf(p)' = CountersOf(p) \ {h} /\ h \in CountersOf(p)
          BY <1>1, <1>3, <1>0, <3>3 DEF CountersOf
        <4>2. Cardinality(CountersOf(p)') = Cardinality(CountersOf(p)) - 1
          BY <3>2, <4>1, FS_RemoveElement
        <4>3. count'[p] = count[p] + 1 /\ count[p] \in Nat
          BY <1>5, <1>0, <1>6, <3>3
        <4> QED BY <3>1, <3>2, <4>2, <4>3, ServerAssumption
      <3>4. CASE p # o
        <4>1. CountersOf(p)' = CountersOf(p)
          BY <1>1, <1>3, <1>0, <3>4 DEF CountersOf
        <4>2. count'[p] = count[p]
          BY <1>5, <1>6, <3>4
        <4> QED BY <3>1, <4>1, <4>2
      <3> QED BY <3>3, <3>4
    <2> QED BY <1>6, <2>1 DEF Capped
  <1>15. Drained'
    BY <1>1, <1>3, DrainedFrame DEF ServerInv
  <1> QED BY <1>8, <1>9, <1>10, <1>11, <1>13, <1>14, <1>15 DEF ServerInv

LEMMA DoneKeeps ==
  ASSUME ServerInv, NEW h \in Handlers, Done(h)
  PROVE  ServerInv'
  <1> DEFINE last == waiter = "parked" /\ wg' = 0
  <1>1. /\ pc[h] \in {"done", "rejected"}
        /\ wg' = wg - 1
        /\ waiter' = IF last THEN "released" ELSE waiter
        /\ late' = IF last THEN Entered ELSE late
        /\ conn' = [conn EXCEPT ![h] = 0]
        /\ Goto(h, IF close[h] THEN "closing" ELSE "idle")
        /\ UNCHANGED <<running, stopper, starts, table, count, stats, id, close, calls, failed>>
    BY DEF Done, At, tableVars
  <1>2. TypeOK
    BY DEF ServerInv
  <1>3. PICK where \in {"closing", "idle"} :
          Goto(h, where) /\ (where = "closing" <=> close[h] = TRUE)
    <2>1. close[h] \in BOOLEAN
      BY <1>2 DEF TypeOK
    <2>2. CASE close[h] = TRUE
      BY <1>1, <2>2
    <2>3. CASE close[h] = FALSE
      BY <1>1, <2>3
    <2> QED BY <2>1, <2>2, <2>3
  <1>4. /\ pc' \in [Handlers -> PCs] /\ pc'[h] = where
        /\ \A g \in Handlers \ {h} : pc'[g] = pc[g]
        /\ Cardinality(Pending)' = Cardinality(Pending) - 1
        /\ Cardinality(Unanswered)' = Cardinality(Unanswered)
    <2>1. where \in PCs
      BY DEF PCs
    <2> QED BY <1>1, <1>2, <1>3, <2>1, Moved, Counted DEF One, IdlePCs, OpenPCs
  <1>5. /\ conn' \in [Handlers -> 0..stats.opened] /\ conn'[h] = 0
        /\ \A g \in Handlers \ {h} : conn'[g] = conn[g]
    BY <1>1, <1>2 DEF TypeOK
  <1>6. GroupExact'
    BY <1>1, <1>4, Counted DEF ServerInv, GroupExact
  <1>7. RequestLedger'
    BY <1>1, <1>2, <1>4, LedgerForm, LedgerFormNext DEF ServerInv, TypeOK
  <1>8. TypeOK'
    <2>1. wg' \in 0..Cardinality(Handlers)
      BY <1>6, Counted DEF GroupExact
    <2>2. waiter' \in {"none", "flagged", "parked", "released", "finished", "panicked"}
      BY <1>1, <1>2 DEF TypeOK
    <2>3. late' \subseteq Handlers
      BY <1>1, <1>2, Sets DEF TypeOK
    <2> QED BY <1>1, <1>2, <1>4, <1>5, <2>1, <2>2, <2>3 DEF TypeOK
  <1>9. IsFiniteSet(Connected)' /\ ConnectionLedger'
    BY <1>1 DEF ServerInv, Connected, ConnectionLedger
  <1>10. Located' /\ Owned'
    BY <1>1, <1>3, <1>4, <1>5 DEF ServerInv, Located, Owned, HoldingPCs
  <1>11. \A j : Closers(j)' = Closers(j)
    BY <1>1, <1>3, <1>4 DEF Closers, ClosingPCs
  <1>12. \A o \in Objects : CountersOf(o)' = CountersOf(o)
    BY <1>1, <1>3, <1>4, <1>5 DEF CountersOf
  <1>13. Owed' /\ Capped'
    BY <1>1, <1>11, <1>12 DEF ServerInv, Owed, Capped, Objects
  <1>14. Entered' = Entered /\ Pending' \subseteq Pending
    BY <1>1, <1>3, <1>4 DEF Entered, Pending
  <1>15. Drained'
    <2>1. CASE last
      <3>1. Pending' = {}
        BY <1>6, <2>1, SetsNext, SubsetCount, FS_EmptySet DEF GroupExact
      <3>2. stopper # "returned"
        BY <2>1 DEF ServerInv, Drained
      <3> QED BY <1>1, <1>14, <2>1, <3>1, <3>2 DEF Drained
    <2>2. CASE ~last
      BY <1>1, <1>14, <2>2 DEF ServerInv, Drained
    <2> QED BY <2>1, <2>2
  <1> QED BY <1>6, <1>7, <1>8, <1>9, <1>10, <1>13, <1>15 DEF ServerInv

-----------------------------------------------------------------------------
\* The ends of a connection.

LEMMA DisconnectFacts ==
  ASSUME ServerInv, NEW i \in ConnIDs, CloseConnection(i)
  PROVE  /\ stats' \in StatRecords /\ stats'.opened = stats.opened
         /\ stats'.total = stats.total /\ stats'.success = stats.success
         /\ stats'.limited = stats.limited
         /\ table' \in [ConnIDs -> 0..stats.opened] /\ table'[i] = 0
         /\ \A j \in ConnIDs \ {i} : table'[j] = table[j]
         /\ count' = count
         /\ IsFiniteSet(Connected)' /\ ConnectionLedger'
  <1>1. /\ table' = [table EXCEPT ![i] = 0] /\ count' = count
        /\ stats' = IF table[i] = 0 THEN stats
                    ELSE [stats EXCEPT !.active = stats.active - 1, !.closed = stats.closed + 1]
    BY DEF CloseConnection
  <1>2. stats \in StatRecords /\ stats.opened \in Nat /\ table \in [ConnIDs -> 0..stats.opened]
    BY StatsUp DEF ServerInv, TypeOK, StatRecords
  <1>3. /\ table' \in [ConnIDs -> 0..stats.opened] /\ table'[i] = 0
        /\ \A j \in ConnIDs \ {i} : table'[j] = table[j]
    BY <1>1, <1>2
  <1>4. /\ IsFiniteSet(Connected) /\ Cardinality(Connected) \in Nat
        /\ stats.active = Cardinality(Connected)
        /\ stats.opened = stats.active + stats.closed
    BY FS_CardinalityType DEF ServerInv, ConnectionLedger, Connected
  <1>5. Connected' = Connected \ {i} /\ (i \in Connected <=> table[i] # 0)
    BY <1>3 DEF Connected
  <1>6. /\ IsFiniteSet(Connected')
        /\ Cardinality(Connected') = IF table[i] # 0 THEN Cardinality(Connected) - 1
                                     ELSE Cardinality(Connected)
    BY <1>4, <1>5, FS_RemoveElement
  <1>7. CASE table[i] = 0
    <2>1. stats' = stats
      BY <1>1, <1>7
    <2>2. stats'.active = Cardinality(Connected')
      BY <1>4, <1>6, <1>7, <2>1
    <2> QED BY <1>1, <1>2, <1>3, <1>4, <1>6, <2>1, <2>2 DEF ConnectionLedger, Connected
  <1>8. CASE table[i] # 0
    <2>1. stats.active >= 1
      <3>1. Cardinality(Connected) # 0
        BY <1>4, <1>5, <1>8, FS_EmptySet
      <3> QED BY <1>4, <3>1
    <2>2. /\ stats' \in StatRecords
          /\ stats'.opened = stats.opened /\ stats'.active = stats.active - 1
          /\ stats'.closed = stats.closed + 1 /\ stats'.total = stats.total
          /\ stats'.success = stats.success /\ stats'.limited = stats.limited
      BY <1>1, <1>2, <1>8, <2>1, StatsClose
    <2>3. stats'.active = Cardinality(Connected') /\ stats'.opened = stats'.active + stats'.closed
      <3>1. stats.active \in Nat /\ stats.closed \in Nat
        BY <1>2, StatsUp
      <3> QED BY <1>4, <1>6, <1>8, <2>2, <3>1
    <2> QED BY <1>1, <1>3, <1>6, <2>2, <2>3 DEF ConnectionLedger, Connected
  <1> QED BY <1>7, <1>8

LEMMA CloseWornKeeps ==
  ASSUME ServerInv, NEW h \in Handlers, CloseWorn(h)
  PROVE  ServerInv'
  <1>0. PICK i : i = id[h]
    OBVIOUS
  <1>1. /\ pc[h] = "closing" /\ Goto(h, "idle") /\ "idle" \in PCs
        /\ CloseConnection(i)
        /\ close' = [close EXCEPT ![h] = FALSE]
        /\ UNCHANGED <<running, wg, waiter, stopper, starts, late, id, conn, calls, failed>>
    BY <1>0 DEF CloseWorn, At, PCs, lifeVars
  <1>2. TypeOK /\ i \in ConnIDs
    BY <1>0 DEF ServerInv, TypeOK
  <1>3. /\ pc' \in [Handlers -> PCs] /\ pc'[h] = "idle"
        /\ \A g \in Handlers \ {h} : pc'[g] = pc[g]
        /\ Cardinality(Pending)' = Cardinality(Pending)
        /\ Cardinality(Unanswered)' = Cardinality(Unanswered)
    BY <1>1, <1>2, Moved, Counted DEF One, IdlePCs, OpenPCs
  <1>4. /\ stats' \in StatRecords /\ stats'.opened = stats.opened
        /\ stats'.total = stats.total /\ stats'.success = stats.success
        /\ stats'.limited = stats.limited
        /\ table' \in [ConnIDs -> 0..stats.opened] /\ table'[i] = 0
        /\ \A j \in ConnIDs \ {i} : table'[j] = table[j]
        /\ count' = count
        /\ IsFiniteSet(Connected)' /\ ConnectionLedger'
    BY <1>1, <1>2, DisconnectFacts
  <1>5. close' \in [Handlers -> BOOLEAN] /\ \A g \in Handlers \ {h} : close'[g] = close[g]
    BY <1>1, <1>2 DEF TypeOK
  <1>6. TypeOK'
    BY <1>1, <1>2, <1>3, <1>4, <1>5 DEF TypeOK, StatRecords
  <1>7. GroupExact' /\ RequestLedger'
    BY <1>1, <1>2, <1>3, <1>4, LedgerForm, LedgerFormNext DEF ServerInv, TypeOK, GroupExact
  <1>8. Located' /\ Owned'
    <2>1. Located'
      BY <1>1, <1>3 DEF ServerInv, Located, HoldingPCs
    <2>2. Owned'
      BY <1>1, <1>2, <1>4 DEF ServerInv, Owned
    <2> QED BY <2>1, <2>2
  <1>9. Owed'
    <2>1. \A j \in ConnIDs : j # i => Closers(j)' = Closers(j)
      BY <1>1, <1>3, <1>0, <1>5 DEF Closers
    <2> QED BY <1>4, <2>1 DEF ServerInv, Owed
  <1>10. Capped'
    <2>1. \A o : CountersOf(o)' = CountersOf(o)
      BY <1>1, <1>3 DEF CountersOf
    <2> QED BY <1>4, <2>1 DEF ServerInv, Capped, Objects
  <1>11. Drained'
    BY <1>1, <1>3, DrainedFrame DEF ServerInv
  <1> QED BY <1>4, <1>6, <1>7, <1>8, <1>9, <1>10, <1>11 DEF ServerInv

LEMMA ClientClosesKeeps ==
  ASSUME ServerInv, NEW i \in ConnIDs, ClientCloses(i)
  PROVE  ServerInv'
  <1>1. /\ CloseConnection(i)
        /\ UNCHANGED <<running, wg, waiter, stopper, starts, late, pc, id, conn, close, calls,
                       failed>>
    BY DEF ClientCloses, lifeVars, handlerVars
  <1>2. /\ stats' \in StatRecords /\ stats'.opened = stats.opened
        /\ stats'.total = stats.total /\ stats'.success = stats.success
        /\ stats'.limited = stats.limited
        /\ table' \in [ConnIDs -> 0..stats.opened] /\ table'[i] = 0
        /\ \A j \in ConnIDs \ {i} : table'[j] = table[j]
        /\ count' = count
        /\ IsFiniteSet(Connected)' /\ ConnectionLedger'
    BY <1>1, DisconnectFacts
  <1>3. TypeOK'
    BY <1>1, <1>2 DEF ServerInv, TypeOK, StatRecords
  <1>4. GroupExact' /\ RequestLedger'
    BY <1>1, <1>2 DEF ServerInv, GroupExact, RequestLedger, Pending
  <1>5. Located' /\ Owned'
    BY <1>1, <1>2 DEF ServerInv, Located, Owned
  <1>6. Owed' /\ Capped'
    <2>1. \A j : Closers(j)' = Closers(j) /\ CountersOf(j)' = CountersOf(j)
      BY <1>1 DEF Closers, CountersOf
    <2> QED BY <1>2, <2>1 DEF ServerInv, Owed, Capped, Objects
  <1>7. Drained'
    BY <1>1, DrainedFrame DEF ServerInv
  <1> QED BY <1>2, <1>3, <1>4, <1>5, <1>6, <1>7 DEF ServerInv

-----------------------------------------------------------------------------

LEMMA InitServerInv == Init => ServerInv
  <1> SUFFICES ASSUME Init PROVE ServerInv
    OBVIOUS
  <1>1. /\ running = FALSE /\ wg = 0 /\ waiter = "none" /\ stopper = "none"
        /\ table = [i \in ConnIDs |-> 0] /\ count = <<>>
        /\ stats = [total |-> 0, success |-> 0, limited |-> 0, active |-> 0,
                    opened |-> 0, closed |-> 0]
        /\ pc = [h \in Handlers |-> "idle"]
        /\ conn = [h \in Handlers |-> 0] /\ close = [h \in Handlers |-> FALSE]
        /\ calls = 0 /\ starts = 0 /\ failed = 0 /\ late = {}
    BY DEF Init
  <1>2. id \in [Handlers -> ConnIDs]
    <2>1. PICK i \in ConnIDs : id = [h \in Handlers |-> i]
      BY DEF Init
    <2> QED BY <2>1
  <1>3. /\ stats \in StatRecords /\ stats.opened = 0 /\ stats.active = 0 /\ stats.closed = 0
        /\ stats.total = 0 /\ stats.success = 0 /\ stats.limited = 0
    BY <1>1 DEF StatRecords
  <1>4. count \in [1..0 -> Nat] /\ Objects = {}
    <2>1. <<>> \in [1..0 -> Nat]
      BY SMT
    <2>2. DOMAIN <<>> = {}
      OBVIOUS
    <2> QED BY <1>1, <2>1, <2>2 DEF Objects
  <1>5. TypeOK
    <2>1. /\ pc \in [Handlers -> PCs] /\ conn \in [Handlers -> 0..0]
          /\ close \in [Handlers -> BOOLEAN] /\ table \in [ConnIDs -> 0..0]
      BY <1>1 DEF PCs
    <2>2. wg \in 0..Cardinality(Handlers)
      BY <1>1, Counted
    <2>3. calls \in 0..MaxCalls /\ starts \in 0..MaxStarts
      BY <1>1, ServerAssumption
    <2> QED BY <1>1, <1>2, <1>3, <1>4, <2>1, <2>2, <2>3 DEF TypeOK, StatRecords
  <1>6. Pending = {} /\ Unanswered = {} /\ Connected = {}
    BY <1>1 DEF Pending, Unanswered, Connected, OpenPCs
  <1>7. GroupExact
    BY <1>1, <1>6, FS_EmptySet DEF GroupExact
  <1>8. RequestLedger
    <2>1. Cardinality(Unanswered) = 0
      BY <1>6, FS_EmptySet
    <2> QED BY <1>1, <1>3, <1>5, <2>1, LedgerForm DEF TypeOK
  <1>9. IsFiniteSet(Connected) /\ ConnectionLedger
    <2>1. IsFiniteSet(Connected) /\ Cardinality(Connected) = 0
      BY <1>6, FS_EmptySet
    <2> QED BY <1>3, <2>1 DEF ConnectionLedger, Connected
  <1>10. Located /\ Owned /\ Owed /\ Capped
    BY <1>1, <1>4 DEF Located, Owned, Owed, Capped, HoldingPCs
  <1>11. Drained
    BY <1>1 DEF Drained
  <1> QED BY <1>5, <1>7, <1>8, <1>9, <1>10, <1>11 DEF ServerInv

LEMMA NextServerInv == ServerInv /\ [Next]_vars => ServerInv'
  <1> SUFFICES ASSUME ServerInv, [Next]_vars PROVE ServerInv'
    OBVIOUS
  <1>1. ASSUME NEW h \in Handlers, Step(h) PROVE ServerInv'
    BY <1>1, BeginKeeps, LookupKeeps, CreateKeeps, CountKeeps, OutcomeKeeps, DoneKeeps,
       CloseWornKeeps DEF Step
  <1>2. CASE StopReturns \/ StopTimesOut
    BY <1>2, StopEndsKeeps
  <1>3. CASE UNCHANGED vars
    <2>1. /\ UNCHANGED <<running, wg, waiter, stopper, starts, late>>
          /\ UNCHANGED <<wg, table, count, stats, pc, id, conn, close, calls, failed>>
      BY <1>3 DEF vars
    <2>2. TypeOK'
      BY <2>1 DEF ServerInv, TypeOK
    <2>3. Drained'
      BY <2>1, DrainedFrame DEF ServerInv
    <2> QED BY <2>1, <2>2, <2>3, LifeFrame DEF ServerInv
  <1> QED BY <1>1, <1>2, <1>3, HandleRequestKeeps, ClientClosesKeeps, StartKeeps, StopKeeps,
             WaitKeeps, WakeKeeps DEF Next

LEMMA ServerInvariant == Spec => []ServerInv
  BY InitServerInv, NextServerInv, PTL DEF Spec

(***************************************************************************)
(* The counters of the server stay natural numbers (none of the decrements *)
(* of wg and of ActiveConnections goes below zero), and every connection   *)
(* in the table or in a handler's hands has been created.                  *)
(***************************************************************************)
THEOREM ServerTypes == Spec => []TypeOK
  <1>1. ServerInv => TypeOK
    BY DEF ServerInv
  <1> QED BY <1>1, ServerInvariant, PTL

(***************************************************************************)
(* Every request that HandleRequest counts is counted once more, as        *)
(* success, limited or failed, or has not got so far.                      *)
(***************************************************************************)
THEOREM ServerRequestLedger == Spec => []RequestLedger
  <1>1. ServerInv => RequestLedger
    BY DEF ServerInv
  <1> QED BY <1>1, ServerInvariant, PTL

(***************************************************************************)
(* getOrCreateConnection and CloseConnection keep the three counters of    *)
(* connections in step with the table, whoever races.                      *)
(***************************************************************************)
THEOREM ServerConnectionLedger == Spec => []ConnectionLedger
  <1>1. ServerInv => ConnectionLedger
    BY DEF ServerInv
  <1> QED BY <1>1, ServerInvariant, PTL

(***************************************************************************)
(* A connection exceeds max_requests_per_conn by less than the number of   *)
(* handlers, for every limit and number of handlers.                       *)
(***************************************************************************)
THEOREM ServerOverrunBounded == Spec => []OverrunBounded
  <1>1. ServerInv => OverrunBounded
    <2> SUFFICES ASSUME ServerInv, NEW o \in Objects
                 PROVE  count[o] <= MaxRequests + Cardinality(Handlers) - 1
      BY DEF OverrunBounded
    <2>1. count[o] + Cardinality(CountersOf(o)) <= MaxRequests - 1 + Cardinality(Handlers)
      BY DEF ServerInv, Capped
    <2>2. count[o] \in Nat
      BY DEF ServerInv, TypeOK, Objects
    <2>3. Cardinality(CountersOf(o)) \in Nat /\ Cardinality(Handlers) \in Nat
      BY Sets, SubsetCount
    <2> QED BY <2>1, <2>2, <2>3, ServerAssumption
  <1> QED BY <1>1, ServerInvariant, PTL

(***************************************************************************)
(* No connection that has served its requests stays in the table without a *)
(* handler that will close it through the transport.                       *)
(***************************************************************************)
THEOREM ServerWornIsClosed == Spec => []WornIsClosed
  <1>1. ServerInv => WornIsClosed
    <2> SUFFICES ASSUME ServerInv, NEW i \in ConnIDs,
                        table[i] # 0, count[table[i]] >= MaxRequests
                 PROVE  \E h \in Handlers : id[h] = i /\ close[h] /\ pc[h] \in ClosingPCs
      BY DEF WornIsClosed, ClosingPCs
    <2>1. count[table[i]] <= MaxRequests - 1 + Cardinality(Closers(i))
      BY DEF ServerInv, Owed
    <2>2. count[table[i]] \in Nat /\ Cardinality(Closers(i)) \in Nat
      <3>1. stats.opened \in Nat /\ table[i] \in 1..stats.opened /\ count \in [1..stats.opened -> Nat]
        BY DEF ServerInv, TypeOK
      <3> QED BY <3>1, Sets, SubsetCount
    <2>3. Cardinality(Closers(i)) # 0
      BY <2>1, <2>2, ServerAssumption
    <2>4. PICK h : h \in Closers(i)
      BY <2>3, FS_EmptySet
    <2> QED BY <2>4 DEF Closers
  <1> QED BY <1>1, ServerInvariant, PTL

(***************************************************************************)
(* What a Stop without error leaves behind was past the check of s.running *)
(* and before wg.Add when the wait group was found empty.                  *)
(***************************************************************************)
THEOREM ServerStopDrains == Spec => []StopDrains
  <1>1. ServerInv => StopDrains
    BY DEF ServerInv, Drained, StopDrains
  <1> QED BY <1>1, ServerInvariant, PTL
=============================================================================
