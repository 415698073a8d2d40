---------------------------- MODULE ClientProofs ----------------------------
(***************************************************************************)
(* Proofs about the client and its workers, for every number of workers,   *)
(* connections, requests and switches of the mode.  The inductive          *)
(* invariant is ClientInv.                                                 *)
(***************************************************************************)
EXTENDS Client, TLAPS, FiniteSetTheorems, SequenceTheorems

ConnRecords == [count : Nat, closed : BOOLEAN, served : 0..MaxRequests, stray : BOOLEAN]

-----------------------------------------------------------------------------
(* The inductive invariant. *)

\* Send has a connection.
Busy(w) == pc[w] \in {"transmit", "finish"}

(***************************************************************************)
(* What is in use, kept by a worker, or idle is nowhere else; only its own *)
(* worker may be using what it keeps.                                      *)
(***************************************************************************)
Private ==
  /\ \A v, w \in Workers : conn[v] # 0 /\ conn[v] = conn[w] => v = w
  /\ \A v, w \in Workers : dedicated[v] # 0 /\ dedicated[v] = dedicated[w] => v = w
  /\ \A v, w \in Workers : conn[v] # 0 /\ conn[v] = dedicated[w] => v = w
  /\ \A i, j \in 1..Len(idle) : idle[i] = idle[j] => i = j
  /\ \A i \in 1..Len(idle) : \A w \in Workers : idle[i] # conn[w] /\ idle[i] # dedicated[w]

\* A connection from the pool is nobody's own, and open: Put relies on it.
InHand ==
  \A w \in Workers :
    /\ conn[w] # 0 <=> Busy(w)
    /\ Busy(w) /\ usePool[w] => conn[w] # dedicated[w] /\ ~conns[conn[w]].closed

IdleUsable ==
  \A i \in 1..Len(idle) : ~conns[idle[i]].closed /\ conns[idle[i]].count < MaxRequests

\* A Send inside Get has decided for the pool.
Pooled == \A w \in Workers : pc[w] \in InGet => usePool[w]

\* The workers whose Send has a connection from the pool or the slot for one.
Borrowers == {w \in Workers : (Busy(w) /\ usePool[w]) \/ pc[w] = "pick"}

\* The slots of the pool.  A closed pool takes none back from Put, but a
\* failed pick still gives its own back.
Slots ==
  IF closed THEN total >= Len(idle) + Cardinality(Borrowers)
            ELSE total = Len(idle) + Cardinality(Borrowers)

\* Somebody has, or keeps, connection c.
Placed(c) ==
  \/ \E w \in Workers : conn[w] = c \/ dedicated[w] = c
  \/ \E i \in 1..Len(idle) : idle[i] = c

(***************************************************************************)
(* Send leaves a connection of dedicated mode open only if it is the       *)
(* worker's own or a known stray; and a worker that replaces its own has   *)
(* had it closed by Send, unless Send did not use it.                      *)
(***************************************************************************)
FollowedBy(w) ==
  /\ pc[w] = "start" => dedicated[w] = 0
  /\ Busy(w) => (unused[w] <=> conn[w] # dedicated[w])
  /\ Busy(w) /\ ~usePool[w] /\ sendMode[w] = "dedicated" =>
       conn[w] = dedicated[w] \/ conns[conn[w]].stray
  /\ pc[w] = "replace" /\ ~unused[w] /\ dedicated[w] # 0 => conns[dedicated[w]].served = 0

Followed == \A w \in Workers : FollowedBy(w)

Known == \A c \in Ids : conns[c].served > 0 /\ ~conns[c].stray => Placed(c)

\* Without the dedicated mode nothing goes astray.
NoneAstray ==
  "dedicated" \notin Modes =>
    (\A w \in Workers : dedicated[w] = 0) /\ (\A c \in Ids : ~conns[c].stray)

\* The requests drawn from the counter and not yet sent.
Sending == {w \in Workers : pc[w] = "send"}

(***************************************************************************)
(* Every request drawn is sent or about to be, until the context ends; and *)
(* a worker leaves only when all are drawn.                                *)
(***************************************************************************)
Shared ==
  /\ attempts + Cardinality(Sending) <= Requests
  /\ ~ctxDone =>
       /\ attempts + Cardinality(Sending) = IF counter < Requests THEN counter ELSE Requests
       /\ \A w \in Workers : pc[w] \in {"exit", "gone"} => counter > Requests

ClientInv ==
  /\ TypeOK
  /\ Private
  /\ InHand
  /\ Pooled
  /\ IdleUsable
  /\ Slots
  /\ Followed
  /\ Known
  /\ NoneAstray
  /\ Shared

-----------------------------------------------------------------------------
(* What happens to a list of connections. *)

LEMMA OpenedFacts ==
  ASSUME NEW cs \in Seq(ConnRecords)
  PROVE  /\ Opened(cs) \in Seq(ConnRecords)
         /\ Len(Opened(cs)) = Len(cs) + 1
         /\ \A d \in 1..Len(cs) : Opened(cs)[d] = cs[d]
         /\ Opened(cs)[Len(cs) + 1].served = 0
         /\ Opened(cs)[Len(cs) + 1].closed = FALSE
         /\ Opened(cs)[Len(cs) + 1].stray = FALSE
         /\ Opened(cs)[Len(cs) + 1].count = 0
  <1> DEFINE r == [count |-> 0, closed |-> FALSE, served |-> 0, stray |-> FALSE]
  <1>1. r \in ConnRecords
    BY ClientAssumption DEF ConnRecords
  <1>2. Opened(cs) = Append(cs, r)
    BY DEF Opened
  <1>3. r.served = 0 /\ r.closed = FALSE /\ r.stray = FALSE /\ r.count = 0
    OBVIOUS
  <1> HIDE DEF r
  <1> QED BY <1>1, <1>2, <1>3, AppendProperties

\* One connection of a list is replaced.
LEMMA ExceptFacts ==
  ASSUME NEW cs \in Seq(ConnRecords), NEW c \in 1..Len(cs), NEW r \in ConnRecords
  PROVE  /\ [cs EXCEPT ![c] = r] \in Seq(ConnRecords)
         /\ Len([cs EXCEPT ![c] = r]) = Len(cs)
         /\ [cs EXCEPT ![c] = r][c] = r
         /\ \A d \in 1..Len(cs) \ {c} : [cs EXCEPT ![c] = r][d] = cs[d]
  BY ExceptSeq

LEMMA ClosedFacts ==
  ASSUME NEW cs \in Seq(ConnRecords), NEW c \in 1..Len(cs)
  PROVE  /\ Closed(cs, c) \in Seq(ConnRecords)
         /\ Len(Closed(cs, c)) = Len(cs)
         /\ \A d \in 1..Len(cs) \ {c} : Closed(cs, c)[d] = cs[d]
         /\ Closed(cs, c)[c].closed = TRUE
         /\ Closed(cs, c)[c].served = 0
         /\ Closed(cs, c)[c].count = cs[c].count
         /\ Closed(cs, c)[c].stray = cs[c].stray
  <1> DEFINE r == [cs[c] EXCEPT !.closed = TRUE, !.served = 0]
  <1>1. cs[c] \in ConnRecords /\ 0 \in 0..MaxRequests
    BY ClientAssumption, ElementOfSeq
  <1>2. r \in ConnRecords /\ r.closed = TRUE /\ r.served = 0 /\ r.count = cs[c].count
        /\ r.stray = cs[c].stray
    BY <1>1 DEF ConnRecords
  <1>3. Closed(cs, c) = [cs EXCEPT ![c] = r]
    BY DEF Closed
  <1> HIDE DEF r
  <1> QED BY <1>2, <1>3, ExceptFacts

LEMMA StrayFacts ==
  ASSUME NEW cs \in Seq(ConnRecords), NEW c \in 1..Len(cs) \cup {0}
  PROVE  /\ Stray(cs, c) \in Seq(ConnRecords)
         /\ Len(Stray(cs, c)) = Len(cs)
         /\ \A d \in 1..Len(cs) \ {c} : Stray(cs, c)[d] = cs[d]
         /\ c # 0 => /\ Stray(cs, c)[c].stray = TRUE
                     /\ Stray(cs, c)[c].closed = cs[c].closed
                     /\ Stray(cs, c)[c].served = cs[c].served
                     /\ Stray(cs, c)[c].count = cs[c].count
  <1> DEFINE r == [cs[c] EXCEPT !.stray = TRUE]
  <1>1. CASE c = 0
    BY <1>1 DEF Stray
  <1>2. CASE c # 0
    <2>1. c \in 1..Len(cs) /\ cs[c] \in ConnRecords
      BY <1>2, ElementOfSeq
    <2>2. r \in ConnRecords /\ r.stray = TRUE /\ r.closed = cs[c].closed
          /\ r.served = cs[c].served /\ r.count = cs[c].count
      BY <2>1 DEF ConnRecords
    <2>3. Stray(cs, c) = [cs EXCEPT ![c] = r]
      BY <1>2 DEF Stray
    <2> HIDE DEF r
    <2> QED BY <2>1, <2>2, <2>3, ExceptFacts
  <1> QED BY <1>1, <1>2

\* A list does not become shorter, and what refers to it stays valid.
LEMMA Grows ==
  ASSUME TypeOK, conns' \in Seq(ConnRecords), Len(conns') >= Len(conns)
  PROVE  /\ Ids \subseteq Ids'
         /\ idle \in Seq(Ids')
         /\ dedicated \in [Workers -> Ids' \cup {0}]
         /\ conn \in [Workers -> Ids' \cup {0}]
  <1>1. conns \in Seq(ConnRecords) /\ idle \in Seq(Ids)
        /\ dedicated \in [Workers -> Ids \cup {0}] /\ conn \in [Workers -> Ids \cup {0}]
    BY DEF TypeOK, ConnRecords
  <1>2. Len(conns) \in Nat /\ Len(conns') \in Nat
    BY <1>1, LenProperties
  <1>3. Ids \subseteq Ids'
    BY <1>2 DEF Ids
  <1>4. idle \in Seq(Ids')
    BY <1>1, <1>3, SeqMonotonic
  <1> QED BY <1>1, <1>3, <1>4

LEMMA ConnsType ==
  ASSUME TypeOK
  PROVE  /\ conns \in Seq(ConnRecords)
         /\ Len(conns) \in Nat
         /\ \A c \in Ids : conns[c] \in ConnRecords
         /\ \A c \in Ids : conns[c].count \in Nat
         /\ \A c \in Ids : conns[c].closed \in BOOLEAN
         /\ \A c \in Ids : conns[c].served \in 0..MaxRequests
         /\ \A c \in Ids : conns[c].stray \in BOOLEAN
         /\ Ids = 1..Len(conns)
         /\ \A w \in Workers : dedicated[w] \in Ids \cup {0} /\ conn[w] \in Ids \cup {0}
         /\ \A i \in 1..Len(idle) : idle[i] \in Ids
         /\ Len(idle) \in Nat
         /\ 0 \notin Ids /\ Len(conns) + 1 \notin Ids
  <1>1. conns \in Seq(ConnRecords)
    BY DEF TypeOK, ConnRecords
  <1>2. Len(conns) \in Nat /\ \A c \in Ids : conns[c] \in ConnRecords
    BY <1>1, LenProperties, ElementOfSeq DEF Ids
  <1>3. idle \in Seq(Ids)
    BY DEF TypeOK
  <1>4. Len(idle) \in Nat /\ \A i \in 1..Len(idle) : idle[i] \in Ids
    BY <1>3, LenProperties, ElementOfSeq
  <1>5. \A w \in Workers : dedicated[w] \in Ids \cup {0} /\ conn[w] \in Ids \cup {0}
    BY DEF TypeOK
  <1>6. 0 \notin Ids /\ Len(conns) + 1 \notin Ids
    BY <1>2 DEF Ids
  <1> QED BY <1>1, <1>2, <1>4, <1>5, <1>6 DEF ConnRecords, Ids

-----------------------------------------------------------------------------
(* What the steps do to the connections. *)

\* The connections there were are what they were.
Kept == \A d \in Ids : conns'[d] = conns[d]

\* The same, but for the one that is closed.
KeptBut(c) ==
  /\ \A d \in Ids \ {c} : conns'[d] = conns[d]
  /\ conns'[c].closed = TRUE
  /\ conns'[c].served = 0
  /\ conns'[c].count = conns[c].count
  /\ conns'[c].stray = conns[c].stray

\* The same, but for one that may go astray.
KeptButStray(c) ==
  /\ \A d \in Ids \ {c} : conns'[d] = conns[d]
  /\ c \in Ids => /\ conns'[c].closed = conns[c].closed
                  /\ conns'[c].served = conns[c].served
                  /\ conns'[c].count = conns[c].count
                  /\ conns[c].stray => conns'[c].stray

\* A connection is new.
New(c, stray) ==
  /\ c = Len(conns) + 1
  /\ Ids' = Ids \cup {c}
  /\ conns'[c].closed = FALSE
  /\ conns'[c].served = 0
  /\ conns'[c].count = 0
  /\ conns'[c].stray = stray

Wide == conns' \in Seq(ConnRecords) /\ Len(conns') >= Len(conns)

LEMMA OpenStep ==
  ASSUME TypeOK, conns' = Opened(conns)
  PROVE  Wide /\ Kept /\ New(Len(conns) + 1, FALSE)
  <1>1. conns \in Seq(ConnRecords) /\ Ids = 1..Len(conns) /\ Len(conns) \in Nat
    BY ConnsType
  <1>2. /\ conns' \in Seq(ConnRecords)
        /\ Len(conns') = Len(conns) + 1
        /\ \A d \in 1..Len(conns) : conns'[d] = conns[d]
        /\ conns'[Len(conns) + 1].served = 0
        /\ conns'[Len(conns) + 1].closed = FALSE
        /\ conns'[Len(conns) + 1].stray = FALSE
        /\ conns'[Len(conns) + 1].count = 0
    BY <1>1, OpenedFacts
  <1>3. Ids' = Ids \cup {Len(conns) + 1}
    BY <1>1, <1>2 DEF Ids
  <1> QED BY <1>1, <1>2, <1>3 DEF Wide, Kept, New

LEMMA CloseStep ==
  ASSUME TypeOK, NEW c \in Ids, conns' = Closed(conns, c)
  PROVE  Wide /\ KeptBut(c) /\ Ids' = Ids
  <1>1. conns \in Seq(ConnRecords) /\ Ids = 1..Len(conns) /\ Len(conns) \in Nat
    BY ConnsType
  <1>2. /\ conns' \in Seq(ConnRecords)
        /\ Len(conns') = Len(conns)
        /\ \A d \in 1..Len(conns) \ {c} : conns'[d] = conns[d]
        /\ conns'[c].closed = TRUE
        /\ conns'[c].served = 0
        /\ conns'[c].count = conns[c].count
        /\ conns'[c].stray = conns[c].stray
    BY <1>1, ClosedFacts
  <1>3. Ids' = Ids
    BY <1>2 DEF Ids
  <1> QED BY <1>1, <1>2, <1>3 DEF Wide, KeptBut

LEMMA OpenDedicatedStep ==
  ASSUME TypeOK, NEW w \in Workers, OpenDedicated(w)
  PROVE  /\ Wide /\ New(Len(conns) + 1, TRUE)
         /\ dedicated[w] = 0 => Kept
         /\ dedicated[w] # 0 => KeptBut(dedicated[w])
  <1> DEFINE c == dedicated[w]
             rest == IF c = 0 THEN conns ELSE Closed(conns, c)
             n == Len(conns) + 1
  <1>1. c \in Ids \cup {0} /\ conns \in Seq(ConnRecords) /\ Ids = 1..Len(conns)
        /\ Len(conns) \in Nat
    BY ConnsType
  <1>2. /\ rest \in Seq(ConnRecords) /\ Len(rest) = Len(conns)
        /\ c = 0 => \A d \in Ids : rest[d] = conns[d]
        /\ c # 0 => /\ \A d \in Ids \ {c} : rest[d] = conns[d]
                    /\ rest[c].closed = TRUE
                    /\ rest[c].served = 0
                    /\ rest[c].count = conns[c].count
                    /\ rest[c].stray = conns[c].stray
    BY <1>1, ClosedFacts
  <1>3. conns' = Stray(Opened(rest), n)
    BY DEF OpenDedicated
  <1> HIDE DEF rest
  <1>4. /\ Opened(rest) \in Seq(ConnRecords) /\ Len(Opened(rest)) = n
        /\ \A d \in Ids : Opened(rest)[d] = rest[d]
        /\ Opened(rest)[n].served = 0 /\ Opened(rest)[n].closed = FALSE
        /\ Opened(rest)[n].count = 0
    <2>1. rest \in Seq(ConnRecords) /\ Len(rest) = Len(conns)
      BY <1>2
    <2> QED BY <1>1, <2>1, OpenedFacts
  <1>5. /\ conns' \in Seq(ConnRecords) /\ Len(conns') = n
        /\ \A d \in Ids : conns'[d] = rest[d]
        /\ conns'[n].served = 0 /\ conns'[n].closed = FALSE
        /\ conns'[n].count = 0 /\ conns'[n].stray = TRUE
    <2>1. n \in 1..Len(Opened(rest)) /\ n # 0 /\ Ids = 1..Len(Opened(rest)) \ {n}
      BY <1>1, <1>4
    <2> QED BY <1>3, <1>4, <2>1, StrayFacts
  <1>6. Ids' = Ids \cup {n}
    BY <1>1, <1>5 DEF Ids
  <1>7. Wide
    BY <1>1, <1>5 DEF Wide
  <1> QED BY <1>1, <1>2, <1>5, <1>6, <1>7 DEF Kept, KeptBut, New

LEMMA ReplaceStep ==
  ASSUME TypeOK, NEW w \in Workers, Replace(w)
  PROVE  /\ Wide
         /\ \/ New(Len(conns) + 1, FALSE) /\ dedicated'[w] = Len(conns) + 1
            \/ Ids' = Ids /\ dedicated'[w] = 0
            \/ conns' = conns /\ dedicated'[w] = dedicated[w]
         /\ dedicated'[w] # dedicated[w] =>
              /\ mode = "dedicated"
              /\ unused[w] => KeptButStray(dedicated[w])
                              /\ (dedicated[w] # 0 => conns'[dedicated[w]].stray)
              /\ ~unused[w] => Kept
         /\ KeptButStray(dedicated[w])
  <1> DEFINE c == dedicated[w]
             rest == IF unused[w] THEN Stray(conns, c) ELSE conns
             n == Len(conns) + 1
  <1>1. c \in Ids \cup {0} /\ conns \in Seq(ConnRecords) /\ Ids = 1..Len(conns)
        /\ Len(conns) \in Nat /\ dedicated \in [Workers -> Ids \cup {0}] /\ n \notin Ids
    BY ConnsType DEF TypeOK
  <1>2. /\ rest \in Seq(ConnRecords) /\ Len(rest) = Len(conns)
        /\ \A d \in Ids \ {c} : rest[d] = conns[d]
        /\ c \in Ids => /\ rest[c].closed = conns[c].closed
                        /\ rest[c].served = conns[c].served
                        /\ rest[c].count = conns[c].count
                        /\ conns[c].stray => rest[c].stray
        /\ unused[w] /\ c # 0 => rest[c].stray
        /\ ~unused[w] => rest = conns
    <2>1. CASE unused[w]
      <3>1. rest = Stray(conns, c) /\ c \in 1..Len(conns) \cup {0}
        BY <1>1, <2>1
      <3> HIDE DEF rest, c
      <3>2. /\ rest \in Seq(ConnRecords) /\ Len(rest) = Len(conns)
            /\ \A d \in 1..Len(conns) \ {c} : rest[d] = conns[d]
            /\ c # 0 => /\ rest[c].stray = TRUE
                        /\ rest[c].closed = conns[c].closed
                        /\ rest[c].served = conns[c].served
                        /\ rest[c].count = conns[c].count
        <4>1. conns \in Seq(ConnRecords) /\ c \in 1..Len(conns) \cup {0}
          BY <1>1, <3>1
        <4>2. /\ Stray(conns, c) \in Seq(ConnRecords)
              /\ Len(Stray(conns, c)) = Len(conns)
              /\ \A d \in 1..Len(conns) \ {c} : Stray(conns, c)[d] = conns[d]
              /\ c # 0 => /\ Stray(conns, c)[c].stray = TRUE
                          /\ Stray(conns, c)[c].closed = conns[c].closed
                          /\ Stray(conns, c)[c].served = conns[c].served
                          /\ Stray(conns, c)[c].count = conns[c].count
          BY <4>1, StrayFacts, Zenon
        <4> QED BY <3>1, <4>2
      <3>3. c \in Ids => c # 0
        BY <1>1
      <3> QED BY <1>1, <2>1, <3>2, <3>3
    <2>2. CASE ~unused[w]
      <3>1. rest = conns
        BY <2>2
      <3> QED BY <1>1, <2>2, <3>1
    <2> QED BY <2>1, <2>2
  <1>3. CASE mode = "dedicated" /\ conns' = Opened(rest) /\ dedicated' = [dedicated EXCEPT ![w] = n]
    <2> HIDE DEF rest
    <2>1. /\ conns' \in Seq(ConnRecords) /\ Len(conns') = n
          /\ \A d \in Ids : conns'[d] = rest[d]
          /\ conns'[n].served = 0 /\ conns'[n].closed = FALSE
          /\ conns'[n].count = 0 /\ conns'[n].stray = FALSE
      <3>1. rest \in Seq(ConnRecords) /\ Len(rest) = Len(conns)
        BY <1>2
      <3> QED BY <1>1, <1>3, <3>1, OpenedFacts
    <2>2. Ids' = Ids \cup {n} /\ dedicated'[w] = n
      BY <1>1, <1>3, <2>1 DEF Ids
    <2>3. Wide /\ New(n, FALSE)
      BY <1>1, <2>1, <2>2 DEF Wide, New
    <2>4. KeptButStray(c) /\ (unused[w] /\ c # 0 => conns'[c].stray) /\ (~unused[w] => Kept)
      BY <1>1, <1>2, <2>1 DEF KeptButStray, Kept
    <2> QED BY <1>3, <2>2, <2>3, <2>4
  <1>4. CASE mode = "dedicated" /\ conns' = rest /\ dedicated' = [dedicated EXCEPT ![w] = 0]
    <2> HIDE DEF rest
    <2>1. Ids' = Ids /\ dedicated'[w] = 0 /\ Wide
      BY <1>1, <1>2, <1>4 DEF Ids, Wide
    <2>2. KeptButStray(c) /\ (unused[w] /\ c # 0 => conns'[c].stray) /\ (~unused[w] => Kept)
      BY <1>1, <1>2, <1>4 DEF KeptButStray, Kept
    <2> QED BY <1>4, <2>1, <2>2
  <1>5. CASE UNCHANGED <<conns, dedicated>>
    BY <1>1, <1>5 DEF Wide, KeptButStray
  <1> QED BY <1>3, <1>4, <1>5 DEF Replace

\* Transmit works on the connection of its worker only.
LEMMA TransmitStep ==
  ASSUME TypeOK, InHand, NEW w \in Workers, Transmit(w)
  PROVE  /\ Wide /\ Ids' = Ids /\ conn[w] \in Ids
         /\ \A d \in Ids \ {conn[w]} : conns'[d] = conns[d]
         /\ conns'[conn[w]].closed = conns[conn[w]].closed
         /\ conns'[conn[w]].stray = conns[conn[w]].stray
  <1> DEFINE c == conn[w]
             n == conns[c].served + 1
             s == IF n >= MaxRequests THEN 0 ELSE n
  <1>1. c \in Ids /\ conns \in Seq(ConnRecords) /\ Ids = 1..Len(conns)
        /\ conns[c] \in ConnRecords
    BY ConnsType DEF Transmit, InHand, Busy
  <1>2. conns[c].count + 1 \in Nat /\ s \in 0..MaxRequests
    <2>1. conns[c].count \in Nat /\ conns[c].served \in 0..MaxRequests /\ MaxRequests \in Nat
      BY <1>1, ClientAssumption DEF ConnRecords
    <2>2. n \in Nat
      BY <2>1
    <2> QED BY <2>1, <2>2
  <1>3. CASE UNCHANGED conns
    BY <1>1, <1>3 DEF Wide, Ids
  <1>4. CASE conns' = [conns EXCEPT ![c].count = @ + 1]
    <2>1. [conns[c] EXCEPT !.count = @ + 1] \in ConnRecords
      BY <1>1, <1>2 DEF ConnRecords
    <2>2. /\ [conns[c] EXCEPT !.count = @ + 1].closed = conns[c].closed
          /\ [conns[c] EXCEPT !.count = @ + 1].stray = conns[c].stray
      BY <1>1 DEF ConnRecords
    <2>3. conns' = [conns EXCEPT ![c] = [conns[c] EXCEPT !.count = @ + 1]]
      BY <1>4
    <2> QED BY <1>1, <2>1, <2>2, <2>3, ExceptFacts DEF Wide, Ids
  <1>5. CASE conns' = [conns EXCEPT ![c].count = @ + 1, ![c].served = s]
    <2>1. [conns[c] EXCEPT !.count = @ + 1, !.served = s] \in ConnRecords
      BY <1>1, <1>2 DEF ConnRecords
    <2>2. /\ [conns[c] EXCEPT !.count = @ + 1, !.served = s].closed = conns[c].closed
          /\ [conns[c] EXCEPT !.count = @ + 1, !.served = s].stray = conns[c].stray
      BY <1>1 DEF ConnRecords
    <2>3. conns' = [conns EXCEPT ![c] = [conns[c] EXCEPT !.count = @ + 1, !.served = s]]
      BY <1>5
    <2> QED BY <1>1, <2>1, <2>2, <2>3, ExceptFacts DEF Wide, Ids
  <1> QED BY <1>3, <1>4, <1>5 DEF Transmit

LEMMA CloseClientStep ==
  ASSUME TypeOK, CloseClient
  PROVE  /\ Wide /\ Ids' = Ids
         /\ \A d \in Ids : (\A i \in 1..Len(idle) : idle[i] # d) => conns'[d] = conns[d]
         /\ \A i \in 1..Len(idle) : /\ conns'[idle[i]].served = 0
                                 /\ conns'[idle[i]].stray = conns[idle[i]].stray
  <1>1. /\ conns \in Seq(ConnRecords) /\ Ids = 1..Len(conns) /\ Len(conns) \in Nat
        /\ \A c \in Ids : conns[c] \in ConnRecords
        /\ \A i \in 1..Len(idle) : idle[i] \in Ids
    BY ConnsType
  <1>2. \A c \in Ids : /\ Closed(conns, c)[c] \in ConnRecords
                      /\ Closed(conns, c)[c].served = 0
                      /\ Closed(conns, c)[c].stray = conns[c].stray
    <2>1. TAKE c \in Ids
    <2>2. Closed(conns, c) \in Seq(ConnRecords) /\ Len(Closed(conns, c)) = Len(conns)
          /\ Closed(conns, c)[c].served = 0 /\ Closed(conns, c)[c].stray = conns[c].stray
      BY <1>1, ClosedFacts
    <2> QED BY <1>1, <2>2, ElementOfSeq
  <1>3. conns' = [c \in Ids |-> IF \E i \in 1..Len(idle) : idle[i] = c
                                  THEN Closed(conns, c)[c] ELSE conns[c]]
    BY DEF CloseClient
  <1>4. \A c \in Ids : conns'[c] \in ConnRecords
    BY <1>1, <1>2, <1>3
  <1>5. conns' \in Seq(ConnRecords) /\ Len(conns') = Len(conns)
    <2>1. DOMAIN conns' = 1..Len(conns) /\ conns' = [c \in 1..Len(conns) |-> conns'[c]]
      BY <1>1, <1>3
    <2>2. conns' \in [1..Len(conns) -> ConnRecords]
      BY <1>1, <1>4, <2>1
    <2>3. conns' \in Seq(ConnRecords)
      BY <1>1, <2>2, IsASeq
    <2> QED BY <1>1, <2>1, <2>3, LenProperties
  <1>6. Wide /\ Ids' = Ids
    BY <1>1, <1>5 DEF Wide, Ids
  <1>7. \A d \in Ids : (\A i \in 1..Len(idle) : idle[i] # d) => conns'[d] = conns[d]
    BY <1>3
  <1>8. ASSUME NEW i \in 1..Len(idle)
        PROVE  conns'[idle[i]].served = 0 /\ conns'[idle[i]].stray = conns[idle[i]].stray
    <2>1. PICK d : d = idle[i]
      OBVIOUS
    <2>2. d \in Ids /\ \E j \in 1..Len(idle) : idle[j] = d
      <3>1. \A j \in 1..Len(idle) : idle[j] \in Ids
        BY <1>1
      <3> QED BY <2>1, <3>1, Zenon
    <2>3. conns'[d] = Closed(conns, d)[d]
      BY <1>3, <2>2
    <2> QED BY <1>2, <2>1, <2>2, <2>3
  <1> QED BY <1>6, <1>7, <1>8

\* A list without its i-th element.
LEMMA WithoutOne ==
  ASSUME NEW S, NEW q \in Seq(S), NEW i \in 1..Len(q)
  PROVE  LET r == SubSeq(q, 1, i - 1) \o SubSeq(q, i + 1, Len(q)) IN
         /\ r \in Seq(S)
         /\ Len(r) = Len(q) - 1
         /\ \A j \in 1..(Len(q) - 1) : r[j] = IF j < i THEN q[j] ELSE q[j + 1]
  <1> DEFINE s == SubSeq(q, 1, i - 1)
             t == SubSeq(q, i + 1, Len(q))
             r == s \o t
  <1>1. /\ Len(q) \in Nat
        /\ \A j \in 1..Len(q) : q[j] \in S
        /\ i \in Int /\ 1 <= i /\ i <= Len(q)
    BY LenProperties, ElementOfSeq
  <1>2. /\ s \in Seq(S) /\ Len(s) = i - 1
        /\ \A j \in 1..(i - 1) : s[j] = q[j]
    <2>1. \A j \in 1..(i - 1) : q[j] \in S
      BY <1>1
    <2>2. /\ s \in Seq(S) /\ Len(s) = IF 1 <= i - 1 THEN (i - 1) - 1 + 1 ELSE 0
          /\ \A j \in 1..((i - 1) - 1 + 1) : s[j] = q[1 + j - 1]
      BY <1>1, <2>1, SubSeqProperties
    <2> HIDE DEF s
    <2> QED BY <1>1, <2>2
  <1>3. /\ t \in Seq(S) /\ Len(t) = Len(q) - i
        /\ \A j \in 1..(Len(q) - i) : t[j] = q[i + j]
    <2>1. \A j \in (i + 1)..Len(q) : q[j] \in S
      BY <1>1
    <2>2. /\ t \in Seq(S)
          /\ Len(t) = IF i + 1 <= Len(q) THEN Len(q) - (i + 1) + 1 ELSE 0
          /\ \A j \in 1..(Len(q) - (i + 1) + 1) : t[j] = q[(i + 1) + j - 1]
      BY <1>1, <2>1, SubSeqProperties
    <2> HIDE DEF t
    <2> QED BY <1>1, <2>2
  <1> HIDE DEF s, t
  <1>4. /\ r \in Seq(S) /\ Len(r) = Len(s) + Len(t)
        /\ \A j \in 1..(Len(s) + Len(t)) : r[j] = IF j <= Len(s) THEN s[j] ELSE t[j - Len(s)]
    <2>1. s \in Seq(S) /\ t \in Seq(S)
      BY <1>2, <1>3
    <2> QED BY <2>1, ConcatProperties
  <1> HIDE DEF r
  <1>5. Len(r) = Len(q) - 1
    BY <1>1, <1>2, <1>3, <1>4
  <1>6. ASSUME NEW j \in 1..(Len(q) - 1)
        PROVE  r[j] = IF j < i THEN q[j] ELSE q[j + 1]
    <2>1. j \in Int /\ 1 <= j /\ j <= Len(q) - 1 /\ Len(s) = i - 1 /\ Len(t) = Len(q) - i
      BY <1>1, <1>2, <1>3
    <2>2. r[j] = IF j <= i - 1 THEN s[j] ELSE t[j - (i - 1)]
      BY <1>1, <1>4, <2>1
    <2>3. CASE j < i
      BY <1>1, <1>2, <2>1, <2>2, <2>3
    <2>4. CASE ~(j < i)
      <3>1. r[j] = t[j - (i - 1)] /\ j - (i - 1) \in 1..(Len(q) - i)
        BY <1>1, <2>1, <2>2, <2>4
      <3>2. t[j - (i - 1)] = q[i + (j - (i - 1))] /\ i + (j - (i - 1)) = j + 1
        BY <1>1, <1>3, <2>1, <3>1
      <3> QED BY <2>4, <3>1, <3>2
    <2> QED BY <2>3, <2>4
  <1> QED BY <1>4, <1>5, <1>6 DEF r, s, t

\* pool.Get takes one connection from the list and keeps the order of the rest.
LEMMA TakenFromIdle ==
  ASSUME TypeOK, NEW i \in 1..Len(idle),
         idle' = SubSeq(idle, 1, i - 1) \o SubSeq(idle, i + 1, Len(idle))
  PROVE  /\ idle' \in Seq(Ids)
         /\ Len(idle') = Len(idle) - 1
         /\ \A j \in 1..Len(idle') : idle'[j] = IF j < i THEN idle[j] ELSE idle[j + 1]
  <1>1. idle \in Seq(Ids)
    BY DEF TypeOK
  <1> QED BY <1>1, WithoutOne

\* The end of a Send, seen from the connections.
LEMMA FinishStep ==
  ASSUME TypeOK, InHand, NEW w \in Workers, Finish(w)
  PROVE  /\ Wide /\ Ids' = Ids /\ conn[w] \in Ids
         /\ \/ Kept
            \/ KeptBut(conn[w])
         /\ conn' = [conn EXCEPT ![w] = 0] /\ dedicated' = dedicated
         /\ \/ /\ usePool[w] /\ idle' = Append(idle, conn[w]) /\ Kept /\ ~closed
               /\ total' = total /\ ~ShouldClose(conn[w])
            \/ /\ usePool[w] /\ idle' = idle /\ KeptBut(conn[w])
               /\ total' = IF closed THEN total ELSE total - 1
            \/ /\ ~usePool[w] /\ idle' = idle /\ Kept /\ total' = total /\ Keeps(w)
            \/ /\ ~usePool[w] /\ idle' = idle /\ KeptBut(conn[w]) /\ total' = total /\ ~Keeps(w)
         /\ closed' = closed
  <1>1. conn[w] \in Ids
    BY ConnsType DEF Finish, InHand, Busy
  <1>2. conn' = [conn EXCEPT ![w] = 0] /\ dedicated' = dedicated /\ closed' = closed
    BY DEF Finish, envVars
  <1>3. conns' = conns => Wide /\ Kept /\ Ids' = Ids
    BY ConnsType DEF Wide, Kept, Ids
  <1>4. conns' = Closed(conns, conn[w]) => Wide /\ KeptBut(conn[w]) /\ Ids' = Ids
    BY <1>1, CloseStep
  <1>5. CASE usePool[w] /\ Put(conn[w])
    <2>1. CASE closed \/ ShouldClose(conn[w])
      BY <1>1, <1>2, <1>4, <1>5, <2>1 DEF Put
    <2>2. CASE ~(closed \/ ShouldClose(conn[w]))
      BY <1>1, <1>2, <1>3, <1>5, <2>2 DEF Put
    <2> QED BY <2>1, <2>2
  <1>6. CASE ~usePool[w] /\ Keeps(w) /\ UNCHANGED <<conns, poolVars>>
    BY <1>1, <1>2, <1>3, <1>6 DEF poolVars
  <1>7. CASE ~usePool[w] /\ ~Keeps(w) /\ conns' = Closed(conns, conn[w]) /\ UNCHANGED poolVars
    BY <1>1, <1>2, <1>4, <1>7 DEF poolVars
  <1> QED BY <1>5, <1>6, <1>7 DEF Finish

\* No connection to be had, and the cleanup of a worker.
LEMMA NoConnectionStep ==
  ASSUME TypeOK, NEW w \in Workers, NoConnection(w)
  PROVE  /\ Wide /\ Ids' = Ids
         /\ \/ Kept /\ ~(mode = "dedicated" /\ dedicated[w] # 0)
            \/ KeptBut(dedicated[w]) /\ mode = "dedicated" /\ dedicated[w] \in Ids
  <1>1. dedicated[w] \in Ids \cup {0}
    BY ConnsType
  <1>2. CASE mode = "dedicated" /\ dedicated[w] # 0
    <2>1. conns' = Closed(conns, dedicated[w])
      BY <1>2 DEF NoConnection
    <2> QED BY <1>1, <1>2, <2>1, CloseStep
  <1>3. CASE ~(mode = "dedicated" /\ dedicated[w] # 0)
    <2>1. conns' = conns
      BY <1>3 DEF NoConnection
    <2> QED BY <1>3, <2>1, ConnsType DEF Wide, Kept, Ids
  <1> QED BY <1>2, <1>3

LEMMA ExitStep ==
  ASSUME TypeOK, NEW w \in Workers, Exit(w)
  PROVE  /\ Wide /\ Ids' = Ids
         /\ \/ Kept /\ dedicated[w] = 0
            \/ KeptBut(dedicated[w]) /\ dedicated[w] \in Ids
  <1>1. dedicated[w] \in Ids \cup {0}
    BY ConnsType
  <1>2. CASE dedicated[w] # 0
    <2>1. conns' = Closed(conns, dedicated[w])
      BY <1>2 DEF Exit
    <2> QED BY <1>1, <1>2, <2>1, CloseStep
  <1>3. CASE dedicated[w] = 0
    <2>1. conns' = conns
      BY <1>3 DEF Exit
    <2> QED BY <1>3, <2>1, ConnsType DEF Wide, Kept, Ids
  <1> QED BY <1>2, <1>3

\* A worker opens a connection to keep, or goes without.
LEMMA StartStep ==
  ASSUME TypeOK, NEW w \in Workers, Start(w)
  PROVE  /\ Wide /\ Kept
         /\ \/ /\ mode = "dedicated" /\ New(Len(conns) + 1, FALSE)
               /\ dedicated' = [dedicated EXCEPT ![w] = Len(conns) + 1]
            \/ conns' = conns /\ dedicated' = dedicated
  <1>1. CASE mode = "dedicated" /\ conns' = Opened(conns)
             /\ dedicated' = [dedicated EXCEPT ![w] = Len(conns) + 1]
    BY <1>1, OpenStep
  <1>2. CASE UNCHANGED <<conns, dedicated>>
    BY <1>2, ConnsType DEF Wide, Kept
  <1> QED BY <1>1, <1>2 DEF Start

-----------------------------------------------------------------------------
(* Types. *)

\* The steps that leave the connections, and who has them, alone.
Quiet(w) == NextRequest(w) \/ GiveUp(w) \/ Acquire(w) \/ Refuse(w)
Around == TimeOut \/ StopServers \/ \E m \in Modes : SetConnectionMode(m)

\* The steps of Get that find no connection, or none yet.
Asking(w) ==
  \/ EnterGet(w) \/ Reserve(w) \/ SeeFull(w) \/ Wait(w) \/ WakeClosed(w)
  \/ PickFails(w) \/ PickFailSignals(w)

\* All that a step does to a worker that does not take it: it may wake it up.
Moved(v) == pc'[v] = pc[v] \/ (pc[v] = "parked" /\ pc'[v] = "woken")

LEMMA WakeFacts ==
  ASSUME TypeOK, NEW w \in Workers, NEW where, NEW W \in SUBSET Asleep, GotoAndWake(w, where, W)
  PROVE  /\ pc'[w] = where
         /\ \A v \in Workers \ {w} : Moved(v)
         /\ where \in PCs => pc' \in [Workers -> PCs]
  <1>1. \A v \in Workers : pc'[v] = IF v = w THEN where ELSE IF v \in W THEN "woken" ELSE pc[v]
    BY DEF GotoAndWake
  <1>2. \A v \in W : pc[v] = "parked"
    BY DEF Asleep
  <1>3. where \in PCs => pc' \in [Workers -> PCs]
    BY DEF GotoAndWake, TypeOK, PCs, InSend, InGet
  <1> QED BY <1>1, <1>2, <1>3 DEF Moved

\* Signal, Put and Close wake nobody who does not wait.
LEMMA OnlyAsleep ==
  ASSUME NEW c
  PROVE  /\ \A W \in Signalled : W \in SUBSET Asleep
         /\ \A W \in PutWakes(c) : W \in SUBSET Asleep
  BY DEF Signalled, PutWakes, Asleep

LEMMA AskingStep ==
  ASSUME TypeOK, NEW w \in Workers, Asking(w)
  PROVE  /\ UNCHANGED <<conns, conn, dedicated, idle, closed, counter, attempts, ctxDone>>
         /\ pc[w] \in {"connect"} \cup InGet
         /\ pc'[w] \in InGet \/ (pc'[w] = "replace" /\ unused'[w])
         /\ pc'[w] = "pick" <=> Reserve(w)
         /\ pc[w] = "pick" <=> PickFails(w)
         /\ pc'[w] \in InGet => (EnterGet(w) /\ usePool'[w]) \/ (pc[w] \in InGet /\ usePool' = usePool)
         /\ pc' \in [Workers -> PCs]
         /\ \A v \in Workers \ {w} :
              /\ Moved(v)
              /\ unused'[v] = unused[v] /\ usePool'[v] = usePool[v] /\ sendMode'[v] = sendMode[v]
  <1>1. CASE EnterGet(w)
    BY <1>1 DEF EnterGet, Decides, Goto, TypeOK, envVars, poolVars, PCs, InSend, InGet, Moved,
       Reserve, PickFails
  <1>2. CASE Reserve(w) \/ SeeFull(w) \/ Wait(w) \/ PickFails(w)
    BY <1>2 DEF Reserve, SeeFull, Wait, PickFails, getVars, Goto, TypeOK, envVars, PCs, InSend,
       InGet, Moved
  <1>3. CASE WakeClosed(w)
    BY <1>3 DEF WakeClosed, GetFails, Returns, getVars, Goto, TypeOK, envVars, PCs, InSend, InGet,
       Moved, Reserve, PickFails
  <1>4. CASE PickFailSignals(w)
    <2>1. PICK W \in Signalled : GotoAndWake(w, "replace", W)
      BY <1>4 DEF PickFailSignals
    <2>2. /\ pc'[w] = "replace" /\ pc' \in [Workers -> PCs]
          /\ \A v \in Workers \ {w} : Moved(v)
      <3>1. W \in SUBSET Asleep /\ "replace" \in PCs
        BY OnlyAsleep DEF PCs
      <3> QED BY <2>1, <3>1, WakeFacts
    <2>3. /\ UNCHANGED <<conns, conn, dedicated, idle, closed, counter, attempts, ctxDone>>
          /\ unused'[w]
          /\ \A v \in Workers \ {w} :
               unused'[v] = unused[v] /\ usePool'[v] = usePool[v] /\ sendMode'[v] = sendMode[v]
      BY <1>4 DEF PickFailSignals, GetFails, Returns, getVars, envVars, TypeOK
    <2>4. pc[w] = "signal"
      BY <1>4 DEF PickFailSignals
    <2> QED BY <2>2, <2>3, <2>4 DEF InGet, Reserve, PickFails
  <1> QED BY <1>1, <1>2, <1>3, <1>4 DEF Asking

\* The end of a Send, seen from the workers.
LEMMA FinishMoves ==
  ASSUME TypeOK, NEW w \in Workers, Finish(w)
  PROVE  /\ pc[w] = "finish" /\ pc'[w] \in {"replace", "top"}
         /\ pc'[w] = "replace" <=> result[w] = "error" \/ ShouldClose(conn[w])
         /\ pc'[w] = "replace" => unused'[w] = unused[w]
         /\ pc' \in [Workers -> PCs] /\ missed' \subseteq Workers
         /\ unused' \in [Workers -> BOOLEAN] /\ usePool' \in [Workers -> BOOLEAN]
         /\ sendMode' \in [Workers -> Modes \cup {"none"}]
         /\ \A v \in Workers \ {w} :
              /\ Moved(v)
              /\ unused'[v] = unused[v] /\ usePool'[v] = usePool[v] /\ sendMode'[v] = sendMode[v]
  <1> DEFINE over == result[w] = "error" \/ ShouldClose(conn[w])
             where == IF over THEN "replace" ELSE "top"
  <1>1. PICK W : /\ W \in IF usePool[w] THEN PutWakes(conn[w]) ELSE {{}}
                 /\ GotoAndWake(w, where, W)
                 /\ missed' = missed \ W
    BY DEF Finish
  <1>2. W \in SUBSET Asleep
    BY <1>1, OnlyAsleep
  <1>3. where \in PCs /\ where \in {"replace", "top"} /\ (where = "replace" <=> over)
    BY DEF PCs
  <1>4. pc[w] = "finish" /\ unused' = [unused EXCEPT ![w] = @ /\ over] /\ Returns(w)
    BY DEF Finish
  <1>5. missed' \subseteq Workers
    BY <1>1 DEF TypeOK
  <1> HIDE DEF where, over
  <1>6. /\ pc'[w] = where /\ pc' \in [Workers -> PCs]
        /\ \A v \in Workers \ {w} : Moved(v)
    BY <1>1, <1>2, <1>3, WakeFacts
  <1>7. /\ over => unused'[w] = unused[w]
        /\ unused' \in [Workers -> BOOLEAN] /\ usePool' \in [Workers -> BOOLEAN]
        /\ \A v \in Workers \ {w} : unused'[v] = unused[v] /\ usePool'[v] = usePool[v]
    <2>1. over \in BOOLEAN
      BY DEF over
    <2> QED BY <1>4, <2>1 DEF Returns, TypeOK
  <1>8. /\ sendMode' \in [Workers -> Modes \cup {"none"}]
        /\ \A v \in Workers \ {w} : sendMode'[v] = sendMode[v]
    BY <1>4 DEF Returns, TypeOK
  <1> QED BY <1>3, <1>4, <1>5, <1>6, <1>7, <1>8 DEF over

\* Send goes on with connection c, from the pool or not.
ConnectedBy(w, c, b) ==
  /\ Connected(w, c)
  /\ usePool' = [usePool EXCEPT ![w] = b]
  /\ b \/ sendMode' = [sendMode EXCEPT ![w] = mode]
  /\ \A v \in Workers \ {w} : sendMode'[v] = sendMode[v]

LEMMA ReuseConnects ==
  ASSUME TypeOK, Pooled, NEW w \in Workers, Reuse(w)
  PROVE  \E i \in {1, Len(idle)} \ {0} :
           /\ i <= Len(idle)
           /\ idle' = SubSeq(idle, 1, i - 1) \o SubSeq(idle, i + 1, Len(idle))
           /\ ConnectedBy(w, idle[i], TRUE)
  <1>1. usePool[w] /\ usePool' = usePool /\ sendMode' = sendMode
    BY DEF Reuse, Pooled, InGet
  <1>2. usePool' = [usePool EXCEPT ![w] = TRUE]
    BY <1>1 DEF TypeOK
  <1> QED BY <1>1, <1>2 DEF Reuse, ConnectedBy

LEMMA PickServerConnects ==
  ASSUME TypeOK, Pooled, NEW w \in Workers, PickServer(w)
  PROVE  ConnectedBy(w, Len(conns) + 1, TRUE)
  <1>1. usePool[w] /\ usePool' = usePool /\ sendMode' = sendMode
    BY DEF PickServer, Pooled, InGet
  <1>2. usePool' = [usePool EXCEPT ![w] = TRUE]
    BY <1>1 DEF TypeOK
  <1> QED BY <1>1, <1>2 DEF PickServer, ConnectedBy

LEMMA SingleConnects ==
  ASSUME TypeOK, NEW w \in Workers
  PROVE  /\ OpenSingle(w) \/ OpenDedicated(w) => ConnectedBy(w, Len(conns) + 1, FALSE)
         /\ OwnConnection(w) => ConnectedBy(w, dedicated[w], FALSE)
  BY DEF OpenSingle, OpenDedicated, OwnConnection, Decides, ConnectedBy, TypeOK

LEMMA WideStep ==
  ASSUME TypeOK, InHand, [Next]_vars
  PROVE  Wide
  <1>1. conns' = conns => Wide
    BY ConnsType DEF Wide
  <1>2. ASSUME NEW w \in Workers, Step(w) PROVE Wide
    <2>1. CASE Quiet(w) \/ Asking(w) \/ Reuse(w) \/ OwnConnection(w)
      BY <1>1, <2>1, AskingStep DEF Quiet, NextRequest, GiveUp, Acquire, Refuse, Reuse,
         OwnConnection
    <2>2. CASE PickServer(w) \/ OpenSingle(w)
      BY <2>2, OpenStep DEF PickServer, OpenSingle
    <2> QED BY <1>2, <2>1, <2>2, StartStep, OpenDedicatedStep, NoConnectionStep, TransmitStep,
               FinishStep, ReplaceStep, ExitStep DEF Step, Quiet, Asking
  <1>3. CASE CloseClient
    BY <1>3, CloseClientStep
  <1>4. CASE Around
    BY <1>1, <1>4 DEF Around, TimeOut, StopServers, SetConnectionMode
  <1>5. CASE UNCHANGED vars
    BY <1>1, <1>5 DEF vars
  <1> QED BY <1>2, <1>3, <1>4, <1>5 DEF Next, Around

\* A worker that has a connection from the pool occupies a slot.
LEMMA BorrowerCounts ==
  ASSUME Slots, TypeOK, NEW w \in Borrowers
  PROVE  total >= 1
  <1>1. IsFiniteSet(Workers)
    BY ClientAssumption
  <1>2. IsFiniteSet(Borrowers)
    BY <1>1, FS_Subset DEF Borrowers
  <1>3. Cardinality(Borrowers) \in Nat /\ Cardinality(Borrowers) # 0
    BY <1>2, FS_CardinalityType, FS_EmptySet
  <1>4. Len(idle) \in Nat /\ total \in Nat
    BY ConnsType DEF TypeOK
  <1> QED BY <1>3, <1>4 DEF Slots

LEMMA TypeStep ==
  ASSUME TypeOK, InHand, Pooled, Slots, [Next]_vars
  PROVE  TypeOK'
  <1>1. /\ Wide
        /\ Ids \subseteq Ids'
        /\ idle \in Seq(Ids')
        /\ dedicated \in [Workers -> Ids' \cup {0}]
        /\ conn \in [Workers -> Ids' \cup {0}]
    BY WideStep, Grows DEF Wide
  <1>2. conns' \in Seq([count : Nat, closed : BOOLEAN, served : 0..MaxRequests,
                        stray : BOOLEAN])
    BY <1>1 DEF Wide, ConnRecords
  <1>3. ASSUME NEW w \in Workers, Quiet(w) PROVE TypeOK'
    <2>1. CASE NextRequest(w)
      BY <1>1, <1>2, <2>1 DEF NextRequest, TypeOK, Goto, PCs, InSend, envVars, poolVars, sendVars
    <2>2. CASE GiveUp(w)
      BY <1>1, <1>2, <2>2 DEF GiveUp, TypeOK, Goto, PCs, InSend, envVars, poolVars, sendVars
    <2>3. CASE Acquire(w)
      BY <1>1, <1>2, <2>3 DEF Acquire, TypeOK, Goto, PCs, InSend, envVars, poolVars, sendVars
    <2>4. CASE Refuse(w)
      BY <1>1, <1>2, <2>4 DEF Refuse, TypeOK, Goto, PCs, InSend, envVars, poolVars
    <2> QED BY <1>3, <2>1, <2>2, <2>3, <2>4 DEF Quiet
  <1>4. ASSUME NEW w \in Workers, Start(w) PROVE TypeOK'
    <2>1. dedicated' \in [Workers -> Ids' \cup {0}]
      BY <1>1, <1>4, StartStep DEF New
    <2> QED BY <1>1, <1>2, <1>4, <2>1 DEF Start, TypeOK, Goto, PCs, InSend, envVars, poolVars,
            sendVars
  <1>5. ASSUME NEW w \in Workers, NEW c \in Ids', Connected(w, c),
               Decides(w, FALSE) \/ UNCHANGED <<sendMode, usePool>>,
               idle' \in Seq(Ids'), total' \in Nat
        PROVE  TypeOK'
    <2>1. unused' \in [Workers -> BOOLEAN]
      BY <1>5 DEF Connected, TypeOK
    <2>2. conn' \in [Workers -> Ids' \cup {0}]
      BY <1>1, <1>5 DEF Connected
    <2>3. sendMode' \in [Workers -> Modes \cup {"none"}] /\ usePool' \in [Workers -> BOOLEAN]
      BY <1>5 DEF Decides, TypeOK
    <2> QED BY <1>1, <1>2, <1>5, <2>1, <2>2, <2>3 DEF Connected, TypeOK, Goto, PCs, InSend, envVars
  <1>6. ASSUME NEW w \in Workers, Reuse(w) PROVE TypeOK'
    <2>1. PICK i \in {1, Len(idle)} \ {0} :
            /\ i <= Len(idle)
            /\ idle' = SubSeq(idle, 1, i - 1) \o SubSeq(idle, i + 1, Len(idle))
            /\ Connected(w, idle[i])
      BY <1>6 DEF Reuse
    <2>2. i \in 1..Len(idle) /\ idle[i] \in Ids
      <3>1. Len(idle) \in Nat /\ \A j \in 1..Len(idle) : idle[j] \in Ids
        BY ConnsType
      <3>2. i \in 1..Len(idle)
        BY <2>1, <3>1
      <3> QED BY <3>1, <3>2
    <2>3. idle' \in Seq(Ids)
      BY <2>1, <2>2, TakenFromIdle
    <2>4. idle' \in Seq(Ids') /\ idle[i] \in Ids'
      BY <1>1, <2>2, <2>3, SeqMonotonic
    <2>5. total' \in Nat
      BY <1>6 DEF Reuse, TypeOK
    <2> QED BY <1>5, <1>6, <2>1, <2>4, <2>5 DEF Reuse
  <1>7. ASSUME NEW w \in Workers, PickServer(w) \/ OpenSingle(w) PROVE TypeOK'
    <2>1. Len(conns) + 1 \in Ids'
      BY <1>7, OpenStep DEF PickServer, OpenSingle, New
    <2>2. total' \in Nat /\ idle' = idle
      BY <1>7 DEF PickServer, OpenSingle, poolVars, TypeOK
    <2> QED BY <1>1, <1>5, <1>7, <2>1, <2>2 DEF PickServer, OpenSingle
  <1>8. ASSUME NEW w \in Workers, OwnConnection(w) PROVE TypeOK'
    <2>1. dedicated[w] \in Ids'
      BY <1>1, <1>8 DEF OwnConnection
    <2>2. total' \in Nat /\ idle' = idle
      BY <1>8 DEF OwnConnection, TypeOK, poolVars
    <2> QED BY <1>1, <1>5, <1>8, <2>1, <2>2 DEF OwnConnection
  <1>9. ASSUME NEW w \in Workers, OpenDedicated(w) PROVE TypeOK'
    <2>1. Len(conns) + 1 \in Ids'
      BY <1>9, OpenDedicatedStep DEF New
    <2>2. total' \in Nat /\ idle' = idle
      BY <1>9 DEF OpenDedicated, TypeOK, poolVars
    <2> QED BY <1>1, <1>5, <1>9, <2>1, <2>2 DEF OpenDedicated
  <1>10. ASSUME NEW w \in Workers, NoConnection(w) PROVE TypeOK'
    <2>1. unused' \in [Workers -> BOOLEAN]
      BY <1>10 DEF NoConnection, TypeOK
    <2> QED BY <1>1, <1>2, <1>10, <2>1 DEF NoConnection, TypeOK, Goto, PCs, InSend, envVars,
            poolVars
  <1>11. ASSUME NEW w \in Workers, Transmit(w) PROVE TypeOK'
    <2>1. result' \in [Workers -> {"ok", "error"}]
      BY <1>11 DEF Transmit, TypeOK
    <2> QED BY <1>1, <1>2, <1>11, <2>1 DEF Transmit, TypeOK, Goto, PCs, InSend, envVars, poolVars
  <1>12. ASSUME NEW w \in Workers, Finish(w) PROVE TypeOK'
    <2>1. conn[w] \in Ids'
      BY <1>12, FinishStep
    <2>2. idle' \in Seq(Ids')
      BY <1>1, <1>12, <2>1, FinishStep, AppendProperties
    <2>3. total' \in Nat
      <3>1. CASE usePool[w] /\ ~closed
        <4>1. w \in Borrowers
          BY <1>12, <3>1 DEF Borrowers, Busy, Finish
        <4>2. total >= 1
          BY <4>1, BorrowerCounts
        <4> QED BY <1>12, <4>2, FinishStep DEF TypeOK
      <3>2. CASE ~(usePool[w] /\ ~closed)
        BY <1>12, <3>2, FinishStep DEF TypeOK
      <3> QED BY <3>1, <3>2
    <2>4. conn' \in [Workers -> Ids' \cup {0}]
      BY <1>1, <1>12, FinishStep
    <2> QED BY <1>1, <1>2, <1>12, <2>2, <2>3, <2>4, FinishMoves DEF Finish, TypeOK, envVars
  <1>13. ASSUME NEW w \in Workers, Replace(w) PROVE TypeOK'
    <2>1. dedicated' \in [Workers -> Ids' \cup {0}]
      <3>1. dedicated'[w] \in Ids' \cup {0}
        BY <1>1, <1>13, ReplaceStep DEF New
      <3>2. dedicated' = dedicated \/ dedicated' = [dedicated EXCEPT ![w] = dedicated'[w]]
        BY <1>1, <1>13 DEF Replace
      <3> QED BY <1>1, <3>1, <3>2
    <2> QED BY <1>1, <1>2, <1>13, <2>1 DEF Replace, TypeOK, Goto, PCs, InSend, envVars, poolVars
  <1>14. ASSUME NEW w \in Workers, Exit(w) PROVE TypeOK'
    BY <1>1, <1>2, <1>14 DEF Exit, TypeOK, Goto, PCs, InSend, envVars, poolVars, sendVars
  <1>15. CASE Around
    <2>1. CASE TimeOut
      BY <1>1, <1>2, <2>1 DEF TimeOut, TypeOK, poolVars, workerVars, sendVars
    <2>2. CASE StopServers
      BY <1>1, <1>2, <2>2 DEF StopServers, TypeOK, poolVars, workerVars, sendVars
    <2>3. ASSUME NEW m \in Modes, SetConnectionMode(m) PROVE TypeOK'
      <3>1. switches' \in 0..MaxSwitches
        BY <2>3, ClientAssumption DEF SetConnectionMode, TypeOK
      <3> QED BY <1>1, <1>2, <2>3, <3>1 DEF SetConnectionMode, TypeOK, poolVars, workerVars,
              sendVars
    <2> QED BY <1>15, <2>1, <2>2, <2>3 DEF Around
  <1>16. CASE CloseClient
    <2>1. idle' \in Seq(Ids')
      BY <1>16, EmptySeq DEF CloseClient
    <2>2. pc' \in [Workers -> PCs]
      BY <1>16 DEF CloseClient, TypeOK, PCs, InSend, InGet
    <2> QED BY <1>1, <1>2, <1>16, <2>1, <2>2 DEF CloseClient, TypeOK, sendVars
  <1>17. CASE UNCHANGED vars
    BY <1>17 DEF vars, TypeOK, Ids
  <1>18. ASSUME NEW w \in Workers, Asking(w) PROVE TypeOK'
    <2>1. pc' \in [Workers -> PCs] /\ UNCHANGED <<conn, dedicated, idle>>
      BY <1>18, AskingStep
    <2>2. CASE EnterGet(w)
      BY <1>1, <1>2, <2>1, <2>2 DEF EnterGet, Decides, TypeOK, envVars, poolVars
    <2>3. CASE Reserve(w) \/ SeeFull(w) \/ Wait(w)
      <3>1. total' \in Nat
        BY <2>3 DEF Reserve, SeeFull, Wait, TypeOK
      <3> QED BY <1>1, <1>2, <2>1, <2>3, <3>1 DEF Reserve, SeeFull, Wait, getVars, TypeOK, envVars
    <2>4. CASE PickFails(w)
      <3>1. w \in Borrowers
        BY <2>4 DEF PickFails, Borrowers
      <3>2. total' \in Nat
        BY <2>4, <3>1, BorrowerCounts DEF PickFails, TypeOK
      <3> QED BY <1>1, <1>2, <2>1, <2>4, <3>2 DEF PickFails, getVars, TypeOK, envVars
    <2>5. CASE WakeClosed(w) \/ PickFailSignals(w)
      <3>1. GetFails(w) /\ missed' \subseteq Workers
        BY <2>5 DEF WakeClosed, PickFailSignals, TypeOK
      <3> QED BY <1>1, <1>2, <2>1, <3>1 DEF GetFails, Returns, getVars, TypeOK, envVars
    <2> QED BY <1>18, <2>2, <2>3, <2>4, <2>5 DEF Asking
  <1> QED BY <1>3, <1>4, <1>6, <1>7, <1>8, <1>9, <1>10, <1>11, <1>12, <1>13, <1>14, <1>15,
             <1>16, <1>17, <1>18 DEF Next, Step, Quiet, Asking, Around

-----------------------------------------------------------------------------
(* One user per connection. *)

\* Send goes on with a connection that is new, or its worker's own, or with none.
LEMMA PrivateConn ==
  ASSUME TypeOK, Private, NEW w \in Workers, NEW n, n \in {0, Len(conns) + 1, dedicated[w]},
         conn' = [conn EXCEPT ![w] = n], dedicated' = dedicated, idle' = idle
  PROVE  Private'
  <1>1. /\ \A v \in Workers : dedicated[v] \in Ids \cup {0} /\ conn[v] \in Ids \cup {0}
        /\ \A i \in 1..Len(idle) : idle[i] \in Ids
        /\ 0 \notin Ids /\ Len(conns) + 1 \notin Ids
    BY ConnsType
  <1>2. \A v \in Workers : conn'[v] = IF v = w THEN n ELSE conn[v]
    BY DEF TypeOK
  <1>3. \A u, v \in Workers : conn'[u] # 0 /\ conn'[u] = conn'[v] => u = v
    BY <1>1, <1>2 DEF Private
  <1>4. \A u, v \in Workers : conn'[u] # 0 /\ conn'[u] = dedicated[v] => u = v
    BY <1>1, <1>2 DEF Private
  <1>5. \A i \in 1..Len(idle) : \A v \in Workers : idle[i] # conn'[v]
    BY <1>1, <1>2 DEF Private
  <1> QED BY <1>3, <1>4, <1>5 DEF Private

\* A worker keeps a new connection, or none.
LEMMA PrivateDedicated ==
  ASSUME TypeOK, Private, NEW w \in Workers, NEW n, n \in {0, Len(conns) + 1, dedicated[w]},
         dedicated' = [dedicated EXCEPT ![w] = n], conn' = conn, idle' = idle
  PROVE  Private'
  <1>1. /\ \A v \in Workers : dedicated[v] \in Ids \cup {0} /\ conn[v] \in Ids \cup {0}
        /\ \A i \in 1..Len(idle) : idle[i] \in Ids
        /\ 0 \notin Ids /\ Len(conns) + 1 \notin Ids
    BY ConnsType
  <1>2. \A v \in Workers : dedicated'[v] = IF v = w THEN n ELSE dedicated[v]
    BY DEF TypeOK
  <1>3. \A u, v \in Workers : dedicated'[u] # 0 /\ dedicated'[u] = dedicated'[v] => u = v
    BY <1>1, <1>2 DEF Private
  <1>4. \A u, v \in Workers : conn[u] # 0 /\ conn[u] = dedicated'[v] => u = v
    BY <1>1, <1>2 DEF Private
  <1>5. \A i \in 1..Len(idle) : \A v \in Workers : idle[i] # dedicated'[v]
    BY <1>1, <1>2 DEF Private
  <1> QED BY <1>3, <1>4, <1>5 DEF Private

LEMMA PrivateStep ==
  ASSUME TypeOK, Private, InHand, [Next]_vars
  PROVE  Private'
  <1>0. UNCHANGED <<conn, dedicated, idle>> => Private'
    BY DEF Private
  <1>1. ASSUME NEW w \in Workers, Start(w) PROVE Private'
    <2>1. UNCHANGED <<conn, idle>>
      BY <1>1 DEF Start, sendVars, poolVars
    <2> QED BY <1>0, <1>1, <2>1, StartStep, PrivateDedicated
  <1>2. ASSUME NEW w \in Workers, Quiet(w) \/ Asking(w) \/ NoConnection(w) \/ Transmit(w)
        PROVE  Private'
    BY <1>0, <1>2, AskingStep DEF Quiet, NextRequest, GiveUp, Acquire, Refuse, NoConnection, Transmit,
       sendVars, poolVars
  <1>3. ASSUME NEW w \in Workers, Reuse(w) PROVE Private'
    <2>1. PICK i \in {1, Len(idle)} \ {0} :
            /\ i <= Len(idle)
            /\ idle' = SubSeq(idle, 1, i - 1) \o SubSeq(idle, i + 1, Len(idle))
            /\ Connected(w, idle[i])
      BY <1>3 DEF Reuse
    <2>2. i \in 1..Len(idle) /\ idle[i] \in Ids /\ Len(idle) \in Nat
      BY <2>1, ConnsType
    <2>3. /\ Len(idle') = Len(idle) - 1
          /\ \A j \in 1..Len(idle') : idle'[j] = IF j < i THEN idle[j] ELSE idle[j + 1]
      BY <2>1, <2>2, TakenFromIdle
    <2>4. /\ \A v \in Workers : conn'[v] = IF v = w THEN idle[i] ELSE conn[v]
          /\ dedicated' = dedicated
      BY <2>1 DEF Connected, TypeOK
    <2>5. \A u, v \in Workers : conn'[u] # 0 /\ conn'[u] = conn'[v] => u = v
      BY <2>2, <2>4 DEF Private
    <2>6. \A u, v \in Workers : conn'[u] # 0 /\ conn'[u] = dedicated[v] => u = v
      BY <2>2, <2>4 DEF Private
    <2>7. \A j \in 1..Len(idle') : \E k \in 1..Len(idle) \ {i} :
            idle'[j] = idle[k] /\ k = (IF j < i THEN j ELSE j + 1)
      BY <2>2, <2>3
    <2>8. \A j, k \in 1..Len(idle') : idle'[j] = idle'[k] => j = k
      <3>1. SUFFICES ASSUME NEW j \in 1..Len(idle'), NEW k \in 1..Len(idle'), idle'[j] = idle'[k]
                     PROVE  j = k
        OBVIOUS
      <3>2. (IF j < i THEN j ELSE j + 1) = (IF k < i THEN k ELSE k + 1)
        BY <2>7, <3>1 DEF Private
      <3> QED BY <2>2, <2>3, <3>2
    <2>9. \A j \in 1..Len(idle') : \A v \in Workers : idle'[j] # conn'[v] /\ idle'[j] # dedicated[v]
      <3>1. SUFFICES ASSUME NEW j \in 1..Len(idle'), NEW v \in Workers
                     PROVE  idle'[j] # conn'[v] /\ idle'[j] # dedicated[v]
        OBVIOUS
      <3>2. PICK k \in 1..Len(idle) \ {i} : idle'[j] = idle[k]
        BY <2>7
      <3>3. idle[k] # idle[i] /\ idle[k] # conn[v] /\ idle[k] # dedicated[v]
        BY <2>2, <3>2 DEF Private
      <3> QED BY <2>4, <3>2, <3>3
    <2> QED BY <2>4, <2>5, <2>6, <2>8, <2>9 DEF Private
  <1>4. ASSUME NEW w \in Workers, PickServer(w) \/ OpenSingle(w) \/ OpenDedicated(w)
        PROVE  Private'
    <2>1. conn' = [conn EXCEPT ![w] = Len(conns) + 1] /\ dedicated' = dedicated /\ idle' = idle
      BY <1>4 DEF PickServer, OpenSingle, OpenDedicated, Connected, poolVars
    <2> QED BY <2>1, PrivateConn
  <1>5. ASSUME NEW w \in Workers, OwnConnection(w) PROVE Private'
    <2>1. conn' = [conn EXCEPT ![w] = dedicated[w]] /\ dedicated' = dedicated /\ idle' = idle
      BY <1>5 DEF OwnConnection, Connected, poolVars
    <2> QED BY <2>1, PrivateConn
  <1>6. ASSUME NEW w \in Workers, Finish(w) PROVE Private'
    <2>1. conn' = [conn EXCEPT ![w] = 0] /\ dedicated' = dedicated /\ conn[w] \in Ids
      BY <1>6, FinishStep
    <2>2. CASE idle' = idle
      BY <2>1, <2>2, PrivateConn
    <2>3. CASE usePool[w] /\ idle' = Append(idle, conn[w])
      <3>1. idle \in Seq(Ids) /\ Len(idle) \in Nat
        BY ConnsType DEF TypeOK
      <3>2. /\ Len(idle') = Len(idle) + 1
            /\ \A i \in 1..Len(idle) : idle'[i] = idle[i]
            /\ idle'[Len(idle) + 1] = conn[w]
        BY <2>1, <2>3, <3>1, AppendProperties
      <3>3. \A v \in Workers : conn'[v] = IF v = w THEN 0 ELSE conn[v]
        BY <2>1 DEF TypeOK
      <3>4. conn[w] # dedicated[w] /\ conn[w] # 0
        BY <1>6, <2>1, <2>3, ConnsType DEF InHand, Busy, Finish
      <3>5. \A v \in Workers : conn[w] # conn'[v] /\ conn[w] # dedicated[v]
        BY <3>3, <3>4 DEF Private
      <3>6. \A i \in 1..Len(idle) : idle[i] # conn[w]
        BY DEF Private
      <3>7. \A i, j \in 1..Len(idle') : idle'[i] = idle'[j] => i = j
        BY <3>1, <3>2, <3>6 DEF Private
      <3>8. \A i \in 1..Len(idle') : \A v \in Workers :
              idle'[i] # conn'[v] /\ idle'[i] # dedicated[v]
        <4>1. \A i \in 1..Len(idle) : \A v \in Workers : idle[i] # conn'[v] /\ idle[i] # dedicated[v]
          <5>1. \A i \in 1..Len(idle) : idle[i] # 0
            BY ConnsType
          <5> QED BY <3>3, <5>1 DEF Private
        <4> QED BY <3>1, <3>2, <3>5, <4>1
      <3>9. \A u, v \in Workers : conn'[u] # 0 /\ (conn'[u] = conn'[v] \/ conn'[u] = dedicated[v])
                                    => u = v
        BY <3>3 DEF Private
      <3> QED BY <2>1, <3>7, <3>8, <3>9 DEF Private
    <2> QED BY <1>6, <2>2, <2>3, FinishStep
  <1>7. ASSUME NEW w \in Workers, Replace(w) PROVE Private'
    <2>1. UNCHANGED <<conn, idle>>
      BY <1>7 DEF Replace, poolVars
    <2>2. \/ dedicated' = dedicated
          \/ dedicated' = [dedicated EXCEPT ![w] = Len(conns) + 1]
          \/ dedicated' = [dedicated EXCEPT ![w] = 0]
      BY <1>7 DEF Replace
    <2> QED BY <1>0, <2>1, <2>2, PrivateDedicated
  <1>8. ASSUME NEW w \in Workers, Exit(w) PROVE Private'
    <2>1. UNCHANGED <<conn, idle>> /\ dedicated' = [dedicated EXCEPT ![w] = 0]
      BY <1>8 DEF Exit, poolVars, sendVars
    <2> QED BY <2>1, PrivateDedicated
  <1>9. CASE Around
    BY <1>0, <1>9 DEF Around, TimeOut, StopServers, SetConnectionMode, workerVars, sendVars,
       poolVars
  <1>10. CASE CloseClient
    <2>1. idle' = <<>> /\ UNCHANGED <<conn, dedicated>>
      BY <1>10 DEF CloseClient, sendVars
    <2>2. Len(idle') = 0
      BY <2>1
    <2> QED BY <2>1, <2>2 DEF Private
  <1>11. CASE UNCHANGED vars
    BY <1>0, <1>11 DEF vars
  <1> QED BY <1>1, <1>2, <1>3, <1>4, <1>5, <1>6, <1>7, <1>8, <1>9, <1>10, <1>11
          DEF Next, Step, Quiet, Asking, Around

-----------------------------------------------------------------------------
(* Connections of the pool are open. *)

\* Steps that open or close nothing of the pool.
LEMMA PoolFrame ==
  ASSUME TypeOK, InHand, IdleUsable, conn' = conn, usePool' = usePool, idle' = idle,
         \A v \in Workers : Busy(v)' <=> Busy(v),
         \A v \in Workers : Busy(v) => dedicated'[v] = dedicated[v],
         \A v \in Workers : Busy(v) /\ usePool[v] => conns'[conn[v]].closed = conns[conn[v]].closed,
         \A i \in 1..Len(idle) : /\ conns'[idle[i]].closed = conns[idle[i]].closed
                                 /\ conns'[idle[i]].count = conns[idle[i]].count
  PROVE  InHand' /\ IdleUsable'
  BY DEF InHand, IdleUsable

\* Send goes on with connection c.
LEMMA PoolConnect ==
  ASSUME TypeOK, InHand, Private, NEW w \in Workers, NEW c, NEW b \in BOOLEAN, c # 0,
         ~Busy(w), ConnectedBy(w, c, b),
         b => c # dedicated[w] /\ ~conns'[c].closed,
         \A v \in Workers : Busy(v) /\ usePool[v] => conns'[conn[v]].closed = conns[conn[v]].closed
  PROVE  InHand'
  <1>1. /\ \A v \in Workers : conn'[v] = IF v = w THEN c ELSE conn[v]
        /\ \A v \in Workers : usePool'[v] = IF v = w THEN b ELSE usePool[v]
        /\ \A v \in Workers : Busy(v)' <=> (v = w \/ Busy(v))
        /\ dedicated' = dedicated
    BY DEF ConnectedBy, Connected, TypeOK, Goto, Busy
  <1>2. SUFFICES ASSUME NEW v \in Workers
                 PROVE  /\ conn'[v] # 0 <=> Busy(v)'
                        /\ Busy(v)' /\ usePool'[v] =>
                             conn'[v] # dedicated'[v] /\ ~conns'[conn'[v]].closed
    BY DEF InHand
  <1>3. CASE v = w
    BY <1>1, <1>3
  <1>4. CASE v # w
    BY <1>1, <1>4 DEF InHand
  <1> QED BY <1>3, <1>4

\* The idle connections stay what they are.
LEMMA IdleFrame ==
  ASSUME IdleUsable, idle' = idle,
         \A i \in 1..Len(idle) : /\ conns'[idle[i]].closed = conns[idle[i]].closed
                                 /\ conns'[idle[i]].count = conns[idle[i]].count
  PROVE  IdleUsable'
  BY DEF IdleUsable

\* A step that closes one connection leaves those of the pool alone if they are others.
LEMMA PoolKeptBut ==
  ASSUME TypeOK, NEW c, KeptBut(c) \/ KeptButStray(c) \/ Kept,
         \A v \in Workers : Busy(v) /\ usePool[v] => conn[v] # c,
         \A i \in 1..Len(idle) : idle[i] # c,
         InHand
  PROVE  /\ \A v \in Workers : Busy(v) /\ usePool[v] => conns'[conn[v]] = conns[conn[v]]
         /\ \A i \in 1..Len(idle) : conns'[idle[i]] = conns[idle[i]]
  <1>1. \A v \in Workers : Busy(v) => conn[v] \in Ids
    BY ConnsType DEF InHand
  <1>2. \A i \in 1..Len(idle) : idle[i] \in Ids
    BY ConnsType
  <1>3. \A d \in Ids : d # c => conns'[d] = conns[d]
    BY DEF KeptBut, KeptButStray, Kept
  <1> QED BY <1>1, <1>2, <1>3

LEMMA PoolStep ==
  ASSUME TypeOK, Private, InHand, Pooled, IdleUsable, [Next]_vars
  PROVE  InHand' /\ IdleUsable'
  <1>0. UNCHANGED <<conns, conn, dedicated, usePool, idle>>
          /\ (\A v \in Workers : Busy(v)' <=> Busy(v)) => InHand' /\ IdleUsable'
    BY DEF InHand, IdleUsable
  <1>a. \A w \in Workers : ~Busy(w) =>
          /\ \A v \in Workers : Busy(v) /\ usePool[v] => conn[v] # dedicated[w]
          /\ \A i \in 1..Len(idle) : idle[i] # dedicated[w]
    BY DEF Private, InHand
  <1>1. ASSUME NEW w \in Workers, Quiet(w) PROVE InHand' /\ IdleUsable'
    <2>1. UNCHANGED <<conns, conn, dedicated, usePool, idle>>
      BY <1>1 DEF Quiet, NextRequest, GiveUp, Acquire, Refuse, sendVars, poolVars
    <2>2. \A v \in Workers : Busy(v)' <=> Busy(v)
      BY <1>1 DEF Quiet, NextRequest, GiveUp, Acquire, Refuse, Goto, TypeOK, Busy
    <2> QED BY <1>0, <2>1, <2>2
  <1>2. ASSUME NEW w \in Workers, Start(w) \/ Replace(w) \/ Exit(w) \/ NoConnection(w)
        PROVE  InHand' /\ IdleUsable'
    <2>1. UNCHANGED <<conn, usePool, idle>>
      BY <1>2 DEF Start, Replace, Exit, NoConnection, sendVars, poolVars
    <2>2. ~Busy(w) /\ \A v \in Workers : Busy(v)' <=> Busy(v)
      BY <1>2 DEF Start, Replace, Exit, NoConnection, Goto, TypeOK, Busy
    <2>3. \A v \in Workers : v # w => dedicated'[v] = dedicated[v]
      BY <1>2 DEF Start, Replace, Exit, NoConnection, TypeOK
    <2>4. KeptBut(dedicated[w]) \/ KeptButStray(dedicated[w]) \/ Kept
      BY <1>2, StartStep, ReplaceStep, ExitStep, NoConnectionStep
    <2>5. /\ \A v \in Workers : Busy(v) /\ usePool[v] => conns'[conn[v]] = conns[conn[v]]
          /\ \A i \in 1..Len(idle) : conns'[idle[i]] = conns[idle[i]]
      BY <1>a, <2>2, <2>4, PoolKeptBut
    <2> QED BY <2>1, <2>2, <2>3, <2>5, PoolFrame
  <1>3. ASSUME NEW w \in Workers, Reuse(w) PROVE InHand' /\ IdleUsable'
    <2>1. PICK i \in {1, Len(idle)} \ {0} :
            /\ i <= Len(idle)
            /\ idle' = SubSeq(idle, 1, i - 1) \o SubSeq(idle, i + 1, Len(idle))
            /\ ConnectedBy(w, idle[i], TRUE)
      BY <1>3, ReuseConnects
    <2>2. i \in 1..Len(idle) /\ idle[i] \in Ids /\ Len(idle) \in Nat /\ idle[i] # 0
      BY <2>1, ConnsType
    <2>3. /\ Len(idle') = Len(idle) - 1
          /\ \A j \in 1..Len(idle') : idle'[j] = IF j < i THEN idle[j] ELSE idle[j + 1]
      BY <2>1, <2>2, TakenFromIdle
    <2>4. \A j \in 1..Len(idle') : \E k \in 1..Len(idle) : idle'[j] = idle[k]
      BY <2>2, <2>3
    <2>5. conns' = conns /\ ~Busy(w)
      BY <1>3 DEF Reuse, Busy
    <2>6. idle[i] # dedicated[w] /\ ~conns'[idle[i]].closed
      BY <2>2, <2>5 DEF Private, IdleUsable
    <2>7. InHand'
      BY <2>1, <2>2, <2>5, <2>6, PoolConnect
    <2>8. IdleUsable'
      BY <2>4, <2>5 DEF IdleUsable
    <2> QED BY <2>7, <2>8
  <1>4. ASSUME NEW w \in Workers, NEW b \in BOOLEAN, ~Busy(w),
               ConnectedBy(w, Len(conns) + 1, b), idle' = idle,
               Kept \/ KeptBut(dedicated[w]), \E str : New(Len(conns) + 1, str)
        PROVE  InHand' /\ IdleUsable'
    <2>1. ~Busy(w) /\ Len(conns) + 1 # 0 /\ Len(conns) + 1 # dedicated[w]
      BY <1>4, ConnsType
    <2>2. ~conns'[Len(conns) + 1].closed
      BY <1>4 DEF New
    <2>3. /\ \A v \in Workers : Busy(v) /\ usePool[v] => conns'[conn[v]] = conns[conn[v]]
          /\ \A i \in 1..Len(idle) : conns'[idle[i]] = conns[idle[i]]
      BY <1>a, <1>4, <2>1, PoolKeptBut
    <2>4. InHand'
      BY <1>4, <2>1, <2>2, <2>3, PoolConnect
    <2>5. IdleUsable'
      BY <1>4, <2>3, IdleFrame
    <2> QED BY <2>4, <2>5
  <1>5. ASSUME NEW w \in Workers, PickServer(w) \/ OpenSingle(w) PROVE InHand' /\ IdleUsable'
    <2>1. Kept /\ New(Len(conns) + 1, FALSE)
      BY <1>5, OpenStep DEF PickServer, OpenSingle
    <2>2. ~Busy(w) /\ idle' = idle
      BY <1>5 DEF PickServer, OpenSingle, poolVars, Busy
    <2>3. ConnectedBy(w, Len(conns) + 1, TRUE) \/ ConnectedBy(w, Len(conns) + 1, FALSE)
      BY <1>5, PickServerConnects, SingleConnects
    <2> QED BY <1>4, <2>1, <2>2, <2>3
  <1>6. ASSUME NEW w \in Workers, OpenDedicated(w) PROVE InHand' /\ IdleUsable'
    <2>1. New(Len(conns) + 1, TRUE) /\ (Kept \/ KeptBut(dedicated[w]))
      BY <1>6, OpenDedicatedStep
    <2>2. ~Busy(w) /\ idle' = idle /\ ConnectedBy(w, Len(conns) + 1, FALSE)
      BY <1>6, SingleConnects DEF OpenDedicated, poolVars, Busy
    <2> QED BY <1>4, <2>1, <2>2
  <1>7. ASSUME NEW w \in Workers, OwnConnection(w) PROVE InHand' /\ IdleUsable'
    <2>1. /\ ~Busy(w) /\ conns' = conns /\ idle' = idle /\ dedicated[w] # 0
          /\ ConnectedBy(w, dedicated[w], FALSE)
      BY <1>7, SingleConnects DEF OwnConnection, poolVars, Busy
    <2>2. InHand'
      BY <2>1, PoolConnect
    <2> QED BY <2>1, <2>2, IdleFrame
  <1>8. ASSUME NEW w \in Workers, Transmit(w) PROVE InHand' /\ IdleUsable'
    <2>1. UNCHANGED <<conn, usePool, idle, dedicated>>
      BY <1>8 DEF Transmit, poolVars
    <2>2. \A v \in Workers : Busy(v)' <=> Busy(v)
      BY <1>8 DEF Transmit, Goto, TypeOK, Busy
    <2>3. /\ \A d \in Ids \ {conn[w]} : conns'[d] = conns[d]
          /\ conns'[conn[w]].closed = conns[conn[w]].closed
      BY <1>8, TransmitStep
    <2>4. \A i \in 1..Len(idle) : conns'[idle[i]] = conns[idle[i]]
      BY <2>3, ConnsType DEF Private
    <2>5. \A v \in Workers : Busy(v) => conn[v] \in Ids
      BY ConnsType DEF InHand
    <2>6. \A v \in Workers : Busy(v) => conns'[conn[v]].closed = conns[conn[v]].closed
      BY <2>3, <2>5
    <2> QED BY <2>1, <2>2, <2>4, <2>6, PoolFrame
  <1>9. ASSUME NEW w \in Workers, Finish(w) PROVE InHand' /\ IdleUsable'
    <2>1. /\ \A v \in Workers : conn'[v] = IF v = w THEN 0 ELSE conn[v]
          /\ \A v \in Workers : Busy(v)' <=> (Busy(v) /\ v # w)
          /\ dedicated' = dedicated /\ \A v \in Workers \ {w} : usePool'[v] = usePool[v]
      BY <1>9, FinishStep, FinishMoves DEF TypeOK, Busy, Moved
    <2>2. Busy(w) /\ conn[w] \in Ids /\ conn[w] # 0 /\ (Kept \/ KeptBut(conn[w]))
      BY <1>9, FinishStep, ConnsType DEF Finish, Busy
    <2>3. \A v \in Workers : Busy(v) => conn[v] \in Ids
      BY ConnsType DEF InHand
    <2>4. \A v \in Workers : Busy(v) /\ v # w => conns'[conn[v]] = conns[conn[v]]
      <3>1. \A v \in Workers : v # w => conn[v] # conn[w]
        BY <2>2 DEF Private
      <3> QED BY <2>2, <2>3, <3>1 DEF Kept, KeptBut
    <2>5. InHand'
      <3>1. SUFFICES ASSUME NEW v \in Workers
                     PROVE  /\ conn'[v] # 0 <=> Busy(v)'
                            /\ Busy(v)' /\ usePool'[v] =>
                                 conn'[v] # dedicated'[v] /\ ~conns'[conn'[v]].closed
        BY DEF InHand
      <3> QED BY <2>1, <2>4 DEF InHand
    <2>6. \A i \in 1..Len(idle) : conns'[idle[i]] = conns[idle[i]]
      <3>1. \A i \in 1..Len(idle) : idle[i] # conn[w] /\ idle[i] \in Ids
        BY ConnsType DEF Private
      <3> QED BY <2>2, <3>1 DEF Kept, KeptBut
    <2>7. CASE idle' = idle
      BY <2>5, <2>6, <2>7, IdleFrame
    <2>8. CASE usePool[w] /\ idle' = Append(idle, conn[w]) /\ Kept /\ ~ShouldClose(conn[w])
      <3>1. idle \in Seq(Ids) /\ Len(idle) \in Nat
        BY ConnsType DEF TypeOK
      <3>2. /\ Len(idle') = Len(idle) + 1
            /\ \A i \in 1..Len(idle) : idle'[i] = idle[i]
            /\ idle'[Len(idle) + 1] = conn[w]
        BY <2>2, <2>8, <3>1, AppendProperties
      <3>3. ~conns[conn[w]].closed
        BY <2>2, <2>8 DEF InHand
      <3>4. conns[conn[w]].count < MaxRequests
        <4>1. conns[conn[w]].count \in Nat
          BY <2>2, ConnsType
        <4>2. MaxRequests \in Nat
          BY ClientAssumption
        <4>3. ~(conns[conn[w]].count >= MaxRequests)
          BY <2>8 DEF ShouldClose
        <4> QED BY <4>1, <4>2, <4>3
      <3>5. conns'[conn[w]] = conns[conn[w]]
        BY <2>2, <2>8 DEF Kept
      <3>6. ASSUME NEW i \in 1..Len(idle')
            PROVE  ~conns'[idle'[i]].closed /\ conns'[idle'[i]].count < MaxRequests
        <4>1. CASE i \in 1..Len(idle)
          BY <2>6, <3>2, <4>1 DEF IdleUsable
        <4>2. CASE i = Len(idle) + 1
          BY <3>2, <3>3, <3>4, <3>5, <4>2
        <4> QED BY <3>1, <3>2, <4>1, <4>2
      <3> QED BY <2>5, <3>6 DEF IdleUsable
    <2> QED BY <1>9, <2>7, <2>8, FinishStep
  <1>10. CASE Around
    BY <1>0, <1>10 DEF Around, TimeOut, StopServers, SetConnectionMode, workerVars, sendVars,
       poolVars, Busy
  <1>11. CASE CloseClient
    <2>1. /\ idle' = <<>> /\ UNCHANGED <<conn, dedicated, usePool>>
          /\ \A v \in Workers : Busy(v)' <=> Busy(v)
      BY <1>11 DEF CloseClient, sendVars, Asleep, Busy
    <2>2. Len(idle') = 0
      BY <2>1
    <2>3. \A v \in Workers : Busy(v) => conns'[conn[v]] = conns[conn[v]]
      <3>1. \A v \in Workers : Busy(v) => conn[v] \in Ids
        BY ConnsType DEF InHand
      <3>2. \A d \in Ids : (\A i \in 1..Len(idle) : idle[i] # d) => conns'[d] = conns[d]
        BY <1>11, CloseClientStep
      <3>3. \A v \in Workers : \A i \in 1..Len(idle) : idle[i] # conn[v]
        BY DEF Private
      <3> QED BY <3>1, <3>2, <3>3
    <2>4. InHand'
      BY <2>1, <2>3 DEF InHand
    <2>5. IdleUsable'
      BY <2>2 DEF IdleUsable
    <2> QED BY <2>4, <2>5
  <1>12. CASE UNCHANGED vars
    BY <1>0, <1>12 DEF vars, Busy
  <1>13. ASSUME NEW w \in Workers, Asking(w) PROVE InHand' /\ IdleUsable'
    <2>1. UNCHANGED <<conns, conn, dedicated, idle>>
      BY <1>13, AskingStep
    <2>2. /\ ~Busy(w) /\ ~Busy(w)'
          /\ \A v \in Workers \ {w} : (Busy(v)' <=> Busy(v)) /\ usePool'[v] = usePool[v]
      BY <1>13, AskingStep DEF Busy, Moved, InGet
    <2>3. InHand'
      BY <2>1, <2>2 DEF InHand
    <2> QED BY <2>1, <2>3 DEF IdleUsable
  <1> QED BY <1>1, <1>2, <1>3, <1>5, <1>6, <1>7, <1>8, <1>9, <1>10, <1>11, <1>12, <1>13
          DEF Next, Step, Quiet, Asking, Around

\* A Send inside Get keeps to its decision.
LEMMA PooledStep ==
  ASSUME TypeOK, Pooled, [Next]_vars
  PROVE  Pooled'
  <1>1. ASSUME NEW w \in Workers, pc'[w] \in InGet => usePool'[w],
               \A v \in Workers \ {w} : Moved(v) /\ usePool'[v] = usePool[v]
        PROVE  Pooled'
    <2>1. SUFFICES ASSUME NEW v \in Workers, pc'[v] \in InGet PROVE usePool'[v]
      BY DEF Pooled
    <2>2. CASE v = w
      BY <1>1, <2>1, <2>2
    <2>3. CASE v # w
      BY <1>1, <2>1, <2>3 DEF Pooled, Moved, InGet
    <2> QED BY <2>2, <2>3
  <1>2. ASSUME NEW w \in Workers, Quiet(w) PROVE Pooled'
    <2>1. pc'[w] \notin InGet /\ \A v \in Workers \ {w} : Moved(v) /\ usePool'[v] = usePool[v]
      BY <1>2 DEF Quiet, NextRequest, GiveUp, Acquire, Refuse, Goto, TypeOK, sendVars, Moved, InGet
    <2> QED BY <1>1, <2>1
  <1>3. ASSUME NEW w \in Workers,
               Start(w) \/ NoConnection(w) \/ Transmit(w) \/ Replace(w) \/ Exit(w)
        PROVE  Pooled'
    <2>1. pc'[w] \notin InGet /\ \A v \in Workers \ {w} : Moved(v) /\ usePool'[v] = usePool[v]
      BY <1>3 DEF Start, NoConnection, Transmit, Replace, Exit, Goto, TypeOK, sendVars, Moved, InGet
    <2> QED BY <1>1, <2>1
  <1>4. ASSUME NEW w \in Workers, NEW c, NEW b, ConnectedBy(w, c, b) PROVE Pooled'
    <2>1. pc'[w] \notin InGet /\ \A v \in Workers \ {w} : Moved(v) /\ usePool'[v] = usePool[v]
      BY <1>4 DEF ConnectedBy, Connected, Goto, TypeOK, Moved, InGet
    <2> QED BY <1>1, <2>1
  <1>5. ASSUME NEW w \in Workers, Finish(w) PROVE Pooled'
    <2>1. pc'[w] \notin InGet /\ \A v \in Workers \ {w} : Moved(v) /\ usePool'[v] = usePool[v]
      BY <1>5, FinishMoves DEF InGet
    <2> QED BY <1>1, <2>1
  <1>6. ASSUME NEW w \in Workers, Asking(w) PROVE Pooled'
    <2>1. /\ pc'[w] \in InGet => usePool'[w]
          /\ \A v \in Workers \ {w} : Moved(v) /\ usePool'[v] = usePool[v]
      BY <1>6, AskingStep DEF Pooled, InGet
    <2> QED BY <1>1, <2>1
  <1>7. ASSUME NEW w \in Workers,
               Reuse(w) \/ PickServer(w) \/ OpenSingle(w) \/ OwnConnection(w) \/ OpenDedicated(w)
        PROVE  Pooled'
    BY <1>4, <1>7, ReuseConnects, PickServerConnects, SingleConnects
  <1>8. CASE Around \/ UNCHANGED vars
    BY <1>8 DEF Around, TimeOut, StopServers, SetConnectionMode, workerVars, sendVars, vars, Pooled
  <1>9. CASE CloseClient
    BY <1>9 DEF CloseClient, sendVars, Pooled, Asleep, InGet
  <1> QED BY <1>2, <1>3, <1>5, <1>6, <1>7, <1>8, <1>9 DEF Next, Step, Quiet, Asking, Around

-----------------------------------------------------------------------------
(* The slots of the pool. *)

LEMMA WorkersFinite ==
  ASSUME NEW S \in SUBSET Workers
  PROVE  IsFiniteSet(S) /\ Cardinality(S) \in Nat
  BY ClientAssumption, FS_Subset, FS_CardinalityType

\* Send goes on with or without a connection of the pool.
LEMMA BorrowersConnect ==
  ASSUME TypeOK, NEW w \in Workers, NEW c, NEW b \in BOOLEAN, ~Busy(w), pc[w] = "pick" => b,
         ConnectedBy(w, c, b)
  PROVE  Cardinality(Borrowers') = Cardinality(Borrowers) +
           (IF b /\ pc[w] # "pick" THEN 1 ELSE 0)
  <1>1. (w \in Borrowers <=> pc[w] = "pick") /\ Borrowers \in SUBSET Workers
    BY DEF Borrowers
  <1>2. Borrowers' = IF b THEN Borrowers \cup {w} ELSE Borrowers
    <2>1. /\ \A v \in Workers : pc'[v] = IF v = w THEN "transmit" ELSE pc[v]
          /\ \A v \in Workers : usePool'[v] = IF v = w THEN b ELSE usePool[v]
      BY DEF ConnectedBy, Connected, TypeOK, Goto
    <2> QED BY <2>1 DEF Borrowers, Busy
  <1>3. IsFiniteSet(Borrowers) /\ Cardinality(Borrowers) \in Nat
    BY <1>1, WorkersFinite
  <1>4. w \notin Borrowers => Cardinality(Borrowers \cup {w}) = Cardinality(Borrowers) + 1
    BY <1>3, FS_AddElement
  <1>5. w \in Borrowers => Borrowers \cup {w} = Borrowers
    OBVIOUS
  <1> QED BY <1>1, <1>2, <1>3, <1>4, <1>5

\* A step of w that may wake others changes nothing about their slots.
LEMMA BorrowersOthers ==
  ASSUME NEW w \in Workers, \A v \in Workers \ {w} : Moved(v) /\ usePool'[v] = usePool[v]
  PROVE  \A v \in Workers \ {w} : v \in Borrowers' <=> v \in Borrowers
  BY DEF Borrowers, Busy, Moved

LEMMA SlotsStep ==
  ASSUME TypeOK, InHand, Pooled, Slots, [Next]_vars
  PROVE  Slots'
  <1>0. UNCHANGED <<closed, total, idle>> /\ Borrowers' = Borrowers => Slots'
    BY DEF Slots
  <1>a. Len(idle) \in Nat /\ Cardinality(Borrowers) \in Nat /\ total \in Nat
    BY ConnsType, WorkersFinite DEF Borrowers, TypeOK
  <1>1. ASSUME NEW w \in Workers,
               Quiet(w) \/ Start(w) \/ Replace(w) \/ Exit(w) \/ NoConnection(w) \/ Transmit(w)
        PROVE  Slots'
    <2>1. UNCHANGED <<closed, total, idle, usePool>>
      BY <1>1 DEF Quiet, NextRequest, GiveUp, Acquire, Refuse, Start, Replace, Exit, NoConnection,
         Transmit, sendVars, poolVars, envVars
    <2>2. \A v \in Workers : (Busy(v)' <=> Busy(v)) /\ (pc'[v] = "pick" <=> pc[v] = "pick")
      <3>1. CASE Quiet(w)
        BY <3>1 DEF Quiet, NextRequest, GiveUp, Acquire, Refuse, Goto, TypeOK, Busy
      <3>2. CASE Start(w) \/ Replace(w) \/ Exit(w) \/ NoConnection(w) \/ Transmit(w)
        BY <3>2 DEF Start, Replace, Exit, NoConnection, Transmit, Goto, TypeOK, Busy
      <3> QED BY <1>1, <3>1, <3>2
    <2>3. Borrowers' = Borrowers
      BY <2>1, <2>2 DEF Borrowers
    <2> QED BY <1>0, <2>1, <2>3
  <1>2. ASSUME NEW w \in Workers, Reuse(w) PROVE Slots'
    <2>1. PICK i \in {1, Len(idle)} \ {0} :
            /\ i <= Len(idle)
            /\ idle' = SubSeq(idle, 1, i - 1) \o SubSeq(idle, i + 1, Len(idle))
            /\ ConnectedBy(w, idle[i], TRUE)
      BY <1>2, ReuseConnects
    <2>2. i \in 1..Len(idle)
      BY <1>a, <2>1
    <2>3. Len(idle') = Len(idle) - 1
      BY <2>1, <2>2, TakenFromIdle
    <2>4. total' = total /\ ~Busy(w) /\ pc[w] # "pick" /\ closed' = closed
      BY <1>2, <2>1 DEF Reuse, ConnectedBy, Connected, envVars, Busy
    <2>5. Cardinality(Borrowers') = Cardinality(Borrowers) + 1
      BY <2>1, <2>4, BorrowersConnect
    <2> QED BY <1>a, <2>3, <2>4, <2>5 DEF Slots
  <1>3. ASSUME NEW w \in Workers, PickServer(w) PROVE Slots'
    <2>1. total' = total /\ idle' = idle /\ ~Busy(w) /\ pc[w] = "pick" /\ closed' = closed
      BY <1>3 DEF PickServer, Connected, envVars, poolVars, Busy
    <2>2. Cardinality(Borrowers') = Cardinality(Borrowers) + 0
      BY <1>3, <2>1, PickServerConnects, BorrowersConnect
    <2> QED BY <1>a, <2>1, <2>2 DEF Slots
  <1>4. ASSUME NEW w \in Workers, OpenSingle(w) \/ OwnConnection(w) \/ OpenDedicated(w)
        PROVE  Slots'
    <2>1. /\ total' = total /\ idle' = idle /\ ~Busy(w) /\ pc[w] # "pick" /\ closed' = closed
      BY <1>4 DEF OpenSingle, OwnConnection, OpenDedicated, Connected, envVars, poolVars, Busy
    <2>2. PICK c : ConnectedBy(w, c, FALSE)
      BY <1>4, SingleConnects
    <2>3. Cardinality(Borrowers') =
            Cardinality(Borrowers) + (IF FALSE /\ pc[w] # "pick" THEN 1 ELSE 0)
      BY <2>1, <2>2, BorrowersConnect, Zenon
    <2> QED BY <1>a, <2>1, <2>3 DEF Slots
  <1>5. ASSUME NEW w \in Workers, Finish(w) PROVE Slots'
    <2>1. Borrowers' = Borrowers \ {w} /\ closed' = closed
      <3>1. w \notin Borrowers'
        BY <1>5, FinishMoves DEF Borrowers, Busy
      <3>2. \A v \in Workers \ {w} : v \in Borrowers' <=> v \in Borrowers
        BY <1>5, FinishMoves, BorrowersOthers
      <3>3. Borrowers \subseteq Workers /\ Borrowers' \subseteq Workers
        BY DEF Borrowers
      <3> QED BY <1>5, <3>1, <3>2, <3>3, FinishStep
    <2>2. CASE usePool[w]
      <3>1. w \in Borrowers /\ IsFiniteSet(Borrowers)
        BY <1>5, <2>2, WorkersFinite DEF Borrowers, Busy, Finish
      <3>2. Cardinality(Borrowers') = Cardinality(Borrowers) - 1
        BY <2>1, <3>1, FS_RemoveElement
      <3>3. CASE idle' = Append(idle, conn[w]) /\ total' = total
        <4>1. Len(idle') = Len(idle) + 1
          BY <1>5, <3>3, FinishStep, AppendProperties DEF TypeOK
        <4> QED BY <1>a, <2>1, <3>2, <3>3, <4>1 DEF Slots
      <3>4. CASE idle' = idle /\ total' = IF closed THEN total ELSE total - 1
        BY <1>a, <2>1, <3>2, <3>4 DEF Slots
      <3> QED BY <1>5, <2>2, <3>3, <3>4, FinishStep
    <2>3. CASE ~usePool[w]
      <3>1. Borrowers' = Borrowers
        BY <1>5, <2>1, <2>3 DEF Borrowers, Finish
      <3> QED BY <1>0, <1>5, <2>1, <2>3, <3>1, FinishStep
    <2> QED BY <2>2, <2>3
  <1>6. CASE Around
    BY <1>0, <1>6 DEF Around, TimeOut, StopServers, SetConnectionMode, workerVars, sendVars,
       poolVars, Busy, Borrowers
  <1>7. CASE CloseClient
    <2>1. closed' /\ ~closed /\ total' = total /\ Len(idle') = 0
      BY <1>7 DEF CloseClient
    <2>2. Borrowers' = Borrowers
      BY <1>7 DEF CloseClient, sendVars, Borrowers, Busy, Asleep
    <2> QED BY <1>a, <2>1, <2>2 DEF Slots
  <1>8. CASE UNCHANGED vars
    BY <1>0, <1>8 DEF vars, Busy, Borrowers
  <1>9. ASSUME NEW w \in Workers, Asking(w) PROVE Slots'
    <2>1. UNCHANGED <<idle, closed>> /\ ~Busy(w) /\ ~Busy(w)'
      BY <1>9, AskingStep DEF Busy, InGet
    <2>2. /\ w \in Borrowers <=> PickFails(w)
          /\ w \in Borrowers' <=> Reserve(w)
      BY <1>9, <2>1, AskingStep DEF Borrowers
    <2>3. \A v \in Workers \ {w} : v \in Borrowers' <=> v \in Borrowers
      BY <1>9, AskingStep, BorrowersOthers
    <2>4. /\ Borrowers \subseteq Workers /\ Borrowers' \subseteq Workers
          /\ IsFiniteSet(Borrowers)
      BY WorkersFinite DEF Borrowers
    <2>5. CASE Reserve(w)
      <3>1. total' = total + 1 /\ pc[w] # "pick" /\ pc'[w] = "pick"
        BY <1>9, <2>5, AskingStep DEF Reserve
      <3>2. w \notin Borrowers /\ Borrowers' = Borrowers \cup {w}
        BY <2>1, <2>2, <2>3, <2>4, <2>5, <3>1 DEF Borrowers
      <3>3. Cardinality(Borrowers') = Cardinality(Borrowers) + 1
        BY <2>4, <3>2, FS_AddElement
      <3> QED BY <1>a, <2>1, <3>1, <3>3 DEF Slots
    <2>6. CASE PickFails(w)
      <3>1. total' = total - 1 /\ ~Reserve(w)
        BY <2>6 DEF PickFails, Reserve
      <3>2. w \in Borrowers /\ Borrowers' = Borrowers \ {w}
        BY <2>2, <2>3, <2>4, <2>6, <3>1
      <3>3. Cardinality(Borrowers') = Cardinality(Borrowers) - 1
        BY <2>4, <3>2, FS_RemoveElement
      <3> QED BY <1>a, <2>1, <3>1, <3>3 DEF Slots
    <2>7. CASE ~Reserve(w) /\ ~PickFails(w)
      <3>1. total' = total
        BY <1>9, <2>7 DEF Asking, EnterGet, SeeFull, Wait, WakeClosed, PickFailSignals, GetFails,
           poolVars
      <3>2. Borrowers' = Borrowers
        BY <2>2, <2>3, <2>4, <2>7
      <3> QED BY <1>0, <2>1, <3>1, <3>2
    <2> QED BY <2>5, <2>6, <2>7
  <1> QED BY <1>1, <1>2, <1>3, <1>4, <1>5, <1>6, <1>7, <1>8, <1>9
          DEF Next, Step, Quiet, Asking, Around

-----------------------------------------------------------------------------
(* The requests. *)

LEMMA SharedStep ==
  ASSUME TypeOK, Shared, [Next]_vars
  PROVE  Shared'
  <1>a. /\ attempts \in Nat /\ counter \in Nat /\ Requests \in Nat
        /\ IsFiniteSet(Sending) /\ Cardinality(Sending) \in Nat
    BY ClientAssumption, WorkersFinite DEF TypeOK, Sending
  <1>0. /\ UNCHANGED <<attempts, counter, ctxDone>>
        /\ Sending' = Sending
        /\ \A v \in Workers : pc'[v] \in {"exit", "gone"} => pc[v] \in {"exit", "gone"}
        => Shared'
    BY DEF Shared
  <1>1. ASSUME NEW w \in Workers, NextRequest(w) PROVE Shared'
    <2>1. /\ counter' = counter + 1 /\ UNCHANGED <<attempts, ctxDone>> /\ w \notin Sending
      BY <1>1 DEF NextRequest, envVars, Sending
    <2>2. CASE counter + 1 > Requests \/ ctxDone
      <3>1. Sending' = Sending
        BY <1>1, <2>2 DEF NextRequest, Goto, TypeOK, Sending
      <3> QED BY <1>a, <1>1, <2>1, <2>2, <3>1 DEF Shared
    <2>3. CASE ~(counter + 1 > Requests \/ ctxDone)
      <3>1. pc' = [pc EXCEPT ![w] = "send"]
        BY <1>1, <2>3 DEF NextRequest, Goto
      <3>2. Sending' = Sending \cup {w} /\ \A v \in Workers : v # w => pc'[v] = pc[v]
        BY <3>1 DEF TypeOK, Sending
      <3>3. Cardinality(Sending') = Cardinality(Sending) + 1
        BY <1>a, <2>1, <3>2, FS_AddElement
      <3>4. pc'[w] = "send"
        BY <3>1 DEF TypeOK
      <3>5. \A v \in Workers : pc'[v] \in {"exit", "gone"} => counter > Requests
        BY <2>3, <3>2, <3>4 DEF Shared
      <3>6. \A v \in Workers : pc'[v] \in {"exit", "gone"} => counter' > Requests
        BY <1>a, <2>1, <3>5
      <3> QED BY <1>a, <2>1, <2>3, <3>3, <3>6 DEF Shared
    <2> QED BY <2>2, <2>3
  <1>2. ASSUME NEW w \in Workers, GiveUp(w) \/ Acquire(w) \/ Refuse(w) PROVE Shared'
    <2>1. w \in Sending /\ UNCHANGED <<counter, ctxDone>>
      BY <1>2 DEF GiveUp, Acquire, Refuse, Sending, envVars
    <2>2. Sending' = Sending \ {w}
      BY <1>2 DEF GiveUp, Acquire, Refuse, Goto, TypeOK, Sending
    <2>3. Cardinality(Sending') = Cardinality(Sending) - 1
      BY <1>a, <2>1, <2>2, FS_RemoveElement
    <2>4. CASE GiveUp(w)
      BY <1>a, <2>1, <2>3, <2>4 DEF GiveUp, Shared
    <2>5. CASE Acquire(w) \/ Refuse(w)
      <3>1. attempts' = attempts + 1
        BY <2>5 DEF Acquire, Refuse
      <3>2. \A v \in Workers : pc'[v] \in {"exit", "gone"} => pc[v] \in {"exit", "gone"}
        BY <2>5 DEF Acquire, Refuse, Goto, TypeOK
      <3> QED BY <1>a, <2>1, <2>3, <3>1, <3>2 DEF Shared
    <2> QED BY <1>2, <2>4, <2>5
  <1>3. ASSUME NEW w \in Workers, Step(w), ~Quiet(w) PROVE Shared'
    <2>1. UNCHANGED <<attempts, counter, ctxDone>>
      BY <1>3, AskingStep DEF Step, Quiet, Asking, Start, Reuse, PickServer, OpenSingle,
         OwnConnection, OpenDedicated, Connected, NoConnection, Transmit, Finish, Replace, Exit,
         envVars
    <2>2. /\ pc[w] \notin {"send", "top"} /\ (pc[w] = "exit" => pc'[w] = "gone")
          /\ pc'[w] # "send" /\ (pc'[w] \in {"exit", "gone"} => pc[w] = "exit")
          /\ \A v \in Workers \ {w} : Moved(v)
      <3>1. CASE Asking(w)
        BY <3>1, AskingStep DEF InGet
      <3>2. CASE Finish(w)
        BY <3>2, FinishMoves
      <3>3. CASE ~Asking(w) /\ ~Finish(w)
        BY <1>3, <3>3 DEF Step, Quiet, Asking, Start, Reuse, PickServer, OpenSingle, OwnConnection,
           OpenDedicated, Connected, NoConnection, Transmit, Replace, Exit, Goto, TypeOK, Moved
      <3> QED BY <3>1, <3>2, <3>3
    <2>3. Sending' = Sending
      BY <2>2 DEF Sending, Moved
    <2>4. \A v \in Workers : pc'[v] \in {"exit", "gone"} => pc[v] \in {"exit", "gone"}
      BY <2>2 DEF Moved
    <2> QED BY <1>0, <2>1, <2>3, <2>4
  <1>4. CASE TimeOut
    <2>1. UNCHANGED <<attempts, pc>> /\ ctxDone' = TRUE /\ Sending' = Sending
      BY <1>4 DEF TimeOut, workerVars, Sending
    <2> QED BY <2>1 DEF Shared
  <1>5. CASE StopServers \/ CloseClient \/ \E m \in Modes : SetConnectionMode(m)
    <2>1. UNCHANGED <<attempts, counter, ctxDone>> /\ \A v \in Workers : Moved(v)
      BY <1>5 DEF StopServers, CloseClient, SetConnectionMode, workerVars, Moved, Asleep
    <2>2. Sending' = Sending
      BY <2>1 DEF Sending, Moved
    <2> QED BY <1>0, <2>1, <2>2 DEF Moved
  <1>6. CASE UNCHANGED vars
    BY <1>0, <1>6 DEF vars, Sending
  <1> QED BY <1>1, <1>2, <1>3, <1>4, <1>5, <1>6 DEF Next, Quiet

-----------------------------------------------------------------------------
(* Connections that somebody knows of. *)

\* No connection gets more requests on its server, and a stray remains one.
Gentle ==
  \A d \in Ids : /\ conns[d].stray => conns'[d].stray
                 /\ conns'[d].served = 0 \/ conns'[d].served = conns[d].served

LEMMA GentleStep ==
  ASSUME TypeOK, NEW c, Kept \/ KeptBut(c) \/ KeptButStray(c)
  PROVE  Gentle
  <1>1. CASE Kept
    BY <1>1 DEF Kept, Gentle
  <1>2. CASE KeptBut(c)
    BY <1>2 DEF KeptBut, Gentle
  <1>3. CASE KeptButStray(c)
    BY <1>3 DEF KeptButStray, Gentle
  <1> QED BY <1>1, <1>2, <1>3

LEMMA GentleCloseClient ==
  ASSUME TypeOK, CloseClient
  PROVE  Gentle
  <1>1. SUFFICES ASSUME NEW d \in Ids
                 PROVE  /\ conns[d].stray => conns'[d].stray
                        /\ conns'[d].served = 0 \/ conns'[d].served = conns[d].served
    BY DEF Gentle
  <1>2. CASE \A i \in 1..Len(idle) : idle[i] # d
    BY <1>2, CloseClientStep
  <1>3. CASE \E i \in 1..Len(idle) : idle[i] = d
    BY <1>3, CloseClientStep
  <1> QED BY <1>2, <1>3

\* What a step of w leaves to the others.
OthersKept(w) ==
  \A v \in Workers \ {w} :
    /\ Moved(v) /\ unused'[v] = unused[v] /\ conn'[v] = conn[v]
    /\ dedicated'[v] = dedicated[v] /\ usePool'[v] = usePool[v] /\ sendMode'[v] = sendMode[v]

LEMMA OthersStep ==
  ASSUME TypeOK, Pooled, NEW w \in Workers, Step(w)
  PROVE  OthersKept(w)
  <1>1. CASE Quiet(w)
    BY <1>1 DEF Quiet, NextRequest, GiveUp, Acquire, Refuse, Goto, TypeOK, OthersKept, sendVars,
       Moved
  <1>2. CASE Start(w) \/ NoConnection(w) \/ Transmit(w) \/ Replace(w) \/ Exit(w)
    BY <1>2 DEF Start, NoConnection, Transmit, Replace, Exit, Goto, TypeOK, OthersKept, sendVars,
       Moved
  <1>3. CASE Finish(w)
    <2>1. conn' = [conn EXCEPT ![w] = 0] /\ dedicated' = dedicated
      BY <1>3 DEF Finish
    <2> QED BY <1>3, <2>1, FinishMoves DEF OthersKept, TypeOK
  <1>4. CASE Reuse(w) \/ PickServer(w) \/ OpenSingle(w) \/ OwnConnection(w) \/ OpenDedicated(w)
    <2>1. \E c, b : ConnectedBy(w, c, b)
      BY <1>4, ReuseConnects, PickServerConnects, SingleConnects
    <2> QED BY <2>1 DEF ConnectedBy, Connected, Goto, TypeOK, OthersKept, Moved
  <1>5. CASE Asking(w)
    BY <1>5, AskingStep DEF OthersKept
  <1> QED BY <1>1, <1>2, <1>3, <1>4, <1>5 DEF Step, Quiet, Asking

LEMMA FollowedOthers ==
  ASSUME TypeOK, InHand, Followed, Gentle, NEW v \in Workers,
         Moved(v), unused'[v] = unused[v], conn'[v] = conn[v],
         dedicated'[v] = dedicated[v], usePool'[v] = usePool[v], sendMode'[v] = sendMode[v]
  PROVE  FollowedBy(v)'
  <1>1. /\ Busy(v) => conn[v] \in Ids
        /\ dedicated[v] # 0 => dedicated[v] \in Ids
    BY ConnsType DEF InHand
  <1>2. /\ Busy(v)' <=> Busy(v)
        /\ pc'[v] \in {"start", "replace"} => pc'[v] = pc[v]
    BY DEF Busy, Moved
  <1>3. FollowedBy(v)
    BY DEF Followed
  <1> QED BY <1>1, <1>2, <1>3 DEF FollowedBy, Gentle

\* Send goes on with connection c.
LEMMA FollowedConnect ==
  ASSUME TypeOK, NEW w \in Workers, NEW c, NEW b \in BOOLEAN, ConnectedBy(w, c, b),
         ~b /\ mode = "dedicated" => c = dedicated[w] \/ conns'[c].stray
  PROVE  FollowedBy(w)'
  <1>1. /\ pc'[w] = "transmit" /\ conn'[w] = c /\ dedicated' = dedicated
        /\ (b \/ sendMode'[w] = mode) /\ usePool'[w] = b
    BY DEF ConnectedBy, Connected, Goto, TypeOK
  <1>2. unused'[w] = (c # dedicated[w])
    BY DEF ConnectedBy, Connected, TypeOK
  <1> QED BY <1>1, <1>2 DEF FollowedBy

LEMMA FollowedStep ==
  ASSUME TypeOK, Private, InHand, Pooled, Followed, [Next]_vars
  PROVE  Followed'
  <1>0. ASSUME NEW w \in Workers, Step(w), Gentle, FollowedBy(w)' PROVE Followed'
    <2>1. OthersKept(w)
      BY <1>0, OthersStep
    <2>2. \A v \in Workers \ {w} : FollowedBy(v)'
      BY <1>0, <2>1, FollowedOthers DEF OthersKept
    <2> QED BY <1>0, <2>2 DEF Followed
  <1>a. conns' = conns => Gentle
    BY DEF Gentle
  <1>1. ASSUME NEW w \in Workers, Quiet(w) PROVE Followed'
    <2>1. Gentle /\ Step(w)
      BY <1>a, <1>1 DEF Quiet, NextRequest, GiveUp, Acquire, Refuse, Step
    <2>2. pc'[w] \in {"exit", "send", "connect", "replace"} /\ (pc'[w] = "replace" => unused'[w])
      BY <1>1 DEF Quiet, NextRequest, GiveUp, Acquire, Refuse, Goto, TypeOK
    <2>3. FollowedBy(w)'
      BY <2>2 DEF FollowedBy, Busy
    <2> QED BY <1>0, <2>1, <2>3
  <1>2. ASSUME NEW w \in Workers, Start(w) \/ Replace(w) \/ Exit(w) PROVE Followed'
    <2>1. Gentle
      BY <1>2, StartStep, ReplaceStep, ExitStep, GentleStep
    <2>2. pc'[w] \in {"top", "gone"} /\ Step(w)
      BY <1>2 DEF Start, Replace, Exit, Goto, TypeOK, Step
    <2>3. FollowedBy(w)'
      BY <2>2 DEF FollowedBy, Busy
    <2> QED BY <1>0, <2>1, <2>2, <2>3
  <1>3. ASSUME NEW w \in Workers, Reuse(w) \/ PickServer(w) \/ OpenSingle(w) \/ OwnConnection(w)
        PROVE  Followed'
    <2>1. Gentle /\ Step(w)
      <3>1. CASE Reuse(w) \/ OwnConnection(w)
        BY <1>a, <3>1 DEF Reuse, OwnConnection, Step
      <3>2. CASE PickServer(w) \/ OpenSingle(w)
        BY <3>2, OpenStep, GentleStep DEF PickServer, OpenSingle, Step
      <3> QED BY <1>3, <3>1, <3>2
    <2>2. \E c : \/ ConnectedBy(w, c, TRUE)
                 \/ ConnectedBy(w, c, FALSE) /\ (mode # "dedicated" \/ c = dedicated[w])
      <3>1. CASE Reuse(w) \/ PickServer(w)
        BY <3>1, ReuseConnects, PickServerConnects
      <3>2. CASE OpenSingle(w) \/ OwnConnection(w)
        BY <3>2, SingleConnects DEF OpenSingle
      <3> QED BY <1>3, <3>1, <3>2
    <2>3. FollowedBy(w)'
      BY <2>2, FollowedConnect
    <2> QED BY <1>0, <2>1, <2>3
  <1>4. ASSUME NEW w \in Workers, OpenDedicated(w) PROVE Followed'
    <2>1. Gentle /\ conns'[Len(conns) + 1].stray
      BY <1>4, OpenDedicatedStep, GentleStep DEF New
    <2>2. ConnectedBy(w, Len(conns) + 1, FALSE) /\ Step(w)
      BY <1>4, SingleConnects DEF Step
    <2> QED BY <1>0, <2>1, <2>2, FollowedConnect
  <1>5. ASSUME NEW w \in Workers, NoConnection(w) PROVE Followed'
    <2>1. Gentle /\ Step(w)
      BY <1>5, NoConnectionStep, GentleStep DEF Step
    <2>2. pc'[w] = "replace" /\ dedicated' = dedicated /\ (~unused'[w] => mode = "dedicated")
      BY <1>5 DEF NoConnection, Goto, TypeOK
    <2>3. mode = "dedicated" /\ dedicated[w] # 0 => conns'[dedicated[w]].served = 0
      BY <1>5, NoConnectionStep DEF KeptBut
    <2>4. FollowedBy(w)'
      BY <2>2, <2>3 DEF FollowedBy, Busy
    <2> QED BY <1>0, <2>1, <2>4
  <1>6. ASSUME NEW w \in Workers, Transmit(w) PROVE Followed'
    <2>1. /\ conn[w] \in Ids
          /\ \A d \in Ids \ {conn[w]} : conns'[d] = conns[d]
          /\ conns'[conn[w]].stray = conns[conn[w]].stray
      BY <1>6, TransmitStep
    <2>2. pc[w] = "transmit" /\ pc'[w] = "finish"
      BY <1>6 DEF Transmit, Goto, TypeOK
    <2>3. UNCHANGED <<conn, dedicated, unused, usePool, sendMode>>
      BY <1>6 DEF Transmit
    <2>4. FollowedBy(w)'
      BY <2>1, <2>2, <2>3 DEF Followed, FollowedBy, Busy
    <2>5. ASSUME NEW v \in Workers \ {w} PROVE FollowedBy(v)'
      <3>1. pc'[v] = pc[v] /\ (Busy(v)' <=> Busy(v))
        BY <1>6, <2>5 DEF Transmit, Goto, TypeOK, Busy
      <3>2. conn[w] # 0 /\ conn[w] # conn[v] /\ conn[w] # dedicated[v]
        BY <2>1, <2>5, ConnsType DEF Private
      <3>3. /\ Busy(v) => conns'[conn[v]] = conns[conn[v]]
            /\ dedicated[v] # 0 => conns'[dedicated[v]] = conns[dedicated[v]]
        BY <2>1, <3>2, ConnsType DEF InHand
      <3> QED BY <2>3, <3>1, <3>3 DEF Followed, FollowedBy
    <2> QED BY <2>4, <2>5 DEF Followed
  <1>7. ASSUME NEW w \in Workers, Finish(w) PROVE Followed'
    <2>1. Gentle /\ Step(w) /\ conn[w] \in Ids
      BY <1>7, FinishStep, GentleStep DEF Step
    <2>2. /\ pc[w] = "finish" /\ pc'[w] \in {"replace", "top"} /\ dedicated' = dedicated
          /\ pc'[w] = "replace" => result[w] = "error" \/ ShouldClose(conn[w])
          /\ pc'[w] = "replace" => unused'[w] = unused[w]
      BY <1>7, FinishStep, FinishMoves
    <2>3. ASSUME pc'[w] = "replace", ~unused[w] PROVE conns'[dedicated[w]].served = 0
      <3>1. conn[w] = dedicated[w] /\ ~usePool[w]
        BY <2>2, <2>3 DEF Followed, FollowedBy, InHand, Busy
      <3>2. ~Keeps(w)
        BY <2>2, <2>3 DEF Keeps
      <3>3. KeptBut(conn[w])
        BY <1>7, <3>1, <3>2, FinishStep
      <3> QED BY <3>1, <3>3 DEF KeptBut
    <2>4. FollowedBy(w)'
      BY <2>2, <2>3 DEF FollowedBy, Busy
    <2> QED BY <1>0, <2>1, <2>4
  <1>8. CASE Around \/ CloseClient \/ UNCHANGED vars
    <2>1. Gentle
      BY <1>a, <1>8, GentleCloseClient DEF Around, TimeOut, StopServers, SetConnectionMode, vars
    <2>2. UNCHANGED <<conn, dedicated, unused, usePool, sendMode>> /\ \A v \in Workers : Moved(v)
      BY <1>8 DEF Around, TimeOut, StopServers, SetConnectionMode, CloseClient, workerVars,
         sendVars, vars, Moved, Asleep
    <2> QED BY <2>1, <2>2, FollowedOthers DEF Followed
  <1>9. ASSUME NEW w \in Workers, Asking(w) PROVE Followed'
    <2>1. Gentle /\ Step(w)
      BY <1>a, <1>9, AskingStep DEF Asking, Step
    <2>2. /\ pc'[w] \in InGet \/ (pc'[w] = "replace" /\ unused'[w])
      BY <1>9, AskingStep
    <2>3. FollowedBy(w)'
      BY <2>2 DEF FollowedBy, Busy, InGet
    <2> QED BY <1>0, <2>1, <2>3
  <1> QED BY <1>1, <1>2, <1>3, <1>4, <1>5, <1>6, <1>7, <1>8, <1>9
          DEF Next, Step, Quiet, Asking, Around

\* Connection c stays where it is.
LEMMA PlacedFrame ==
  ASSUME NEW c, Placed(c),
         \A v \in Workers : conn[v] = c => \E u \in Workers : conn'[u] = c \/ dedicated'[u] = c,
         \A v \in Workers : dedicated[v] = c => \E u \in Workers : dedicated'[u] = c,
         \A i \in 1..Len(idle) : idle[i] = c =>
           \/ \E j \in 1..Len(idle') : idle'[j] = c
           \/ \E u \in Workers : conn'[u] = c
  PROVE  Placed(c)'
  BY DEF Placed

LEMMA KnownStep ==
  ASSUME TypeOK, Private, InHand, Pooled, Followed, Known, [Next]_vars
  PROVE  Known'
  <1>a. \A d \in Ids : conns[d].served \in Nat
    BY ConnsType, ClientAssumption
  <1>0. ASSUME Gentle, UNCHANGED <<conn, dedicated, idle>>, \A d \in Ids' \ Ids : conns'[d].served = 0
        PROVE  Known'
    <2>1. SUFFICES ASSUME NEW d \in Ids', conns'[d].served > 0, ~conns'[d].stray
                   PROVE  Placed(d)'
      BY DEF Known
    <2>2. d \in Ids
      BY <1>0, <2>1
    <2>3. Placed(d)
      BY <1>0, <2>1, <2>2 DEF Gentle, Known
    <2> QED BY <1>0, <2>3 DEF Placed
  <1>b. conns' = conns => Gentle /\ Ids' = Ids
    BY DEF Gentle, Ids
  <1>1. ASSUME NEW w \in Workers, Quiet(w) \/ Asking(w) \/ NoConnection(w) PROVE Known'
    <2>1. UNCHANGED <<conn, dedicated, idle>>
      BY <1>1, AskingStep DEF Quiet, NextRequest, GiveUp, Acquire, Refuse, NoConnection, sendVars, poolVars
    <2>2. Gentle /\ Ids' = Ids
      <3>1. CASE Quiet(w) \/ Asking(w)
        BY <1>b, <3>1, AskingStep DEF Quiet, NextRequest, GiveUp, Acquire, Refuse
      <3>2. CASE NoConnection(w)
        BY <3>2, NoConnectionStep, GentleStep
      <3> QED BY <1>1, <3>1, <3>2
    <2> QED BY <1>0, <2>1, <2>2
  <1>2. ASSUME NEW w \in Workers, Start(w) PROVE Known'
    <2>1. UNCHANGED <<conn, idle>> /\ pc[w] = "start"
      BY <1>2 DEF Start, sendVars, poolVars
    <2>2. CASE dedicated' = dedicated /\ conns' = conns
      BY <1>0, <1>b, <2>1, <2>2
    <2>3. CASE New(Len(conns) + 1, FALSE) /\ dedicated' = [dedicated EXCEPT ![w] = Len(conns) + 1]
      <3>1. SUFFICES ASSUME NEW d \in Ids', conns'[d].served > 0, ~conns'[d].stray
                     PROVE  Placed(d)'
        BY DEF Known
      <3>2. d \in Ids /\ d # 0
        BY <2>3, <3>1, ConnsType DEF New
      <3>3. Placed(d)
        BY <1>2, <3>1, <3>2, StartStep DEF Kept, Known
      <3>4. dedicated[w] = 0 /\ \A v \in Workers \ {w} : dedicated'[v] = dedicated[v]
        BY <2>1, <2>3 DEF Followed, FollowedBy, TypeOK
      <3>5. \A v \in Workers : dedicated[v] = d => dedicated'[v] = d
        BY <3>2, <3>4
      <3> QED BY <2>1, <3>3, <3>5, PlacedFrame
    <2> QED BY <1>2, <2>2, <2>3, StartStep
  <1>3. ASSUME NEW w \in Workers, NEW c, NEW b, ~Busy(w), ConnectedBy(w, c, b), Gentle,
               \A d \in Ids' \ Ids : conns'[d].served = 0,
               \A i \in 1..Len(idle) : idle[i] = c \/ \E j \in 1..Len(idle') : idle'[j] = idle[i]
        PROVE  Known'
    <2>1. SUFFICES ASSUME NEW d \in Ids', conns'[d].served > 0, ~conns'[d].stray
                   PROVE  Placed(d)'
      BY DEF Known
    <2>2. d \in Ids /\ d # 0
      BY <1>3, <2>1, ConnsType
    <2>3. Placed(d)
      BY <1>3, <2>1, <2>2 DEF Gentle, Known
    <2>4. /\ conn[w] = 0 /\ conn'[w] = c /\ dedicated' = dedicated
          /\ \A v \in Workers \ {w} : conn'[v] = conn[v]
      BY <1>3 DEF InHand, ConnectedBy, Connected, TypeOK
    <2>5. \A v \in Workers : conn[v] = d => conn'[v] = d
      BY <2>2, <2>4
    <2>6. \A i \in 1..Len(idle) : idle[i] = d =>
            \/ \E j \in 1..Len(idle') : idle'[j] = d
            \/ \E u \in Workers : conn'[u] = d
      BY <1>3, <2>4
    <2> QED BY <2>3, <2>4, <2>5, <2>6, PlacedFrame
  <1>4. ASSUME NEW w \in Workers, Reuse(w) PROVE Known'
    <2>1. PICK i \in {1, Len(idle)} \ {0} :
            /\ i <= Len(idle)
            /\ idle' = SubSeq(idle, 1, i - 1) \o SubSeq(idle, i + 1, Len(idle))
            /\ ConnectedBy(w, idle[i], TRUE)
      BY <1>4, ReuseConnects
    <2>2. i \in 1..Len(idle) /\ Len(idle) \in Nat
      BY <2>1, ConnsType
    <2>3. /\ Len(idle') = Len(idle) - 1
          /\ \A j \in 1..Len(idle') : idle'[j] = IF j < i THEN idle[j] ELSE idle[j + 1]
      BY <2>1, <2>2, TakenFromIdle
    <2>4. \A k \in 1..Len(idle) \ {i} : \E j \in 1..Len(idle') : idle'[j] = idle[k]
      <3>1. SUFFICES ASSUME NEW k \in 1..Len(idle) \ {i}
                     PROVE  \E j \in 1..Len(idle') : idle'[j] = idle[k]
        OBVIOUS
      <3>2. CASE k < i
        BY <2>2, <2>3, <3>2
      <3>3. CASE k > i
        <4>1. k - 1 \in 1..Len(idle') /\ ~(k - 1 < i) /\ (k - 1) + 1 = k
          BY <2>2, <2>3, <3>3
        <4>2. idle'[k - 1] = idle[k]
          BY <2>3, <4>1
        <4> QED BY <4>1, <4>2
      <3> QED BY <2>2, <3>2, <3>3
    <2>5. ~Busy(w) /\ conns' = conns
      BY <1>4 DEF Reuse, Busy
    <2>6. \A k \in 1..Len(idle) : idle[k] = idle[i] \/ \E j \in 1..Len(idle') : idle'[j] = idle[k]
      BY <2>4
    <2> QED BY <1>3, <1>b, <2>1, <2>5, <2>6
  <1>5. ASSUME NEW w \in Workers,
               PickServer(w) \/ OpenSingle(w) \/ OwnConnection(w) \/ OpenDedicated(w)
        PROVE  Known'
    <2>1. ~Busy(w) /\ idle' = idle
      BY <1>5 DEF PickServer, OpenSingle, OwnConnection, OpenDedicated, poolVars, Busy
    <2>2. \E c, b : ConnectedBy(w, c, b)
      BY <1>5, PickServerConnects, SingleConnects
    <2>3. Gentle /\ \A d \in Ids' \ Ids : conns'[d].served = 0
      <3>1. CASE OwnConnection(w)
        BY <1>b, <3>1 DEF OwnConnection
      <3>2. CASE PickServer(w) \/ OpenSingle(w)
        <4>1. Kept /\ New(Len(conns) + 1, FALSE)
          BY <3>2, OpenStep DEF PickServer, OpenSingle
        <4> QED BY <4>1, GentleStep DEF New
      <3>3. CASE OpenDedicated(w)
        <4>1. New(Len(conns) + 1, TRUE) /\ (Kept \/ KeptBut(dedicated[w]))
          BY <3>3, OpenDedicatedStep
        <4> QED BY <4>1, GentleStep DEF New
      <3> QED BY <1>5, <3>1, <3>2, <3>3
    <2> QED BY <1>3, <2>1, <2>2, <2>3
  <1>6. ASSUME NEW w \in Workers, Transmit(w) PROVE Known'
    <2>1. /\ conn[w] \in Ids /\ Ids' = Ids
          /\ \A d \in Ids \ {conn[w]} : conns'[d] = conns[d]
      BY <1>6, TransmitStep
    <2>2. UNCHANGED <<conn, dedicated, idle>>
      BY <1>6 DEF Transmit, poolVars
    <2>3. Placed(conn[w])
      BY DEF Placed
    <2> QED BY <2>1, <2>2, <2>3 DEF Known, Placed
  <1>7. ASSUME NEW w \in Workers, Finish(w) PROVE Known'
    <2>1. SUFFICES ASSUME NEW d \in Ids', conns'[d].served > 0, ~conns'[d].stray
                   PROVE  Placed(d)'
      BY DEF Known
    <2>2. /\ d \in Ids /\ Gentle /\ dedicated' = dedicated
          /\ \A v \in Workers \ {w} : conn'[v] = conn[v]
      BY <1>7, <2>1, FinishStep, GentleStep DEF TypeOK
    <2>3. Placed(d) /\ ~conns[d].stray
      BY <2>1, <2>2 DEF Gentle, Known
    <2>4. \A i \in 1..Len(idle) : idle[i] = d => \E j \in 1..Len(idle') : idle'[j] = d
      <3>1. CASE idle' = idle
        BY <3>1
      <3>2. CASE idle' = Append(idle, conn[w])
        <4>1. idle \in Seq(Ids) /\ conn[w] \in Ids /\ Len(idle) \in Nat
          BY <1>7, FinishStep, ConnsType DEF TypeOK
        <4>2. /\ Len(idle') = Len(idle) + 1
              /\ \A i \in 1..Len(idle) : idle'[i] = idle[i]
          BY <3>2, <4>1, AppendProperties
        <4> QED BY <4>1, <4>2
      <3> QED BY <1>7, <3>1, <3>2, FinishStep
    <2>5. CASE conn[w] # d
      <3>1. \A v \in Workers : conn[v] = d => conn'[v] = d
        BY <2>2, <2>5
      <3> QED BY <2>2, <2>3, <2>4, <3>1, PlacedFrame
    <2>6. CASE conn[w] = d
      <3>1. ~KeptBut(conn[w])
        BY <2>1, <2>6, ClientAssumption DEF KeptBut
      <3>2. CASE idle' = Append(idle, conn[w])
        <4>1. idle \in Seq(Ids) /\ conn[w] \in Ids /\ Len(idle) \in Nat
          BY <1>7, FinishStep, ConnsType DEF TypeOK
        <4>2. Len(idle') = Len(idle) + 1 /\ idle'[Len(idle) + 1] = conn[w]
          BY <3>2, <4>1, AppendProperties
        <4>3. Len(idle) + 1 \in 1..Len(idle')
          BY <4>1, <4>2
        <4> QED BY <2>6, <4>2, <4>3 DEF Placed
      <3>3. CASE ~usePool[w] /\ Keeps(w)
        <4>1. Busy(w) /\ sendMode[w] = "dedicated"
          BY <1>7, <3>3 DEF Keeps, Finish, Busy
        <4>2. dedicated[w] = d
          BY <2>3, <2>6, <3>3, <4>1 DEF Followed, FollowedBy
        <4> QED BY <2>2, <4>2 DEF Placed
      <3> QED BY <1>7, <3>1, <3>2, <3>3, FinishStep
    <2> QED BY <2>5, <2>6
  <1>8. ASSUME NEW w \in Workers, Replace(w) PROVE Known'
    <2>1. UNCHANGED <<conn, idle>> /\ pc[w] = "replace"
      BY <1>8 DEF Replace, poolVars
    <2>2. Gentle /\ \A v \in Workers \ {w} : dedicated'[v] = dedicated[v]
      BY <1>8, ReplaceStep, GentleStep DEF Replace, TypeOK
    <2>3. \A d \in Ids' \ Ids : conns'[d].served = 0
      <3>1. New(Len(conns) + 1, FALSE) \/ Ids' = Ids \/ conns' = conns
        BY <1>8, ReplaceStep
      <3> QED BY <1>b, <3>1 DEF New
    <2>4. SUFFICES ASSUME NEW d \in Ids', conns'[d].served > 0, ~conns'[d].stray
                   PROVE  Placed(d)'
      BY DEF Known
    <2>5. d \in Ids /\ d # 0
      BY <2>3, <2>4, ConnsType
    <2>6. Placed(d)
      BY <2>2, <2>4, <2>5 DEF Gentle, Known
    <2>7. dedicated[w] = d => dedicated'[w] = d
      <3>1. SUFFICES ASSUME dedicated[w] = d, dedicated'[w] # dedicated[w] PROVE FALSE
        OBVIOUS
      <3>2. CASE unused[w]
        BY <1>8, <2>4, <2>5, <3>1, <3>2, ReplaceStep
      <3>3. CASE ~unused[w]
        <4>1. conns[d].served = 0
          BY <2>1, <2>5, <3>1, <3>3 DEF Followed, FollowedBy
        <4>2. conns'[d].served = 0
          BY <2>2, <2>5, <4>1 DEF Gentle
        <4> QED BY <2>4, <4>2
      <3> QED BY <3>2, <3>3
    <2>8. \A v \in Workers : dedicated[v] = d => dedicated'[v] = d
      BY <2>2, <2>7
    <2> QED BY <2>1, <2>6, <2>8, PlacedFrame
  <1>9. ASSUME NEW w \in Workers, Exit(w) PROVE Known'
    <2>1. UNCHANGED <<conn, idle>> /\ \A v \in Workers \ {w} : dedicated'[v] = dedicated[v]
      BY <1>9 DEF Exit, poolVars, sendVars, TypeOK
    <2>2. Gentle /\ Ids' = Ids
      BY <1>9, ExitStep, GentleStep
    <2>3. SUFFICES ASSUME NEW d \in Ids', conns'[d].served > 0, ~conns'[d].stray
                   PROVE  Placed(d)'
      BY DEF Known
    <2>4. d \in Ids /\ d # 0 /\ Placed(d)
      BY <2>2, <2>3, ConnsType DEF Gentle, Known
    <2>5. dedicated[w] # d
      <3>1. SUFFICES ASSUME dedicated[w] = d PROVE FALSE
        OBVIOUS
      <3>2. KeptBut(dedicated[w])
        BY <1>9, <2>4, <3>1, ExitStep
      <3>3. conns'[d].served = 0
        BY <3>1, <3>2 DEF KeptBut
      <3> QED BY <2>3, <3>3
    <2>6. \A v \in Workers : dedicated[v] = d => dedicated'[v] = d
      BY <2>1, <2>5
    <2> QED BY <2>1, <2>4, <2>6, PlacedFrame
  <1>10. CASE CloseClient
    <2>1. UNCHANGED <<conn, dedicated>>
      BY <1>10 DEF CloseClient, sendVars
    <2>2. Gentle /\ Ids' = Ids
      BY <1>10, CloseClientStep, GentleCloseClient
    <2>3. SUFFICES ASSUME NEW d \in Ids', conns'[d].served > 0, ~conns'[d].stray
                   PROVE  Placed(d)'
      BY DEF Known
    <2>4. d \in Ids /\ Placed(d)
      BY <2>2, <2>3 DEF Gentle, Known
    <2>5. \A i \in 1..Len(idle) : idle[i] # d
      BY <1>10, <2>3, CloseClientStep
    <2> QED BY <2>1, <2>4, <2>5, PlacedFrame
  <1>11. CASE Around \/ UNCHANGED vars
    <2>1. UNCHANGED <<conns, conn, dedicated, idle>>
      BY <1>11 DEF Around, TimeOut, StopServers, SetConnectionMode, workerVars, sendVars,
         poolVars, vars
    <2> QED BY <1>0, <1>b, <2>1
  <1> QED BY <1>1, <1>2, <1>4, <1>5, <1>6, <1>7, <1>8, <1>9, <1>10, <1>11
          DEF Next, Step, Quiet, Asking, Around

LEMMA NoneAstrayStep ==
  ASSUME TypeOK, InHand, NoneAstray, [Next]_vars
  PROVE  NoneAstray'
  <1>1. SUFFICES ASSUME "dedicated" \notin Modes
                 PROVE  /\ \A w \in Workers : dedicated'[w] = 0
                        /\ \A c \in Ids' : ~conns'[c].stray
    BY DEF NoneAstray
  <1>2. mode # "dedicated" /\ \A w \in Workers : dedicated[w] = 0
    BY <1>1 DEF NoneAstray, TypeOK
  <1>3. \A c \in Ids : ~conns[c].stray
    BY <1>1 DEF NoneAstray
  <1>4. \A w \in Workers : dedicated'[w] = 0
    <2>1. ASSUME NEW w \in Workers, Step(w) PROVE dedicated' = dedicated \/ Exit(w)
      BY <1>2, <2>1, AskingStep DEF Step, Asking, Start, NextRequest, GiveUp, Acquire, Refuse,
         Reuse, PickServer, OpenSingle, OwnConnection, OpenDedicated, Connected, NoConnection,
         Transmit, Finish, Replace
    <2>2. ASSUME NEW w \in Workers, Exit(w) PROVE \A v \in Workers : dedicated'[v] = 0
      BY <1>2, <2>2 DEF Exit, TypeOK
    <2>3. CASE TimeOut \/ StopServers \/ CloseClient \/ \E m \in Modes : SetConnectionMode(m)
      BY <1>2, <2>3 DEF TimeOut, StopServers, CloseClient, SetConnectionMode, workerVars
    <2> QED BY <1>2, <2>1, <2>2, <2>3 DEF Next, vars
  <1>5. Kept /\ Ids' = Ids => \A c \in Ids' : ~conns'[c].stray
    BY <1>3 DEF Kept
  <1>6. \A c \in Ids : KeptBut(c) /\ Ids' = Ids => \A d \in Ids' : ~conns'[d].stray
    BY <1>3 DEF KeptBut
  <1>7. conns' = conns => \A c \in Ids' : ~conns'[c].stray
    BY <1>3 DEF Ids
  <1>8. ASSUME NEW w \in Workers, Step(w) PROVE \A c \in Ids' : ~conns'[c].stray
    <2>1. CASE Quiet(w) \/ Asking(w) \/ Start(w) \/ Reuse(w) \/ OwnConnection(w) \/ Replace(w)
      BY <1>2, <1>7, <2>1, AskingStep DEF Quiet, NextRequest, GiveUp, Acquire, Refuse, Start, Reuse,
         OwnConnection, Replace
    <2>2. CASE PickServer(w) \/ OpenSingle(w)
      <3>1. Kept /\ New(Len(conns) + 1, FALSE)
        BY <2>2, OpenStep DEF PickServer, OpenSingle
      <3> QED BY <1>3, <3>1 DEF Kept, New
    <2>3. CASE OpenDedicated(w)
      BY <1>2, <2>3 DEF OpenDedicated
    <2>4. CASE NoConnection(w)
      BY <1>5, <1>6, <2>4, NoConnectionStep
    <2>5. CASE Transmit(w)
      <3>1. /\ Ids' = Ids
            /\ \A d \in Ids : conns'[d].stray = conns[d].stray
        BY <2>5, TransmitStep
      <3> QED BY <1>3, <3>1
    <2>6. CASE Finish(w)
      BY <1>5, <1>6, <2>6, FinishStep
    <2>7. CASE Exit(w)
      BY <1>5, <1>6, <2>7, ExitStep
    <2> QED BY <1>8, <2>1, <2>2, <2>3, <2>4, <2>5, <2>6, <2>7 DEF Step, Quiet, Asking
  <1>9. CASE CloseClient
    <2>1. Ids' = Ids /\ \A d \in Ids : conns'[d].stray = conns[d].stray
      BY <1>9, CloseClientStep
    <2> QED BY <1>3, <1>4, <2>1
  <1>10. CASE Around \/ UNCHANGED vars
    BY <1>4, <1>7, <1>10 DEF Around, TimeOut, StopServers, SetConnectionMode, vars
  <1> QED BY <1>4, <1>8, <1>9, <1>10 DEF Next, Around

-----------------------------------------------------------------------------
(* The theorems. *)

LEMMA InitClientInv == Init => ClientInv
  <1> SUFFICES ASSUME Init PROVE ClientInv
    OBVIOUS
  <1>1. Len(conns) = 0 /\ Len(idle) = 0 /\ Ids = {}
    BY DEF Init, Ids
  <1>2. TypeOK
    <2>1. conns \in Seq([count : Nat, closed : BOOLEAN, served : 0..MaxRequests,
                         stray : BOOLEAN]) /\ idle \in Seq(Ids)
      BY EmptySeq DEF Init
    <2>2. switches \in 0..MaxSwitches
      BY ClientAssumption DEF Init
    <2> QED BY <2>1, <2>2 DEF Init, TypeOK, PCs
  <1>3. Private
    BY <1>1 DEF Init, Private
  <1>4. InHand /\ Pooled /\ IdleUsable
    BY <1>1 DEF Init, InHand, Pooled, IdleUsable, Busy, InGet
  <1>5. Slots
    <2>1. Borrowers = {}
      BY DEF Init, Borrowers, Busy
    <2> QED BY <1>1, <2>1, FS_EmptySet DEF Init, Slots
  <1>6. Followed
    BY DEF Init, Followed, FollowedBy, Busy
  <1>7. Known /\ NoneAstray
    BY <1>1 DEF Init, Known, NoneAstray
  <1>8. Shared
    <2>1. Sending = {}
      BY DEF Init, Sending
    <2>2. Cardinality(Sending) = 0
      BY <2>1, FS_EmptySet
    <2>3. attempts = 0 /\ counter = 0 /\ \A w \in Workers : pc[w] = "start"
      BY DEF Init
    <2> QED BY <2>2, <2>3, ClientAssumption DEF Shared
  <1> QED BY <1>2, <1>3, <1>4, <1>5, <1>6, <1>7, <1>8 DEF ClientInv

LEMMA NextClientInv == ClientInv /\ [Next]_vars => ClientInv'
  BY TypeStep, PrivateStep, PoolStep, PooledStep, SlotsStep, FollowedStep, KnownStep, NoneAstrayStep,
     SharedStep DEF ClientInv

LEMMA ClientInvariant == Spec => []ClientInv
  BY InitClientInv, NextClientInv, PTL DEF Spec

(***************************************************************************)
(* The state of the client and of its workers has its type: in particular  *)
(* the pool's TotalConnections, from which Put and a failed Get of         *)
(* pkg/client/connection.go subtract, does not become negative, and no     *)
(* list refers to a connection that was never opened.                      *)
(***************************************************************************)
THEOREM ClientTypes == Spec => []TypeOK
  BY ClientInvariant, PTL DEF ClientInv

LEMMA ExclusiveHolds ==
  ASSUME ClientInv
  PROVE  Exclusive
  <1>1. SUFFICES ASSUME NEW c \in Ids
                 PROVE  LET places == {i \in 1..Len(idle) : idle[i] = c} IN
                        /\ Cardinality(Owners(c)) + Cardinality(places) <= 1
                        /\ places # {} => ~conns[c].closed /\ ~ShouldClose(c)
    BY DEF Exclusive
  <1> DEFINE places == {i \in 1..Len(idle) : idle[i] = c}
  <1>2. TypeOK /\ Private /\ IdleUsable
    BY DEF ClientInv
  <1>3. c # 0 /\ conns[c].count \in Nat /\ MaxRequests \in Nat
    BY <1>2, ConnsType, ClientAssumption
  <1>4. \A v, w \in Owners(c) : v = w
    BY <1>2, <1>3 DEF Private, Owners
  <1>5. \A i, j \in places : i = j
    BY <1>2 DEF Private
  <1>6. Owners(c) = {} \/ places = {}
    BY <1>2 DEF Private, Owners
  <1>7. places # {} => ~conns[c].closed /\ ~ShouldClose(c)
    <2>1. SUFFICES ASSUME NEW i \in places PROVE ~conns[c].closed /\ ~ShouldClose(c)
      OBVIOUS
    <2>2. ~conns[c].closed /\ conns[c].count < MaxRequests
      BY <1>2 DEF IdleUsable
    <2> QED BY <1>3, <2>2 DEF ShouldClose
  <1> HIDE DEF places
  <1>8. ASSUME NEW S, \A x, y \in S : x = y PROVE Cardinality(S) \in {0, 1}
    <2>1. CASE S = {}
      BY <2>1, FS_EmptySet
    <2>2. CASE S # {}
      <3>1. PICK x : x \in S
        BY <2>2
      <3>2. S = {x}
        BY <1>8, <3>1
      <3> QED BY <3>2, FS_Singleton
    <2> QED BY <2>1, <2>2
  <1>9. /\ Cardinality(Owners(c)) \in {0, 1} /\ Cardinality(places) \in {0, 1}
        /\ Cardinality(Owners(c)) = 0 \/ Cardinality(places) = 0
    BY <1>4, <1>5, <1>6, <1>8, FS_EmptySet
  <1>10. Cardinality(Owners(c)) + Cardinality(places) <= 1
    BY <1>9
  <1> QED BY <1>7, <1>10 DEF places

(***************************************************************************)
(* A connection has one user, in every mode and across changes of the      *)
(* mode: client.go hands a connection out of the pool, to a Send or to a   *)
(* worker, never to two of them, and the pool keeps only usable ones.      *)
(***************************************************************************)
THEOREM ClientExclusive == Spec => []Exclusive
  BY ClientInvariant, ExclusiveHolds, PTL

LEMMA PlacedSomewhere ==
  ASSUME NEW c, Placed(c)
  PROVE  Owners(c) # {} \/ \E i \in 1..Len(idle) : idle[i] = c
  BY DEF Placed, Owners

LEMMA OnlyStraysHolds == ClientInv => OnlyStrays
  BY PlacedSomewhere DEF ClientInv, Known, OnlyStrays

(***************************************************************************)
(* A server's entry that nobody will close belongs to a connection lost in *)
(* one of the known ways: Send of client.go opened it for a worker that    *)
(* had none, or runClient replaced it after a Send that had not used it.   *)
(***************************************************************************)
THEOREM ClientOnlyStrays == Spec => []OnlyStrays
  BY ClientInvariant, OnlyStraysHolds, PTL

(***************************************************************************)
(* As long as the dedicated mode is not among those in use, every entry of *)
(* a server has somebody who will close it: the three other modes of       *)
(* Client.Send lose nothing, whatever fails or stops.                      *)
(***************************************************************************)
THEOREM ClientNoOrphan ==
  ASSUME "dedicated" \notin Modes
  PROVE  Spec => []NoOrphan
  <1>1. ClientInv => NoOrphan
    <2>1. SUFFICES ASSUME ClientInv, NEW c \in Ids, conns[c].served > 0
                   PROVE  Owners(c) # {} \/ \E i \in 1..Len(idle) : idle[i] = c
      BY DEF NoOrphan
    <2>2. ~conns[c].stray
      BY <2>1 DEF ClientInv, NoneAstray
    <2>3. Placed(c)
      BY <2>1, <2>2 DEF ClientInv, Known
    <2> QED BY <2>3, PlacedSomewhere
  <1> QED BY <1>1, ClientInvariant, PTL

LEMMA RequestsExactHolds ==
  ASSUME ClientInv
  PROVE  RequestsExact
  <1>1. TypeOK /\ Shared
    BY DEF ClientInv
  <1>2. /\ attempts \in Nat /\ counter \in Nat /\ Requests \in Nat
        /\ Cardinality(Sending) \in Nat
    BY <1>1, ClientAssumption, WorkersFinite DEF TypeOK, Sending
  <1>3. attempts <= Requests
    BY <1>1, <1>2 DEF Shared
  <1>4. ASSUME AllGone, ~ctxDone PROVE attempts = Requests
    <2>1. PICK w : w \in Workers
      BY ClientAssumption
    <2>2. counter > Requests
      BY <1>1, <1>4, <2>1 DEF AllGone, Shared
    <2>3. Sending = {}
      BY <1>4 DEF AllGone, Sending
    <2>4. Cardinality(Sending) = 0
      BY <2>3, FS_EmptySet
    <2>5. attempts + Cardinality(Sending) = IF counter < Requests THEN counter ELSE Requests
      BY <1>1, <1>4 DEF Shared
    <2> QED BY <1>2, <2>2, <2>4, <2>5
  <1> QED BY <1>3, <1>4 DEF RequestsExact

(***************************************************************************)
(* The workers of runClient never call Send more often than                *)
(* requests_per_client, and have called it just as often when they are all *)
(* gone and the context did not end.                                       *)
(***************************************************************************)
THEOREM ClientRequestsExact == Spec => []RequestsExact
  BY ClientInvariant, RequestsExactHolds, PTL

=============================================================================
