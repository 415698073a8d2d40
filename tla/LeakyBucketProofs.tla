------------------------- MODULE LeakyBucketProofs -------------------------
(***************************************************************************)
(* The leaky bucket limiter keeps its rate limit over every interval, is   *)
(* the token bucket limiter seen from the other side, and announces a      *)
(* tight RetryAfter, for every rate, burst, clock resolution and number of *)
(* keys.                                                                   *)
(*                                                                         *)
(* IntervalBound says nothing of the bucket and is not inductive.  Covered *)
(* is: what was admitted is in the bucket still, has drained since the     *)
(* observation began, or was thrown away by a Reset.  Foretold ties the    *)
(* announced time to the level that the rejected request left behind.      *)
(* The last section turns the refinement round and carries both results    *)
(* over to the token bucket.                                               *)
(***************************************************************************)
EXTENDS LeakyBucket, Integers, TLAPS

-----------------------------------------------------------------------------
(***************************************************************************)
(* Products and quotients of integers: rates, windows and units are        *)
(* parameters, so these facts are not linear arithmetic.                   *)
(***************************************************************************)
LEMMA Distribute ==
  ASSUME NEW a \in Int, NEW b \in Int, NEW r \in Int
  PROVE  /\ (a - b) * r = r * a - r * b
         /\ r * (a + b) = r * a + r * b
         /\ a * r \in Int
         /\ r * a \in Int
  BY SMT

LEMMA MultiplyMonotone ==
  ASSUME NEW a \in Int, NEW b \in Int, NEW r \in Nat, a <= b
  PROVE  r * a <= r * b
  BY SMT

LEMMA MultiplyNat ==
  ASSUME NEW a \in Nat, NEW r \in Nat
  PROVE  /\ a * r \in Nat
         /\ r * a \in Nat
  BY SMT

LEMMA DivisionNat ==
  ASSUME NEW a \in Nat, NEW r \in Nat \ {0}
  PROVE  a \div r \in Nat
  BY SMT

\* A quotient is not reached before its product, and passed after it.

LEMMA DivisionLow ==
  ASSUME NEW a \in Nat, NEW r \in Nat \ {0}, NEW t \in Nat, t < a \div r
  PROVE  t * r < a
  <1>1. a \div r \in Nat /\ (a \div r) * r <= a
    BY SMT
  <1>2. r * (t + 1) <= r * (a \div r)
    BY <1>1, MultiplyMonotone
  <1>3. r * (t + 1) = t * r + r /\ r * (a \div r) = (a \div r) * r
    BY <1>1, SMT
  <1>4. t * r \in Nat /\ (a \div r) * r \in Nat
    BY <1>1, MultiplyNat
  <1> QED BY <1>1, <1>2, <1>3, <1>4

LEMMA DivisionHigh ==
  ASSUME NEW a \in Nat, NEW r \in Nat \ {0}, NEW t \in Nat, t > a \div r
  PROVE  t * r > a
  <1>1. a \div r \in Nat /\ a < (a \div r) * r + r
    BY SMT
  <1>2. r * ((a \div r) + 1) <= r * t
    BY <1>1, MultiplyMonotone
  <1>3. r * ((a \div r) + 1) = (a \div r) * r + r /\ r * t = t * r
    BY <1>1, SMT
  <1>4. t * r \in Nat /\ (a \div r) * r \in Nat
    BY <1>1, MultiplyNat
  <1> QED BY <1>1, <1>2, <1>3, <1>4

-----------------------------------------------------------------------------
Covered ==
  \A k \in Keys :
    Unit * admitted[k] <= Capacity * resets[k] + Drained(k) + Rate * (now - since[k])

\* What a rejected request of n tokens lacks in a bucket that holds level.
Short(n, level) == Unit * n - (Capacity - level)

Foretold ==
  \A k \in Keys :
    TB!Promised(k) =>
      /\ present[k]
      /\ Short(answer[k].n, water[k]) > 0
      /\ answer[k].retryAt = lastUpdate[k] + (Short(answer[k].n, water[k]) \div Rate)

LeakyInv == TypeOK /\ Covered /\ Foretold

-----------------------------------------------------------------------------
(* Types and arithmetic. *)

LEMMA ConstantTypes ==
  /\ Unit \in Nat \ {0} /\ Rate \in Nat \ {0} /\ Burst \in Nat \ {0}
  /\ Capacity \in Nat /\ Capacity = Unit * Burst
  /\ Costs \subseteq Nat \ {0}
  <1>1. /\ Unit \in Nat \ {0} /\ Rate \in Nat \ {0} /\ Burst \in Nat \ {0}
        /\ Costs \subseteq Nat \ {0}
    BY BucketAssumption DEF Burst
  <1>2. Unit * Burst \in Nat
    BY <1>1, MultiplyNat
  <1> QED BY <1>1, <1>2 DEF Capacity

LEMMA SameConstants == TB!Capacity = Capacity /\ TB!Burst = Burst /\ TB!NoAnswer = NoAnswer
  BY DEF TB!Capacity, Capacity, TB!Burst, Burst, TB!NoAnswer, NoAnswer

LEMMA KeyTypes ==
  ASSUME TypeOK, NEW k \in Keys
  PROVE  /\ now \in Nat /\ since[k] \in Nat /\ since[k] <= now
         /\ admitted[k] \in Nat /\ resets[k] \in Nat
         /\ present[k] \in BOOLEAN
         /\ water[k] \in Nat /\ water[k] <= Capacity
         /\ lastUpdate[k] \in Nat /\ lastUpdate[k] <= now
         /\ answer[k] \in [n : Nat, allowed : BOOLEAN, remaining : Nat, retryAt : Nat]
  <1>1. water[k] \in 0..Capacity
    BY DEF TypeOK
  <1>2. water[k] \in Nat /\ water[k] <= Capacity
    BY <1>1, ConstantTypes
  <1> QED BY <1>2 DEF TypeOK, LogTypeOK

LEMMA DrainedType ==
  ASSUME TypeOK, NEW k \in Keys
  PROVE  Drained(k) \in Nat /\ Drained(k) <= Capacity
  <1>1. now - lastUpdate[k] \in Nat
    BY KeyTypes
  <1>2. (now - lastUpdate[k]) * Rate \in Nat
    BY <1>1, ConstantTypes, MultiplyNat
  <1> QED BY <1>2, KeyTypes, ConstantTypes DEF Drained

\* The terms of Covered.
LEMMA LogTerms ==
  ASSUME TypeOK, NEW k \in Keys
  PROVE  /\ Unit * admitted[k] \in Nat /\ Capacity * resets[k] \in Nat
         /\ now - since[k] \in Nat /\ Rate * (now - since[k]) \in Nat
  <1>1. now - since[k] \in Nat
    BY KeyTypes
  <1> QED BY <1>1, KeyTypes, ConstantTypes, MultiplyNat

-----------------------------------------------------------------------------
(* The inductive invariant. *)

LEMMA LeakyInvInit == Init => LeakyInv
  <1> SUFFICES ASSUME Init PROVE LeakyInv
    OBVIOUS
  <1>1. TypeOK
    BY ConstantTypes DEF Init, LogInit, TypeOK, LogTypeOK, NoAnswer
  <1>2. Covered
    <2> SUFFICES ASSUME NEW k \in Keys
                 PROVE  Unit * admitted[k] <= Capacity * resets[k] + Drained(k)
                                                + Rate * (now - since[k])
      BY DEF Covered
    <2>1. admitted[k] = 0
      BY DEF Init, LogInit
    <2>2. Unit * admitted[k] = 0
      BY <2>1, ConstantTypes
    <2> QED BY <1>1, <2>2, LogTerms, DrainedType
  <1>3. Foretold
    BY DEF Foretold, TB!Promised, Init, LogInit, NoAnswer
  <1> QED BY <1>1, <1>2, <1>3 DEF LeakyInv

LEMMA AllowNKeepsInv ==
  ASSUME LeakyInv, NEW k \in Keys, NEW n \in Costs, AllowN(k, n)
  PROVE  LeakyInv'
  <1> DEFINE ok == Drained(k) + Unit * n <= Capacity
             level == IF ok THEN Drained(k) + Unit * n ELSE Drained(k)
             short == Drained(k) + Unit * n - Capacity
             result == [n |-> n, allowed |-> ok, remaining |-> (Capacity - level) \div Unit,
                        retryAt |-> IF ok THEN 0 ELSE now + (short \div Rate)]
  <1>1. TypeOK
    BY DEF LeakyInv
  <1>2. n \in Nat \ {0} /\ Unit * n \in Nat /\ now \in Nat
    BY <1>1, ConstantTypes, MultiplyNat, KeyTypes
  <1>3. level \in Nat /\ level <= Capacity
    BY <1>1, <1>2, DrainedType, ConstantTypes
  <1>4. ~ok => short \in Nat /\ short > 0
    BY <1>1, <1>2, DrainedType, ConstantTypes
  <1>5. /\ present' = [present EXCEPT ![k] = TRUE]
        /\ water' = [water EXCEPT ![k] = level]
        /\ lastUpdate' = [lastUpdate EXCEPT ![k] = now]
        /\ answer' = [answer EXCEPT ![k] = result]
        /\ admitted' = [admitted EXCEPT ![k] = IF ok THEN @ + n ELSE @]
        /\ UNCHANGED <<now, since, resets>>
    BY DEF AllowN, Answered
  <1>6. result \in [n : Nat, allowed : BOOLEAN, remaining : Nat, retryAt : Nat]
    <2>1. (Capacity - level) \div Unit \in Nat
      BY <1>3, ConstantTypes, DivisionNat
    <2>2. ~ok => now + (short \div Rate) \in Nat
      BY <1>2, <1>4, ConstantTypes, DivisionNat
    <2>3. (IF ok THEN 0 ELSE now + (short \div Rate)) \in Nat
      BY <2>2
    <2>4. ok \in BOOLEAN
      OBVIOUS
    <2> HIDE DEF ok, level, short
    <2> QED BY <1>2, <2>1, <2>3, <2>4
  <1>7. /\ result.n = n /\ result.allowed = ok
        /\ ~ok => result.retryAt = now + (short \div Rate)
    OBVIOUS
  <1>8. TypeOK'
    <2> HIDE DEF level, result
    <2>1. admitted' \in [Keys -> Nat]
      BY <1>1, <1>2, <1>5 DEF TypeOK, LogTypeOK
    <2>2. water' \in [Keys -> 0..Capacity]
      BY <1>1, <1>3, <1>5, ConstantTypes DEF TypeOK
    <2>3. /\ lastUpdate' \in [Keys -> Nat] /\ \A j \in Keys : lastUpdate'[j] <= now'
          /\ present' \in [Keys -> BOOLEAN]
      BY <1>1, <1>2, <1>5 DEF TypeOK
    <2>4. LogTypeOK'
      BY <1>1, <1>5, <1>6, <2>1 DEF TypeOK, LogTypeOK
    <2> QED BY <2>2, <2>3, <2>4 DEF TypeOK
  <1>9. \A j \in Keys \ {k} :
          /\ present'[j] = present[j] /\ water'[j] = water[j] /\ lastUpdate'[j] = lastUpdate[j]
          /\ answer'[j] = answer[j] /\ admitted'[j] = admitted[j]
    BY <1>1, <1>5 DEF TypeOK, LogTypeOK
  <1>10. /\ present'[k] /\ water'[k] = level /\ lastUpdate'[k] = now
         /\ answer'[k] = result /\ admitted'[k] = IF ok THEN admitted[k] + n ELSE admitted[k]
    BY <1>1, <1>5 DEF TypeOK, LogTypeOK
  <1>11. Covered'
    <2>1. ASSUME NEW j \in Keys \ {k}
          PROVE  Unit * admitted'[j] <= Capacity * resets'[j] + Drained(j)'
                                          + Rate * (now' - since'[j])
      <3>1. Drained(j)' = Drained(j)
        BY <1>5, <1>9 DEF Drained
      <3> QED BY <1>5, <1>9, <3>1 DEF LeakyInv, Covered
    <2>2. Unit * admitted'[k] <= Capacity * resets'[k] + Drained(k)' + Rate * (now' - since'[k])
      <3>1. Drained(k)' = level
        <4>1. (now' - lastUpdate'[k]) * Rate = 0
          BY <1>2, <1>5, <1>10, ConstantTypes
        <4> HIDE DEF level
        <4> QED BY <1>3, <1>10, <4>1 DEF Drained
      <3>2. Unit * admitted[k] <= Capacity * resets[k] + Drained(k) + Rate * (now - since[k])
        BY DEF LeakyInv, Covered
      <3>3. Unit * (admitted[k] + n) = Unit * admitted[k] + Unit * n
        BY <1>1, <1>2, KeyTypes, ConstantTypes, Distribute
      <3>4. Unit * admitted'[k] <= Capacity * resets[k] + level + Rate * (now - since[k])
        <4>1. CASE ok
          <5>1. Unit * admitted'[k] = Unit * admitted[k] + Unit * n
            BY <1>10, <3>3, <4>1
          <5> QED BY <1>1, <1>2, <3>2, <4>1, <5>1, LogTerms, DrainedType
        <4>2. CASE ~ok
          BY <1>10, <3>2, <4>2
        <4> QED BY <4>1, <4>2
      <3> QED BY <1>5, <3>1, <3>4
    <2> QED BY <2>1, <2>2 DEF Covered
  <1>12. Foretold'
    <2>1. ASSUME NEW j \in Keys \ {k}, TB!Promised(j)'
          PROVE  /\ present'[j] /\ Short(answer'[j].n, water'[j]) > 0
                 /\ answer'[j].retryAt = lastUpdate'[j] + (Short(answer'[j].n, water'[j]) \div Rate)
      BY <1>9, <2>1 DEF LeakyInv, Foretold, TB!Promised
    <2>2. ASSUME TB!Promised(k)'
          PROVE  /\ present'[k] /\ Short(answer'[k].n, water'[k]) > 0
                 /\ answer'[k].retryAt = lastUpdate'[k] + (Short(answer'[k].n, water'[k]) \div Rate)
      <3>1. ~ok
        BY <1>7, <1>10, <2>2 DEF TB!Promised
      <3>2. Short(answer'[k].n, water'[k]) = short
        BY <1>1, <1>2, <1>7, <1>10, <3>1, DrainedType, ConstantTypes DEF Short
      <3> QED BY <1>4, <1>7, <1>10, <3>1, <3>2
    <2> QED BY <2>1, <2>2 DEF Foretold, Short
  <1> QED BY <1>8, <1>11, <1>12 DEF LeakyInv

LEMMA LeakyInvStep == LeakyInv /\ [Next]_vars => LeakyInv'
  <1> SUFFICES ASSUME LeakyInv, [Next]_vars PROVE LeakyInv'
    OBVIOUS
  <1>0. TypeOK
    BY DEF LeakyInv
  <1>1. ASSUME NEW k \in Keys, NEW n \in Costs, AllowN(k, n) PROVE LeakyInv'
    BY <1>1, AllowNKeepsInv
  <1>2. ASSUME NEW k \in Keys, Reset(k) PROVE LeakyInv'
    <2>1. /\ present' = [present EXCEPT ![k] = FALSE]
          /\ water' = [water EXCEPT ![k] = 0]
          /\ lastUpdate' = [lastUpdate EXCEPT ![k] = 0]
          /\ answer' = [answer EXCEPT ![k] = NoAnswer]
          /\ resets' = [resets EXCEPT ![k] = @ + 1]
          /\ UNCHANGED <<now, since, admitted>>
      BY <1>2 DEF Reset, Forgotten
    <2>2. TypeOK'
      BY <1>0, <2>1, ConstantTypes DEF TypeOK, LogTypeOK, NoAnswer
    <2>3. ASSUME NEW j \in Keys
          PROVE  Unit * admitted'[j] <= Capacity * resets'[j] + Drained(j)'
                                          + Rate * (now' - since'[j])
      <3>1. Unit * admitted[j] <= Capacity * resets[j] + Drained(j) + Rate * (now - since[j])
        BY DEF LeakyInv, Covered
      <3>2. CASE j # k
        <4>1. Drained(j)' = Drained(j) /\ resets'[j] = resets[j]
          BY <1>0, <2>1, <3>2 DEF Drained, TypeOK, LogTypeOK
        <4> QED BY <2>1, <3>1, <4>1
      <3>3. CASE j = k
        <4>1. Drained(j)' = 0 /\ resets'[j] = resets[j] + 1
          BY <1>0, <2>1, <3>3 DEF Drained, TypeOK, LogTypeOK
        <4>2. Capacity * (resets[j] + 1) = Capacity * resets[j] + Capacity
          BY <1>0, KeyTypes, ConstantTypes, Distribute
        <4> QED BY <1>0, <2>1, <3>1, <4>1, <4>2, LogTerms, DrainedType, ConstantTypes
      <3> QED BY <3>2, <3>3
    <2>4. Covered'
      BY <2>3 DEF Covered
    <2>5. Foretold'
      BY <1>0, <2>1 DEF LeakyInv, Foretold, Short, TB!Promised, NoAnswer, TypeOK, LogTypeOK
    <2> QED BY <2>2, <2>4, <2>5 DEF LeakyInv
  <1>3. ASSUME NEW k \in Keys, Observe(k), UNCHANGED bucketVars PROVE LeakyInv'
    <2>1. /\ since' = [since EXCEPT ![k] = now]
          /\ admitted' = [admitted EXCEPT ![k] = 0]
          /\ resets' = [resets EXCEPT ![k] = 0]
          /\ UNCHANGED <<now, answer, present, water, lastUpdate>>
      BY <1>3 DEF Observe, bucketVars
    <2>2. TypeOK'
      BY <1>0, <2>1 DEF TypeOK, LogTypeOK
    <2>3. ASSUME NEW j \in Keys
          PROVE  Unit * admitted'[j] <= Capacity * resets'[j] + Drained(j)'
                                          + Rate * (now' - since'[j])
      <3>1. Drained(j)' = Drained(j)
        BY <2>1 DEF Drained
      <3>2. CASE j # k
        BY <1>0, <2>1, <3>1, <3>2 DEF LeakyInv, Covered, TypeOK, LogTypeOK
      <3>3. CASE j = k
        <4>1. admitted'[j] = 0 /\ resets'[j] = 0 /\ since'[j] = now
          BY <1>0, <2>1, <3>3 DEF TypeOK, LogTypeOK
        <4>2. Unit * 0 = 0 /\ Capacity * 0 = 0 /\ Rate * (now - now) = 0
          BY <1>0, ConstantTypes, KeyTypes
        <4> QED BY <1>0, <2>1, <3>1, <4>1, <4>2, DrainedType
      <3> QED BY <3>2, <3>3
    <2>4. Covered'
      BY <2>3 DEF Covered
    <2>5. Foretold'
      BY <2>1 DEF LeakyInv, Foretold, Short, TB!Promised
    <2> QED BY <2>2, <2>4, <2>5 DEF LeakyInv
  <1>4. ASSUME Tick, UNCHANGED bucketVars PROVE LeakyInv'
    <2>1. /\ now' = now + 1
          /\ UNCHANGED <<since, admitted, resets, answer, present, water, lastUpdate>>
      BY <1>4 DEF Tick, logVars, bucketVars
    <2>2. TypeOK'
      BY <1>0, <2>1 DEF TypeOK, LogTypeOK
    <2>3. ASSUME NEW j \in Keys
          PROVE  Unit * admitted'[j] <= Capacity * resets'[j] + Drained(j)'
                                          + Rate * (now' - since'[j])
      <3>1. /\ now \in Nat /\ since[j] \in Nat /\ lastUpdate[j] \in Nat /\ Rate \in Nat
            /\ now - lastUpdate[j] \in Nat /\ now - since[j] \in Nat
        BY <1>0, KeyTypes, ConstantTypes
      <3>2. Rate * (now' - since'[j]) = Rate * (now - since[j]) + Rate
        <4>1. now' - since'[j] = (now - since[j]) + 1
          BY <2>1, <3>1
        <4> QED BY <3>1, <4>1, Distribute
      <3>3. Drained(j)' + Rate >= Drained(j) /\ Drained(j)' \in Nat
        <4>1. (now' - lastUpdate'[j]) * Rate = (now - lastUpdate[j]) * Rate + Rate
          <5>1. now' - lastUpdate'[j] = (now - lastUpdate[j]) + 1
            BY <2>1, <3>1
          <5>2. Rate * ((now - lastUpdate[j]) + 1) = Rate * (now - lastUpdate[j]) + Rate
            BY <3>1, Distribute
          <5> QED BY <3>1, <5>1, <5>2
        <4>2. (now - lastUpdate[j]) * Rate \in Nat
          BY <3>1, MultiplyNat
        <4>3. water[j] \in Nat /\ present[j] \in BOOLEAN
          BY <1>0, KeyTypes
        <4> QED BY <2>1, <3>1, <4>1, <4>2, <4>3 DEF Drained
      <3>4. Unit * admitted[j] <= Capacity * resets[j] + Drained(j) + Rate * (now - since[j])
        BY DEF LeakyInv, Covered
      <3> QED BY <1>0, <2>1, <3>1, <3>2, <3>3, <3>4, LogTerms, DrainedType
    <2>4. Covered'
      BY <2>3 DEF Covered
    <2>5. Foretold'
      BY <2>1 DEF LeakyInv, Foretold, Short, TB!Promised
    <2> QED BY <2>2, <2>4, <2>5 DEF LeakyInv
  <1>5. CASE UNCHANGED vars
    BY <1>5 DEF vars, LeakyInv, TypeOK, LogTypeOK, Covered, Drained, Foretold, Short, TB!Promised
  <1> QED BY <1>1, <1>2, <1>3, <1>4, <1>5 DEF Next

LEMMA LeakyInvariant == Spec => []LeakyInv
  BY LeakyInvInit, LeakyInvStep, PTL DEF Spec

(***************************************************************************)
(* Types of the leaky bucket; among them, that the level stays within the  *)
(* capacity, so that Remaining is never negative (AllowN, lines 447-469).  *)
(***************************************************************************)
THEOREM LeakyTypes == Spec => []TypeOK
  <1>1. LeakyInv => TypeOK
    BY DEF LeakyInv
  <1> QED BY <1>1, LeakyInvariant, PTL

(***************************************************************************)
(* The rate limit over every interval: one bucket, the refill of the time, *)
(* and one more bucket per Reset (AllowN, lines 447-469).                  *)
(***************************************************************************)
THEOREM LeakyIntervalBound == Spec => []IntervalBound
  <1>1. ASSUME LeakyInv PROVE IntervalBound
    <2> SUFFICES ASSUME NEW k \in Keys
                 PROVE  Unit * admitted[k] <= Capacity * (1 + resets[k]) + Rate * (now - since[k])
      BY DEF IntervalBound
    <2>0. TypeOK
      BY <1>1 DEF LeakyInv
    <2>1. Unit * admitted[k] <= Capacity * resets[k] + Drained(k) + Rate * (now - since[k])
      BY <1>1 DEF LeakyInv, Covered
    <2>2. Capacity * (1 + resets[k]) = Capacity + Capacity * resets[k]
      BY <2>0, KeyTypes, ConstantTypes, Distribute
    <2> QED BY <2>0, <2>1, <2>2, LogTerms, DrainedType, ConstantTypes
  <1> QED BY <1>1, LeakyInvariant, PTL

-----------------------------------------------------------------------------
(* The token bucket. *)

\* What the token bucket has is the room that is left.
LEMMA RoomNow ==
  ASSUME TypeOK, NEW k \in Keys
  PROVE  TB!Available(k) = Capacity - Drained(k)
  <1>1. Room[k] = Capacity - water[k]
    BY DEF Room
  <1>2. (now - lastUpdate[k]) * Rate \in Nat
    <2>1. now - lastUpdate[k] \in Nat
      BY KeyTypes
    <2> QED BY <2>1, ConstantTypes, MultiplyNat
  <1> QED BY <1>1, <1>2, KeyTypes, ConstantTypes, SameConstants DEF TB!Available, Drained

LEMMA StepImplementsTokenBucket == LeakyInv /\ [Next]_vars => [TB!Next]_TB!vars
  <1> SUFFICES ASSUME LeakyInv, [Next]_vars PROVE [TB!Next]_TB!vars
    OBVIOUS
  <1>0. TypeOK
    BY DEF LeakyInv
  <1>1. ASSUME NEW k \in Keys, NEW n \in Costs, AllowN(k, n) PROVE TB!AllowN(k, n)
    <2> DEFINE ok == TB!Available(k) >= Unit * n
               level == IF ok THEN Drained(k) + Unit * n ELSE Drained(k)
               left == IF ok THEN TB!Available(k) - Unit * n ELSE TB!Available(k)
    <2>1. /\ Unit * n \in Nat /\ Drained(k) \in Nat /\ Capacity \in Nat
          /\ TB!Available(k) = Capacity - Drained(k)
      BY <1>0, ConstantTypes, MultiplyNat, DrainedType, RoomNow
    <2>2. (Drained(k) + Unit * n <= Capacity) = ok
      BY <2>1
    <2>3. Capacity - level = left
      BY <2>1
    <2>4. Drained(k) + Unit * n - Capacity = Unit * n - TB!Available(k)
      BY <2>1
    <2>5. /\ Answered(k, n, ok, left, Unit * n - TB!Available(k))
          /\ water' = [water EXCEPT ![k] = level]
      BY <1>1, <2>2, <2>3, <2>4 DEF AllowN
    <2>6. TB!Answered(k, n, ok, left, Unit * n - TB!Available(k))
      BY <2>5 DEF Answered, TB!Answered
    <2>7. Room' = [Room EXCEPT ![k] = left]
      <3> HIDE DEF level, left
      <3> QED BY <1>0, <2>3, <2>5 DEF Room, Capacity, TypeOK
    <2>8. /\ present' = [present EXCEPT ![k] = TRUE]
          /\ lastUpdate' = [lastUpdate EXCEPT ![k] = now] /\ now' = now
      BY <1>1 DEF AllowN
    <2> QED BY <2>6, <2>7, <2>8 DEF TB!AllowN
  <1>2. ASSUME NEW k \in Keys, Reset(k) PROVE TB!Reset(k)
    <2>1. Room' = [Room EXCEPT ![k] = Capacity]
      <3>1. water' = [water EXCEPT ![k] = 0] /\ Capacity - 0 = Capacity
        BY <1>2, ConstantTypes DEF Reset
      <3> QED BY <1>0, <3>1 DEF Room, TypeOK
    <2> QED BY <1>2, <2>1, SameConstants DEF Reset, TB!Reset, Forgotten, TB!Forgotten
  <1>3. ASSUME NEW k \in Keys, Observe(k), UNCHANGED bucketVars
        PROVE  TB!Observe(k) /\ UNCHANGED TB!bucketVars
    BY <1>3 DEF Observe, TB!Observe, bucketVars, TB!bucketVars, Room
  <1>4. ASSUME Tick, UNCHANGED bucketVars PROVE TB!Tick /\ UNCHANGED TB!bucketVars
    BY <1>4 DEF Tick, TB!Tick, logVars, TB!logVars, bucketVars, TB!bucketVars, Room
  <1>5. CASE UNCHANGED vars
    BY <1>5 DEF vars, TB!vars, Room
  <1> QED BY <1>1, <1>2, <1>3, <1>4, <1>5 DEF Next, TB!Next

(***************************************************************************)
(* The leaky bucket implements the token bucket: every sequence of calls   *)
(* gets the same answers (lines 447-469 against 177-199).                  *)
(***************************************************************************)
THEOREM LeakyIsTokenBucket == Spec => IsTokenBucket
  <1>1. Init => TB!Init
    <2> SUFFICES ASSUME Init PROVE TB!Init
      OBVIOUS
    <2>1. Room = [k \in Keys |-> Capacity]
      BY ConstantTypes DEF Room, Init
    <2> QED BY <2>1, SameConstants DEF Init, TB!Init, LogInit, TB!LogInit
  <1> QED BY <1>1, LeakyInvariant, StepImplementsTokenBucket, PTL DEF Spec, IsTokenBucket, TB!Spec

(***************************************************************************)
(* RetryAfter of a rejected request is tight: before the announced time    *)
(* its room is not there, and a tick after it the room is (lines 466-468). *)
(***************************************************************************)
THEOREM LeakyRetryAfterTight == Spec => []RetryAfterTight
  <1>1. ASSUME LeakyInv PROVE RetryAfterTight
    <2>0. TypeOK
      BY <1>1 DEF LeakyInv
    <2> SUFFICES ASSUME NEW k \in Keys, TB!Promised(k), answer[k].n <= Burst
                 PROVE  /\ now < answer[k].retryAt => TB!Available(k) < Unit * answer[k].n
                        /\ now > answer[k].retryAt => TB!Available(k) >= Unit * answer[k].n
      BY SameConstants DEF RetryAfterTight, TB!RetryAfterTight
    <2> DEFINE n == answer[k].n
               at == answer[k].retryAt
               short == Short(n, water[k])
               age == now - lastUpdate[k]
    <2>1. present[k] /\ short > 0 /\ at = lastUpdate[k] + (short \div Rate)
      BY <1>1 DEF LeakyInv, Foretold
    <2>2. /\ n \in Nat /\ water[k] \in Nat /\ water[k] <= Capacity /\ lastUpdate[k] \in Nat
          /\ now \in Nat /\ age \in Nat /\ Rate \in Nat \ {0} /\ Capacity \in Nat /\ at \in Nat
      BY <2>0, KeyTypes, ConstantTypes
    <2>3. Unit * n \in Nat /\ Unit * n <= Capacity
      BY <2>2, ConstantTypes, MultiplyNat, MultiplyMonotone
    <2>4. short \in Nat /\ short = Unit * n - (Capacity - water[k])
      BY <2>1, <2>2, <2>3 DEF Short
    <2>5. TB!Available(k) = Capacity - Drained(k)
      BY <2>0, RoomNow
    <2>6. age * Rate \in Nat
      BY <2>2, MultiplyNat
    <2>7. Drained(k) = IF water[k] - age * Rate >= 0 THEN water[k] - age * Rate ELSE 0
      BY <2>1 DEF Drained
    <2>8. at - lastUpdate[k] = short \div Rate /\ short \div Rate \in Nat
      BY <2>1, <2>2, <2>4, DivisionNat
    <2> HIDE DEF n, at, short, age
    <2>9. ASSUME age < short \div Rate PROVE age * Rate < short
      BY <2>2, <2>4, <2>9, DivisionLow
    <2>10. ASSUME age > short \div Rate PROVE age * Rate > short
      BY <2>2, <2>4, <2>10, DivisionHigh
    <2>11. ASSUME now < at PROVE TB!Available(k) < Unit * n
      <3>1. age < short \div Rate
        BY <2>2, <2>8, <2>11 DEF age
      <3>2. age * Rate < short
        BY <2>9, <3>1
      <3> QED BY <2>2, <2>3, <2>4, <2>5, <2>6, <2>7, <3>2
    <2>12. ASSUME now > at PROVE TB!Available(k) >= Unit * n
      <3>1. age > short \div Rate
        BY <2>2, <2>8, <2>12 DEF age
      <3>2. age * Rate > short
        BY <2>10, <3>1
      <3> QED BY <2>2, <2>3, <2>4, <2>5, <2>6, <2>7, <3>2
    <2> QED BY <2>11, <2>12 DEF n, at
  <1> QED BY <1>1, LeakyInvariant, PTL

-----------------------------------------------------------------------------
(***************************************************************************)
(* The other way round: the token bucket implements the leaky bucket, so   *)
(* the results above are results about the token bucket too.               *)
(*                                                                         *)
(* IsTokenBucket speaks of the level only through Room.  LevelsExist says  *)
(* that the level is an integer for every key; it excludes no token        *)
(* bucket, since any integer balances are the Room of Capacity minus the   *)
(* balances.                                                               *)
(***************************************************************************)
LevelsExist == water \in [Keys -> Int]

LEMMA LevelFromRoom ==
  ASSUME LevelsExist, NEW k \in Keys
  PROVE  water[k] \in Int /\ Room[k] \in Int /\ water[k] = Capacity - Room[k]
  <1>1. water[k] \in Int
    BY DEF LevelsExist
  <1>2. Room[k] = Capacity - water[k]
    BY DEF Room
  <1> QED BY <1>1, <1>2, ConstantTypes

\* An update of the balance of one key is an update of its level.
LEMMA LevelUpdate ==
  ASSUME LevelsExist, LevelsExist', NEW k \in Keys, NEW level \in Int, NEW left,
         Room' = [Room EXCEPT ![k] = left], Capacity - level = left
  PROVE  water' = [water EXCEPT ![k] = level]
  <1>1. ASSUME NEW j \in Keys
        PROVE  water'[j] = IF j = k THEN level ELSE water[j]
    <2>1. /\ Room'[j] = IF j = k THEN left ELSE Room[j]
          /\ Room'[j] = Capacity - water'[j] /\ Room[j] = Capacity - water[j]
      BY DEF Room, Capacity
    <2>2. water[j] \in Int /\ water'[j] \in Int
      BY DEF LevelsExist
    <2> QED BY <2>1, <2>2, ConstantTypes
  <1> QED BY <1>1 DEF LevelsExist

LEMMA StepImplementsLeaky ==
  LeakyInv /\ LevelsExist /\ LevelsExist' /\ [TB!Next]_TB!vars => [Next]_vars
  <1> SUFFICES ASSUME LeakyInv, LevelsExist, LevelsExist', [TB!Next]_TB!vars
               PROVE  [Next]_vars
    OBVIOUS
  <1>0. TypeOK
    BY DEF LeakyInv
  <1>1. ASSUME Room' = Room PROVE water' = water
    <2>1. ASSUME NEW j \in Keys PROVE water'[j] = water[j]
      <3>1. Capacity - water'[j] = Capacity - water[j]
        BY <1>1 DEF Room, Capacity
      <3>2. water[j] \in Int /\ water'[j] \in Int
        BY DEF LevelsExist
      <3> QED BY <3>1, <3>2, ConstantTypes
    <2> QED BY <2>1 DEF LevelsExist
  <1>2. ASSUME NEW k \in Keys, NEW n \in Costs, TB!AllowN(k, n) PROVE AllowN(k, n)
    <2> DEFINE ok == Drained(k) + Unit * n <= Capacity
               level == IF ok THEN Drained(k) + Unit * n ELSE Drained(k)
    <2>1. /\ Unit * n \in Nat /\ Drained(k) \in Nat /\ Capacity \in Nat
          /\ TB!Available(k) = Capacity - Drained(k)
      BY <1>0, ConstantTypes, MultiplyNat, DrainedType, RoomNow
    <2>2. (TB!Available(k) >= Unit * n) = ok
      BY <2>1
    <2>3. (IF ok THEN TB!Available(k) - Unit * n ELSE TB!Available(k)) = Capacity - level
      BY <2>1
    <2>4. Unit * n - TB!Available(k) = Drained(k) + Unit * n - Capacity
      BY <2>1
    <2>5. /\ TB!Answered(k, n, ok, Capacity - level, Drained(k) + Unit * n - Capacity)
          /\ Room' = [Room EXCEPT ![k] = Capacity - level]
          /\ present' = [present EXCEPT ![k] = TRUE]
          /\ lastUpdate' = [lastUpdate EXCEPT ![k] = now] /\ now' = now
      BY <1>2, <2>2, <2>3, <2>4 DEF TB!AllowN
    <2>6. Answered(k, n, ok, Capacity - level, Drained(k) + Unit * n - Capacity)
      BY <2>5 DEF Answered, TB!Answered
    <2>7. water' = [water EXCEPT ![k] = level]
      <3>1. level \in Int
        BY <2>1
      <3> HIDE DEF level
      <3> QED BY <2>5, <3>1, LevelUpdate
    <2> QED BY <2>5, <2>6, <2>7 DEF AllowN
  <1>3. ASSUME NEW k \in Keys, TB!Reset(k) PROVE Reset(k)
    <2>1. water' = [water EXCEPT ![k] = 0]
      <3>1. Room' = [Room EXCEPT ![k] = Capacity] /\ Capacity - 0 = Capacity
        BY <1>3, SameConstants, ConstantTypes DEF TB!Reset
      <3>2. 0 \in Int
        OBVIOUS
      <3> QED BY <3>1, <3>2, LevelUpdate, Zenon
    <2> QED BY <1>3, <2>1, SameConstants DEF Reset, TB!Reset, Forgotten, TB!Forgotten
  <1>4. ASSUME NEW k \in Keys, TB!Observe(k), UNCHANGED TB!bucketVars
        PROVE  Observe(k) /\ UNCHANGED bucketVars
    <2>1. Room' = Room
      BY <1>4 DEF TB!bucketVars
    <2> QED BY <1>1, <1>4, <2>1 DEF Observe, TB!Observe, bucketVars, TB!bucketVars
  <1>5. ASSUME TB!Tick, UNCHANGED TB!bucketVars PROVE Tick /\ UNCHANGED bucketVars
    <2>1. Room' = Room
      BY <1>5 DEF TB!bucketVars
    <2> QED BY <1>1, <1>5, <2>1 DEF Tick, TB!Tick, logVars, TB!logVars, bucketVars, TB!bucketVars
  <1>6. CASE UNCHANGED TB!vars
    <2>1. Room' = Room
      BY <1>6 DEF TB!vars
    <2> QED BY <1>1, <1>6, <2>1 DEF vars, TB!vars
  <1> QED BY <1>2, <1>3, <1>4, <1>5, <1>6 DEF Next, TB!Next

(***************************************************************************)
(* The token bucket implements the leaky bucket: with LeakyIsTokenBucket,  *)
(* a client cannot tell the two limiters apart by any sequence of answers  *)
(* (lines 177-199 against 447-469).                                        *)
(***************************************************************************)
THEOREM TokenBucketIsLeaky == IsTokenBucket /\ []LevelsExist => Spec
  <1>1. TB!Init /\ LevelsExist => Init
    <2> SUFFICES ASSUME TB!Init, LevelsExist PROVE Init
      OBVIOUS
    <2>1. ASSUME NEW k \in Keys PROVE water[k] = 0
      <3>1. Room[k] = Capacity
        BY SameConstants DEF TB!Init
      <3> QED BY <3>1, LevelFromRoom, ConstantTypes
    <2>2. water = [k \in Keys |-> 0]
      BY <2>1 DEF LevelsExist
    <2> QED BY <2>2, SameConstants DEF Init, TB!Init, LogInit, TB!LogInit
  <1> QED BY <1>1, LeakyInvInit, LeakyInvStep, StepImplementsLeaky, PTL
          DEF Spec, IsTokenBucket, TB!Spec

(***************************************************************************)
(* The rate limit of the token bucket over every interval: one bucket, the *)
(* refill of the time, and one more bucket per Reset (AllowN, lines        *)
(* 177-199).                                                               *)
(***************************************************************************)
THEOREM TokenIntervalBound == IsTokenBucket /\ []LevelsExist => []IntervalBound
  BY TokenBucketIsLeaky, LeakyIntervalBound, PTL

(***************************************************************************)
(* RetryAfter of the token bucket is tight: before the announced time the  *)
(* tokens are not there, a tick after it they are (lines 196-198).         *)
(***************************************************************************)
THEOREM TokenRetryAfterTight == IsTokenBucket /\ []LevelsExist => []RetryAfterTight
  BY TokenBucketIsLeaky, LeakyRetryAfterTight, PTL
=============================================================================
