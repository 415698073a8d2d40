---------------------- MODULE LocalCachedLimiterProofs ----------------------
(***************************************************************************)
(* Proofs about the remote token server, for every rate, burst, batch      *)
(* bound and clock resolution, and about the locally cached limiter on top *)
(* of it, for every number of limiters and callers.                        *)
(*                                                                         *)
(* The inductive invariant of the server is RemoteInv: the ledger of units *)
(* (Accounting) carries the rate limit, and the bound on the debt is what  *)
(* turns the ledger into a bound on the grants.                            *)
(*                                                                         *)
(* The inductive invariant of the limiter is LimiterInv.  The batch bound  *)
(* in TypeOK rests on WaitersExact (a batch is sized by the waiter count), *)
(* and TokenConservation on SingleFlight (at most one reply is in flight   *)
(* per limiter).  With the batch bound every step of the limiters is a     *)
(* step of the remote server alone, whose theorems then carry over.  The   *)
(* limit of the whole fleet also needs sums over the limiters.             *)
(***************************************************************************)
EXTENDS LocalCachedLimiter, Integers, TLAPS, FiniteSetTheorems, WellFoundedInduction

-----------------------------------------------------------------------------
(***************************************************************************)
(* Products and quotients of integers: rates, windows and units are        *)
(* parameters, so these facts are not linear arithmetic.                   *)
(***************************************************************************)
LEMMA Distribute ==
  ASSUME NEW a \in Int, NEW b \in Int, NEW r \in Int
  PROVE  /\ (a - b) * r = r * a - r * b
         /\ r * (a + b) = r * a + r * b
         /\ a * r \in Int
         /\ r * a \in Int
  BY SMT

LEMMA MultiplyMonotone ==
  ASSUME NEW a \in Int, NEW b \in Int, NEW r \in Nat, a <= b
  PROVE  r * a <= r * b
  BY SMT

LEMMA MultiplyNat ==
  ASSUME NEW a \in Nat, NEW r \in Nat
  PROVE  /\ a * r \in Nat
         /\ r * a \in Nat
  BY SMT

LEMMA DivisionBound ==
  ASSUME NEW a \in Int, NEW k \in Int, NEW r \in Nat \ {0}, a <= k * r
  PROVE  a \div r <= k
  <1>1. \A q \in Int : q * r <= a => q <= k
    <2>1. SUFFICES ASSUME NEW q \in Int, q * r <= a, k < q PROVE FALSE
      OBVIOUS
    <2>2. r * (k + 1) <= r * q
      BY <2>1, MultiplyMonotone
    <2>3. r * (k + 1) = k * r + r /\ r * q = q * r
      BY SMT
    <2>4. k * r \in Int /\ q * r \in Int
      BY <2>1, Distribute
    <2> QED BY <2>1, <2>2, <2>3, <2>4
  <1>2. a \div r \in Int /\ (a \div r) * r <= a
    BY SMT
  <1> QED BY <1>1, <1>2

LEMMA DivisionNat ==
  ASSUME NEW a \in Nat, NEW r \in Nat \ {0}
  PROVE  a \div r \in Nat
  BY SMT

\* A quotient is not reached before its product, and passed after it.

LEMMA DivisionHigh ==
  ASSUME NEW a \in Nat, NEW r \in Nat \ {0}, NEW t \in Nat, t > a \div r
  PROVE  t * r > a
  <1>1. a \div r \in Nat /\ a < (a \div r) * r + r
    BY SMT
  <1>2. r * ((a \div r) + 1) <= r * t
    BY <1>1, MultiplyMonotone
  <1>3. r * ((a \div r) + 1) = (a \div r) * r + r /\ r * t = t * r
    BY <1>1, SMT
  <1>4. t * r \in Nat /\ (a \div r) * r \in Nat
    BY <1>1, MultiplyNat
  <1> QED BY <1>1, <1>2, <1>3, <1>4

-----------------------------------------------------------------------------
(***************************************************************************)
(* Sums over a finite set.  MapThenSumSet takes one element after the      *)
(* other, always the same one of a set (Any), so two sums over one set can *)
(* be compared by induction over its subsets.                              *)
(***************************************************************************)

\* The order of the natural numbers is well-founded.
LEMMA Below == \E R : IsWellFoundedOn(R, Nat) /\ \A m, n \in Nat : m < n => <<m, n>> \in R
  <1>1. IsWellFoundedOn({p \in Nat \X Nat : p[1] < p[2]}, Nat)
    BY NatLessThanWellFounded DEF OpToRel
  <1>2. \A m, n \in Nat : m < n => <<m, n>> \in {p \in Nat \X Nat : p[1] < p[2]}
    OBVIOUS
  <1> QED BY <1>1, <1>2

\* A set that holds zero and the successor of each of its numbers holds all.
LEMMA Induction ==
  ASSUME NEW T, 0 \in T, \A n \in Nat : n \in T => n + 1 \in T
  PROVE  \A n \in Nat : n \in T
  <1>1. PICK R : IsWellFoundedOn(R, Nat) /\ \A m, n \in Nat : m < n => <<m, n>> \in R
    BY Below
  <1>2. SUFFICES ASSUME Nat \ T # {} PROVE FALSE
    OBVIOUS
  <1>3. PICK x \in Nat \ T : \A y \in Nat \ T : ~(<<y, x>> \in R)
    <2>1. Nat \ T \subseteq Nat
      OBVIOUS
    <2> QED BY <1>1, <1>2, <2>1, WFMin
  <1>4. x # 0 /\ x - 1 \in Nat /\ x - 1 < x /\ (x - 1) + 1 = x
    OBVIOUS
  <1>5. x - 1 \notin T
    BY <1>4
  <1> QED BY <1>1, <1>3, <1>4, <1>5

\* The sum of f over S, as AdmissionBounded takes it over the limiters.
SumOf(f, S) == MapThenSumSet(LAMBDA x : f[x], S)

\* The element that comes first.
Any(s) == CHOOSE x \in s : TRUE

\* it has the sum of f over every set in D.
Unfolds(it, f, D) ==
  it = [s \in D |-> IF s = {} THEN 0 ELSE f[Any(s)] + it[s \ {Any(s)}]]

\* The subsets of at most n elements.
Small(S, n) == {s \in SUBSET S : Cardinality(s) <= n}

\* Any picks an element.
LEMMA AnyIn == ASSUME NEW s, s # {} PROVE Any(s) \in s
  BY DEF Any

\* The recursion that defines a sum over a finite set has a solution.
LEMMA UnfoldsExists ==
  ASSUME NEW f, NEW S, IsFiniteSet(S)
  PROVE  \E it : Unfolds(it, f, SUBSET S)
  <1> DEFINE T == {n \in Nat : \E it : Unfolds(it, f, Small(S, n))}
  <1>1. 0 \in T
    <2>1. Small(S, 0) = {{}}
      <3>1. \A s \in SUBSET S : Cardinality(s) <= 0 <=> s = {}
        BY FS_Subset, FS_EmptySet, FS_CardinalityType
      <3> QED BY <3>1 DEF Small
    <2>2. Unfolds([s \in {{}} |-> 0], f, {{}})
      BY DEF Unfolds
    <2> QED BY <2>1, <2>2
  <1>2. ASSUME NEW n \in Nat, n \in T PROVE n + 1 \in T
    <2>1. PICK it : Unfolds(it, f, Small(S, n))
      BY <1>2
    <2> DEFINE new == [s \in Small(S, n + 1) |-> IF s = {} THEN 0 ELSE f[Any(s)] + it[s \ {Any(s)}]]
    <2>2. ASSUME NEW s \in Small(S, n + 1), s # {}
          PROVE  /\ s \ {Any(s)} \in Small(S, n)
                 /\ s \ {Any(s)} \in Small(S, n + 1)
      <3>1. IsFiniteSet(s) /\ Any(s) \in s
        BY <2>2, AnyIn, FS_Subset DEF Small
      <3>2. Cardinality(s \ {Any(s)}) = Cardinality(s) - 1
        BY <3>1, FS_RemoveElement
      <3>3. Cardinality(s) \in Nat
        BY <3>1, FS_CardinalityType
      <3> QED BY <3>2, <3>3 DEF Small
    <2>3. ASSUME NEW s \in Small(S, n) PROVE new[s] = it[s]
      <3>1. s \in Small(S, n + 1)
        <4>1. IsFiniteSet(s) 
          BY FS_Subset DEF Small
        <4> QED BY <4>1, FS_CardinalityType DEF Small
      <3> QED BY <2>1, <3>1 DEF Unfolds
    <2>4. Unfolds(new, f, Small(S, n + 1))
      <3>1. ASSUME NEW s \in Small(S, n + 1), s # {} PROVE new[s \ {Any(s)}] = it[s \ {Any(s)}]
        BY <2>2, <2>3, <3>1
      <3>2. ASSUME NEW s \in Small(S, n + 1)
            PROVE new[s] = IF s = {} THEN 0 ELSE f[Any(s)] + new[s \ {Any(s)}]
        BY <3>1
      <3> HIDE DEF new
      <3>3. new = [s \in Small(S, n + 1) |-> new[s]]
        BY DEF new
      <3> QED BY <3>2, <3>3 DEF Unfolds
    <2> QED BY <2>4
  <1>3. \A n \in Nat : n \in T
    <2> HIDE DEF T
    <2> QED BY <1>1, <1>2, Induction
  <1>4. Small(S, Cardinality(S)) = SUBSET S /\ Cardinality(S) \in Nat
    BY FS_Subset, FS_CardinalityType DEF Small
  <1> QED BY <1>3, <1>4

\* MapThenSumSet is that solution.
LEMMA SumUnfolds ==
  ASSUME NEW f, NEW S, IsFiniteSet(S)
  PROVE  \E it : Unfolds(it, f, SUBSET S) /\ SumOf(f, S) = it[S]
  <1> DEFINE it == CHOOSE g : Unfolds(g, f, SUBSET S)
  <1>1. Unfolds(it, f, SUBSET S)
    BY UnfoldsExists
  <1>2. SumOf(f, S) = it[S]
    BY DEF SumOf, MapThenSumSet, MapThenFoldSet, Unfolds, Any
  <1> QED BY <1>1, <1>2

\* A set of subsets that is closed under giving back Any holds the whole set.
LEMMA SubsetInduction ==
  ASSUME NEW S, IsFiniteSet(S), NEW T, {} \in T,
         \A s \in SUBSET S : s # {} /\ s \ {Any(s)} \in T => s \in T
  PROVE  S \in T
  <1> DEFINE U == {n \in Nat : Small(S, n) \subseteq T}
  <1>1. 0 \in U
    <2>1. \A s \in SUBSET S : Cardinality(s) <= 0 <=> s = {}
      BY FS_Subset, FS_EmptySet, FS_CardinalityType
    <2> QED BY <2>1 DEF Small
  <1>2. ASSUME NEW n \in Nat, n \in U PROVE n + 1 \in U
    <2>1. ASSUME NEW s \in Small(S, n + 1), s # {} PROVE s \ {Any(s)} \in Small(S, n)
      <3>1. IsFiniteSet(s) /\ Any(s) \in s
        BY <2>1, AnyIn, FS_Subset DEF Small
      <3>2. Cardinality(s \ {Any(s)}) = Cardinality(s) - 1 /\ Cardinality(s) \in Nat
        BY <3>1, FS_RemoveElement, FS_CardinalityType
      <3> QED BY <3>2 DEF Small
    <2>2. ASSUME NEW s \in Small(S, n + 1) PROVE s \in T
      <3>1. s \in SUBSET S
        BY DEF Small
      <3>2. s # {} => s \ {Any(s)} \in T
        BY <1>2, <2>1
      <3> QED BY <3>1, <3>2
    <2> QED BY <2>2
  <1>3. \A n \in Nat : n \in U
    <2> HIDE DEF U
    <2> QED BY <1>1, <1>2, Induction
  <1>4. Cardinality(S) \in Nat /\ S \in Small(S, Cardinality(S))
    BY FS_CardinalityType DEF Small
  <1> QED BY <1>3, <1>4

\* it has the sum of f over every subset of S.
Sums(it, f, S) ==
  /\ SumOf(f, S) = it[S]
  /\ it[{}] = 0
  /\ \A s \in SUBSET S : s # {} => it[s] = f[Any(s)] + it[s \ {Any(s)}]

\* The recursion, subset by subset.
LEMMA SumSteps ==
  ASSUME NEW f, NEW S, IsFiniteSet(S)
  PROVE  \E it : Sums(it, f, S)
  <1>1. PICK it : Unfolds(it, f, SUBSET S) /\ SumOf(f, S) = it[S]
    BY SumUnfolds
  <1>2. it[{}] = 0
    <2>1. {} \in SUBSET S
      OBVIOUS
    <2> QED BY <1>1, <2>1 DEF Unfolds
  <1>3. \A s \in SUBSET S : s # {} => it[s] = f[Any(s)] + it[s \ {Any(s)}]
    BY <1>1 DEF Unfolds
  <1> QED BY <1>1, <1>2, <1>3 DEF Sums

\* A sum of zeros is zero.
LEMMA SumZero ==
  ASSUME NEW S, IsFiniteSet(S), NEW f, \A x \in S : f[x] = 0
  PROVE  SumOf(f, S) = 0
  <1>1. PICK it : Sums(it, f, S)
    BY SumSteps
  <1> DEFINE T == {s \in SUBSET S : it[s] = 0}
  <1>2. {} \in T
    BY <1>1 DEF Sums
  <1>3. ASSUME NEW s \in SUBSET S, s # {}, s \ {Any(s)} \in T PROVE s \in T
    BY <1>1, <1>3, AnyIn DEF Sums
  <1>4. S \in T
    <2> HIDE DEF T
    <2> QED BY <1>2, <1>3, SubsetInduction
  <1> QED BY <1>1, <1>4 DEF Sums

\* A sum of smaller terms is smaller.
LEMMA SumAtMost ==
  ASSUME NEW S, IsFiniteSet(S), NEW f \in [S -> Nat], NEW g \in [S -> Nat],
         \A x \in S : f[x] <= g[x]
  PROVE  SumOf(f, S) \in Nat /\ SumOf(g, S) \in Nat /\ SumOf(f, S) <= SumOf(g, S)
  <1>1. PICK it : Sums(it, f, S)
    BY SumSteps
  <1>2. PICK jt : Sums(jt, g, S)
    BY SumSteps
  <1> DEFINE T == {s \in SUBSET S : it[s] \in Nat /\ jt[s] \in Nat /\ it[s] <= jt[s]}
  <1>3. {} \in T
    BY <1>1, <1>2 DEF Sums
  <1>4. ASSUME NEW s \in SUBSET S, s # {}, s \ {Any(s)} \in T PROVE s \in T
    <2>1. Any(s) \in S
      BY <1>4, AnyIn
    <2>2. PICK x \in S : x = Any(s)
      BY <2>1
    <2>3. it[s] = f[x] + it[s \ {x}] /\ jt[s] = g[x] + jt[s \ {x}]
      BY <1>1, <1>2, <1>4, <2>2 DEF Sums
    <2>4. it[s \ {x}] \in Nat /\ jt[s \ {x}] \in Nat /\ it[s \ {x}] <= jt[s \ {x}]
      BY <1>4, <2>2
    <2>5. f[x] \in Nat /\ g[x] \in Nat /\ f[x] <= g[x]
      OBVIOUS
    <2> QED BY <2>3, <2>4, <2>5
  <1>5. S \in T
    <2> HIDE DEF T
    <2> QED BY <1>3, <1>4, SubsetInduction
  <1> QED BY <1>1, <1>2, <1>5 DEF Sums

\* Raising one term raises the sum by as much.
LEMMA SumRaised ==
  ASSUME NEW S, IsFiniteSet(S), NEW f \in [S -> Nat], NEW x \in S, NEW d \in Nat
  PROVE  SumOf([f EXCEPT ![x] = @ + d], S) = SumOf(f, S) + d
  <1>0. PICK g \in [S -> Nat] : g = [f EXCEPT ![x] = @ + d]
    <2>1. [f EXCEPT ![x] = @ + d] \in [S -> Nat]
      OBVIOUS
    <2> QED BY <2>1, Zenon
  <1>1. PICK it : Sums(it, f, S)
    BY SumSteps
  <1>2. PICK jt : Sums(jt, g, S)
    BY SumSteps
  <1> DEFINE T == {s \in SUBSET S : it[s] \in Nat /\ jt[s] = it[s] + (IF x \in s THEN d ELSE 0)}
  <1>3. {} \in T
    BY <1>1, <1>2 DEF Sums
  <1>4. ASSUME NEW s \in SUBSET S, s # {}, s \ {Any(s)} \in T PROVE s \in T
    <2>1. Any(s) \in s
      BY <1>4, AnyIn
    <2>2. PICK y \in S : y = Any(s) /\ y \in s
      BY <2>1
    <2>3. it[s] = f[y] + it[s \ {y}] /\ jt[s] = g[y] + jt[s \ {y}]
      BY <1>1, <1>2, <1>4, <2>2 DEF Sums
    <2>4. it[s \ {y}] \in Nat /\ jt[s \ {y}] = it[s \ {y}] + (IF x \in s \ {y} THEN d ELSE 0)
      BY <1>4, <2>2
    <2>5. f[y] \in Nat /\ g[y] = f[y] + (IF x = y THEN d ELSE 0)
      BY <1>0
    <2>6. CASE x = y
      BY <2>2, <2>3, <2>4, <2>5, <2>6
    <2>7. CASE x # y
      BY <2>2, <2>3, <2>4, <2>5, <2>7
    <2> QED BY <2>6, <2>7
  <1>5. S \in T
    <2> HIDE DEF T
    <2> QED BY <1>3, <1>4, SubsetInduction
  <1> QED BY <1>0, <1>1, <1>2, <1>5 DEF Sums

-----------------------------------------------------------------------------
(* The remote token server. *)

\* What a reply is made of, whatever the state of the server.
LEMMA ReplyType ==
  ASSUME RemoteTypeOK, NEW n \in Nat
  PROVE  /\ Refilled \in Int
         /\ Refilled >= tokens
         /\ Unit * n \in Nat
         /\ BalanceAfter(n) \in Int
         /\ Reply(n) \in [granted : {0, n}, retryAfter : Nat]
  <1>1. /\ Unit \in Nat /\ Rate \in Nat \ {0}
        /\ now \in Nat /\ tokens \in Int /\ lastRefill \in Nat /\ lastRefill <= now
    BY RemoteAssumption DEF RemoteTypeOK
  <1>2. now - lastRefill \in Nat
    BY <1>1
  <1>3. (now - lastRefill) * Rate \in Nat
    BY <1>1, <1>2, MultiplyNat
  <1>4. Refilled \in Int /\ Refilled >= tokens
    BY <1>1, <1>3 DEF Refilled
  <1>5. Unit * n \in Nat
    BY <1>1, MultiplyNat
  <1>6. BalanceAfter(n) \in Int
    BY <1>4, <1>5 DEF BalanceAfter
  <1>7. \A b \in Int : WaitFor(b) \in Nat
    BY <1>1, DivisionNat DEF WaitFor
  <1>8. Reply(n) \in [granted : {0, n}, retryAfter : Nat]
    BY <1>6, <1>7 DEF Reply
  <1> QED BY <1>4, <1>5, <1>6, <1>8

\* One request, whoever makes it, keeps the state of the server well-typed.
LEMMA RequestTypeOK ==
  ASSUME RemoteTypeOK, NEW n \in Nat, RequestTokens(n), now' = now
  PROVE  RemoteTypeOK'
  <1>1. BalanceAfter(n) \in Int /\ Reply(n) \in [granted : {0, n}, retryAfter : Nat]
    BY ReplyType
  <1>2. Reply(n).granted \in Nat
    BY <1>1
  <1> QED BY <1>1, <1>2 DEF RequestTokens, RemoteTypeOK

\* One request keeps the ledger and the bound on the debt.
LEMMA RequestKeepsLedger ==
  ASSUME RemoteTypeOK, Accounting, DebtBounded, NEW n \in 0..MaxBatch,
         RequestTokens(n)
  PROVE  Accounting' /\ DebtBounded'
  <1>1. /\ Unit \in Nat /\ Rate \in Nat /\ MaxBatch \in Nat /\ Burst \in Nat
        /\ now \in Nat /\ tokens \in Int /\ lastRefill \in Nat /\ granted \in Nat
        /\ n \in Nat /\ n <= MaxBatch
    BY RemoteAssumption DEF RemoteTypeOK
  <1>2. Refilled \in Int /\ Refilled >= tokens /\ Unit * n \in Nat
    BY <1>1, ReplyType
  <1>3. /\ Refilled = tokens + (Rate * now - Rate * lastRefill)
        /\ Rate * now \in Int /\ Rate * lastRefill \in Int
    BY <1>1, Distribute DEF Refilled
  <1>4. /\ Unit * (granted + n) = Unit * granted + Unit * n
        /\ Unit * granted \in Int /\ Unit * Burst \in Int
        /\ Unit * MaxBatch \in Int
    BY <1>1, Distribute
  <1>5. Unit * n <= Unit * MaxBatch
    BY <1>1, MultiplyMonotone
  <1>6. CASE InDebt
    <2>1. tokens' = Refilled /\ lastRefill' = now /\ granted' = granted
      BY <1>1, <1>6 DEF RequestTokens, BalanceAfter, Reply
    <2> QED BY <1>1, <1>2, <1>3, <1>4, <2>1 DEF Accounting, DebtBounded
  <1>7. CASE ~InDebt
    <2>1. tokens' = Refilled - Unit * n /\ lastRefill' = now /\ granted' = granted + n
      BY <1>7 DEF RequestTokens, BalanceAfter, Reply
    <2>2. Refilled >= 0
      BY <1>2, <1>7 DEF InDebt
    <2>3. Accounting'
      BY <1>1, <1>2, <1>3, <1>4, <2>1 DEF Accounting
    <2>4. DebtBounded'
      BY <1>2, <1>4, <1>5, <2>1, <2>2 DEF DebtBounded
    <2> QED BY <2>3, <2>4
  <1> QED BY <1>6, <1>7

-----------------------------------------------------------------------------

\* The inductive invariant.
RemoteInv == RemoteTypeOK /\ Accounting /\ DebtBounded

LEMMA InitRemoteInv == RemoteInit => RemoteInv
  <1> SUFFICES ASSUME RemoteInit PROVE RemoteInv
    OBVIOUS
  <1>1. Unit \in Nat /\ Rate \in Nat /\ MaxBatch \in Nat /\ Burst \in Nat
    BY RemoteAssumption
  <1>2. Unit * Burst \in Nat /\ Unit * MaxBatch \in Nat
    BY <1>1, MultiplyNat
  <1>3. RemoteTypeOK
    BY <1>2 DEF RemoteInit, RemoteTypeOK
  <1>4. Unit * granted = 0 /\ Rate * lastRefill = 0
    BY <1>1 DEF RemoteInit
  <1>5. Accounting /\ DebtBounded
    BY <1>2, <1>4 DEF RemoteInit, Accounting, DebtBounded
  <1> QED BY <1>3, <1>5 DEF RemoteInv

LEMMA NextRemoteInv == RemoteInv /\ [RemoteNext]_serverVars => RemoteInv'
  <1> SUFFICES ASSUME RemoteInv, [RemoteNext]_serverVars PROVE RemoteInv'
    OBVIOUS
  <1> USE DEF RemoteInv
  <1>1. CASE Tick
    BY <1>1 DEF Tick, remoteVars, RemoteTypeOK, Accounting, DebtBounded
  <1>2. CASE \E n \in 0..MaxBatch : RequestTokens(n) /\ UNCHANGED now
    <2>1. PICK n \in 0..MaxBatch : RequestTokens(n) /\ UNCHANGED now
      BY <1>2
    <2>2. n \in Nat
      BY RemoteAssumption
    <2>3. RemoteTypeOK'
      BY <2>1, <2>2, RequestTypeOK
    <2>4. Accounting' /\ DebtBounded'
      BY <2>1, RequestKeepsLedger
    <2> QED BY <2>3, <2>4
  <1>3. CASE UNCHANGED serverVars
    BY <1>3 DEF serverVars, RemoteTypeOK, Accounting, DebtBounded
  <1> QED BY <1>1, <1>2, <1>3 DEF RemoteNext

\* The ledger and the bound on the debt give the rate limit.
LEMMA RateLimitFromLedger == RemoteInv => GrantsBounded
  <1> SUFFICES ASSUME RemoteInv PROVE GrantsBounded
    OBVIOUS
  <1>1. /\ Unit \in Nat /\ Rate \in Nat /\ MaxBatch \in Nat /\ Burst \in Nat
        /\ now \in Nat /\ tokens \in Int /\ lastRefill \in Nat /\ granted \in Nat
        /\ lastRefill <= now
    BY RemoteAssumption DEF RemoteInv, RemoteTypeOK
  <1>2. Rate * lastRefill <= Rate * now
    BY <1>1, MultiplyMonotone
  <1>3. /\ Rate * lastRefill \in Int /\ Rate * now \in Int /\ Unit * granted \in Int
        /\ Unit * Burst \in Int /\ Unit * MaxBatch \in Int
    BY <1>1, Distribute
  <1> QED BY <1>1, <1>2, <1>3 DEF RemoteInv, Accounting, DebtBounded, GrantsBounded

(***************************************************************************)
(* The server's state keeps its types; the refill never runs ahead of the  *)
(* clock (RequestTokens, lines 36-38).                                     *)
(***************************************************************************)
THEOREM RemoteTypes == RemoteSpec => []RemoteTypeOK
  <1>1. RemoteInv => RemoteTypeOK
    BY DEF RemoteInv
  <1> QED BY <1>1, InitRemoteInv, NextRemoteInv, PTL DEF RemoteSpec

(***************************************************************************)
(* The debt never exceeds one batch, however the requests fall together    *)
(* (RequestTokens refuses in debt, lines 45-51).                           *)
(***************************************************************************)
THEOREM RemoteDebt == RemoteSpec => []DebtBounded
  <1>1. RemoteInv => DebtBounded
    BY DEF RemoteInv
  <1> QED BY <1>1, InitRemoteInv, NextRemoteInv, PTL DEF RemoteSpec

(***************************************************************************)
(* No unit is lost or credited twice (RequestTokens, lines 35-55).         *)
(***************************************************************************)
THEOREM RemoteLedger == RemoteSpec => []Accounting
  <1>1. RemoteInv => Accounting
    BY DEF RemoteInv
  <1> QED BY <1>1, InitRemoteInv, NextRemoteInv, PTL DEF RemoteSpec

(***************************************************************************)
(* The rate limit: the grants of RequestTokens never exceed burst, one     *)
(* batch of debt and the refill of the time that passed.                   *)
(***************************************************************************)
THEOREM RemoteRateLimit == RemoteSpec => []GrantsBounded
  BY InitRemoteInv, NextRemoteInv, RateLimitFromLedger, PTL DEF RemoteSpec

\* A granting step of RequestTokens waits out the debt it finds.
LEMMA GrantWaits ==
  RemoteInv /\ [RemoteNext]_serverVars =>
    [granted' > granted => now >= lastRefill + WaitFor(tokens)]_serverVars
  <1> SUFFICES ASSUME RemoteInv, RemoteNext, granted' > granted
               PROVE  now >= lastRefill + WaitFor(tokens)
    OBVIOUS
  <1>1. /\ Rate \in Nat \ {0} /\ now \in Nat /\ tokens \in Int /\ granted \in Nat
        /\ lastRefill \in Nat /\ lastRefill <= now
    BY RemoteAssumption DEF RemoteInv, RemoteTypeOK
  <1>2. PICK n \in 0..MaxBatch : RequestTokens(n) /\ UNCHANGED now
    BY <1>1 DEF RemoteNext, Tick, remoteVars
  <1>3. ~InDebt
    BY <1>1, <1>2 DEF RequestTokens, Reply
  <1>4. (now - lastRefill) * Rate \in Int
    BY <1>1, Distribute
  <1>5. -tokens <= (now - lastRefill) * Rate
    BY <1>1, <1>3, <1>4 DEF InDebt, Refilled
  <1>6. (-tokens) \div Rate <= now - lastRefill
    BY <1>1, <1>5, DivisionBound
  <1>7. (-tokens) \div Rate \in Int
    BY <1>1
  <1> QED BY <1>1, <1>6, <1>7 DEF WaitFor

(***************************************************************************)
(* The wait of a reply is honest: no request is granted before it is over  *)
(* (RequestTokens, lines 46-50 and 59-64).                                 *)
(***************************************************************************)
THEOREM RemoteWaitHonest == RemoteSpec => GrantOnlyAfterWait
  BY InitRemoteInv, NextRemoteInv, GrantWaits, PTL
     DEF RemoteSpec, GrantOnlyAfterWait

-----------------------------------------------------------------------------
(* The locally cached limiter. *)

\* Facts of TypeOK about one caller, for steps that need no more.
LEMMA CallerTypes ==
  ASSUME TypeOK, NEW c \in Callers
  PROVE  /\ LimiterOf[c] \in Limiters
         /\ localTokens[LimiterOf[c]] \in Nat
         /\ rejectUntil[LimiterOf[c]] \in Nat
         /\ waiters[LimiterOf[c]] \in Nat
         /\ drawn[LimiterOf[c]] \in Nat
         /\ allowed[LimiterOf[c]] \in Nat
         /\ pc[c] \in PCs
         /\ cost[c] \in Nat
         /\ batch[c] \in 0..MaxBatch
         /\ batch[c] \in Nat
         /\ reply[c].granted \in Nat
         /\ reply[c].retryAfter \in Nat
  <1>1. LimiterOf[c] \in Limiters
    BY LimiterAssumption
  <1>2. batch[c] \in 0..MaxBatch /\ MaxBatch \in Nat
    BY RemoteAssumption DEF TypeOK
  <1>3. reply[c] \in [granted : Nat, retryAfter : Nat]
    BY DEF TypeOK
  <1> QED BY <1>1, <1>2, <1>3 DEF TypeOK

\* Every set of callers is finite and has at most Cardinality(Callers) members.
LEMMA ParkedFinite ==
  ASSUME NEW S \in SUBSET Callers
  PROVE  /\ IsFiniteSet(S)
         /\ Cardinality(S) \in Nat
         /\ Cardinality(S) <= Cardinality(Callers)
  <1>1. IsFiniteSet(Callers)
    BY LimiterAssumption
  <1>2. IsFiniteSet(S) /\ Cardinality(S) <= Cardinality(Callers)
    BY <1>1, FS_Subset
  <1> QED BY <1>2, FS_CardinalityType

(***************************************************************************)
(* At the top of the loop the count, corrected for the caller's own return *)
(* from Wait, is the number of other parked callers, and it fits a batch.  *)
(***************************************************************************)
LEMMA WaitersNowExact ==
  ASSUME TypeOK, WaitersExact, NEW c \in Callers,
         pc[c] \in {"lock", "woken", "loop"}
  PROVE  /\ WaitersNow(c) = Cardinality(Parked(LimiterOf[c]) \ {c})
         /\ WaitersNow(c) \in 0..MaxBatch
         /\ BatchSize(WaitersNow(c)) \in 0..MaxBatch
  <1> DEFINE l == LimiterOf[c]
             P == Parked(l)
  <1>1. l \in Limiters /\ waiters[l] = Cardinality(P)
    BY CallerTypes DEF WaitersExact
  <1>2. P \in SUBSET Callers /\ P \ {c} \in SUBSET Callers
    BY DEF Parked, CallersOf
  <1>3. /\ IsFiniteSet(P) /\ Cardinality(P) \in Nat
        /\ IsFiniteSet(P \ {c}) /\ Cardinality(P \ {c}) \in Nat
    BY <1>2, ParkedFinite
  <1>4. c \in P <=> pc[c] = "woken"
    BY DEF Parked, CallersOf
  <1>5. WaitersNow(c) = Cardinality(P \ {c})
    <2>1. CASE pc[c] = "woken"
      <3>1. Cardinality(P \ {c}) = Cardinality(P) - 1
        BY <1>3, <1>4, <2>1, FS_RemoveElement
      <3> QED BY <1>1, <2>1, <3>1 DEF WaitersNow
    <2>2. CASE pc[c] # "woken"
      <3>1. P \ {c} = P
        BY <1>4, <2>2
      <3> QED BY <1>1, <2>2, <3>1 DEF WaitersNow
    <2> QED BY <2>1, <2>2
  <1>6. Cardinality(P \ {c}) <= MaxBatch
    <2>1. IsFiniteSet(Callers) /\ Cardinality(Callers) <= MaxBatch + 1
      BY LimiterAssumption
    <2>2. /\ IsFiniteSet(Callers \ {c})
          /\ Cardinality(Callers \ {c}) = Cardinality(Callers) - 1
      BY <2>1, FS_RemoveElement
    <2>3. P \ {c} \subseteq Callers \ {c}
      BY <1>2
    <2>4. Cardinality(P \ {c}) <= Cardinality(Callers \ {c})
      BY <2>2, <2>3, FS_Subset
    <2>5. Cardinality(Callers) \in Nat /\ MaxBatch \in Nat
      BY <2>1, FS_CardinalityType, RemoteAssumption
    <2> QED BY <1>3, <2>1, <2>2, <2>4, <2>5
  <1>7. Prefetch \in Nat /\ Prefetch <= MaxBatch /\ MaxBatch \in Nat
    BY LimiterAssumption, RemoteAssumption
  <1> HIDE DEF l, P
  <1>8. WaitersNow(c) \in 0..MaxBatch
    BY <1>3, <1>5, <1>6, <1>7
  <1>9. BatchSize(WaitersNow(c)) \in 0..MaxBatch
    BY <1>7, <1>8 DEF BatchSize
  <1> QED BY <1>5, <1>8, <1>9 DEF l, P

\* The same for every iteration of the loop.
LEMMA LoopTopWaiters ==
  ASSUME TypeOK, WaitersExact, NEW c \in Callers, AtLoopTop(c)
  PROVE  /\ pc[c] \in {"lock", "woken", "loop"}
         /\ WaitersNow(c) = Cardinality(Parked(LimiterOf[c]) \ {c})
         /\ WaitersNow(c) \in Nat
         /\ BatchSize(WaitersNow(c)) \in 0..MaxBatch
  <1>1. pc[c] \in {"lock", "woken", "loop"}
    BY DEF AtLoopTop
  <1>2. /\ WaitersNow(c) = Cardinality(Parked(LimiterOf[c]) \ {c})
        /\ WaitersNow(c) \in 0..MaxBatch
        /\ BatchSize(WaitersNow(c)) \in 0..MaxBatch
    BY <1>1, WaitersNowExact
  <1>3. WaitersNow(c) \in Nat
    BY <1>2, RemoteAssumption
  <1> QED BY <1>1, <1>2, <1>3

-----------------------------------------------------------------------------

LEMMA TypeStep ==
  ASSUME TypeOK, WaitersExact, [Next]_vars
  PROVE  TypeOK'
  <1>1. ASSUME NEW c \in Callers, Call(c) PROVE TypeOK'
    <2>1. PICK n \in Costs : cost' = [cost EXCEPT ![c] = n]
      BY <1>1 DEF Call
    <2>2. n \in Nat
      BY LimiterAssumption
    <2> QED BY <1>1, <2>1, <2>2 DEF Call, Goto, TypeOK, RemoteTypeOK, serverVars,
              limiterVars, ledgerVars, PCs
  <1>2. ASSUME NEW c \in Callers, Take(c) PROVE TypeOK'
    <2>1. WaitersNow(c) \in Nat
      BY <1>2, LoopTopWaiters DEF Take
    <2>2. /\ localTokens[LimiterOf[c]] - cost[c] \in Nat
          /\ allowed[LimiterOf[c]] + cost[c] \in Nat
      BY <1>2, CallerTypes DEF Take
    <2> QED BY <1>2, <2>1, <2>2 DEF Take, Goto, TypeOK, RemoteTypeOK, serverVars,
              PCs
  <1>3. ASSUME NEW c \in Callers, Reject(c) PROVE TypeOK'
    <2>1. WaitersNow(c) \in Nat
      BY <1>3, LoopTopWaiters DEF Reject
    <2> QED BY <1>3, <2>1 DEF Reject, Goto, TypeOK, RemoteTypeOK, serverVars,
              ledgerVars, PCs
  <1>4. ASSUME NEW c \in Callers, Wait(c) PROVE TypeOK'
    <2>1. WaitersNow(c) + 1 \in Nat
      <3>1. WaitersNow(c) \in Nat
        BY <1>4, LoopTopWaiters DEF Wait, NeedsFetch
      <3> QED BY <3>1
    <2> QED BY <1>4, <2>1 DEF Wait, Goto, TypeOK, RemoteTypeOK, serverVars,
              callVars, ledgerVars, PCs
  <1>5. ASSUME NEW c \in Callers, StartFetch(c) PROVE TypeOK'
    <2>1. WaitersNow(c) \in Nat /\ BatchSize(WaitersNow(c)) \in 0..MaxBatch
      BY <1>5, LoopTopWaiters DEF StartFetch, NeedsFetch
    <2> QED BY <1>5, <2>1 DEF StartFetch, Goto, TypeOK, RemoteTypeOK, serverVars,
              ledgerVars, PCs
  <1>6. ASSUME NEW c \in Callers, Return(c) PROVE TypeOK'
    BY <1>6 DEF Return, Goto, TypeOK, RemoteTypeOK, serverVars, limiterVars,
        ledgerVars, PCs
  <1>7. ASSUME NEW c \in Callers, PerformFetch(c) PROVE TypeOK'
    <2>1. batch[c] \in Nat /\ drawn[LimiterOf[c]] \in Nat
      BY CallerTypes
    <2>2. RemoteTypeOK'
      BY <1>7, <2>1, RequestTypeOK DEF PerformFetch, TypeOK
    <2>3. Reply(batch[c]) \in [granted : Nat, retryAfter : Nat]
      <3>1. Reply(batch[c]) \in [granted : {0, batch[c]}, retryAfter : Nat]
        BY <2>1, ReplyType DEF TypeOK
      <3> QED BY <2>1, <3>1
    <2>4. drawn[LimiterOf[c]] + Reply(batch[c]).granted \in Nat
      BY <2>1, <2>3
    <2> HIDE DEF RemoteTypeOK
    <2> QED BY <1>7, <2>2, <2>3, <2>4 DEF PerformFetch, Goto, TypeOK, limiterVars,
              PCs
  <1>8. ASSUME NEW c \in Callers, ApplyReply(c) PROVE TypeOK'
    <2>1. /\ localTokens[LimiterOf[c]] + reply[c].granted \in Nat
          /\ reply[c].retryAfter \in Nat
          /\ now + reply[c].retryAfter \in Nat
      BY CallerTypes DEF TypeOK, RemoteTypeOK
    <2>2. NoReply \in [granted : Nat, retryAfter : Nat] /\ 0 \in 0..MaxBatch
      BY RemoteAssumption DEF NoReply
    <2>3. pc' \in [Callers -> PCs]
      BY <1>8 DEF ApplyReply, Broadcast, TypeOK, PCs
    <2> QED BY <1>8, <2>1, <2>2, <2>3 DEF ApplyReply, Applied, TypeOK,
              RemoteTypeOK, serverVars, ledgerVars
  <1>9. ASSUME NEW l \in Limiters, Reset(l) PROVE TypeOK'
    <2>1. discarded[l] + localTokens[l] \in Nat
      BY DEF TypeOK
    <2> QED BY <1>9, <2>1 DEF Reset, TypeOK, RemoteTypeOK, serverVars, callVars
  <1>10. CASE ClockTick
    BY <1>10 DEF ClockTick, Tick, TypeOK, RemoteTypeOK, remoteVars, limiterVars,
        callVars, ledgerVars
  <1>11. CASE UNCHANGED vars
    BY <1>11 DEF vars, TypeOK, RemoteTypeOK
  <1> QED BY <1>1, <1>2, <1>3, <1>4, <1>5, <1>6, <1>7, <1>8, <1>9, <1>10, <1>11
          DEF Next, Step, Iterate

-----------------------------------------------------------------------------

\* Single flight and the waiters behind it.
LEMMA FlightStep ==
  ASSUME TypeOK, SingleFlight, NoStrandedWaiter, [Next]_vars
  PROVE  SingleFlight' /\ NoStrandedWaiter'
  <1> USE DEF Fetchers, CallersOf
  <1>1. ASSUME UNCHANGED fetching,
               \A m \in Limiters : Fetchers(m)' = Fetchers(m),
               \A d \in Callers : pc'[d] = "waiting" =>
                                    pc[d] = "waiting" \/ fetching[LimiterOf[d]]
        PROVE  SingleFlight' /\ NoStrandedWaiter'
    BY <1>1 DEF SingleFlight, NoStrandedWaiter
  <1>2. ASSUME NEW c \in Callers, NEW where \in PCs, UNCHANGED fetching,
               pc' = [pc EXCEPT ![c] = where],
               pc[c] \notin {"fetch", "fetched"}, where \notin {"fetch", "fetched"},
               where = "waiting" => fetching[LimiterOf[c]]
        PROVE  SingleFlight' /\ NoStrandedWaiter'
    BY <1>1, <1>2 DEF TypeOK
  <1>3. ASSUME NEW c \in Callers, Call(c) PROVE SingleFlight' /\ NoStrandedWaiter'
    BY <1>2, <1>3 DEF Call, Goto, limiterVars, PCs
  <1>4. ASSUME NEW c \in Callers, Take(c) PROVE SingleFlight' /\ NoStrandedWaiter'
    BY <1>2, <1>4 DEF Take, Goto, AtLoopTop, PCs
  <1>5. ASSUME NEW c \in Callers, Reject(c) PROVE SingleFlight' /\ NoStrandedWaiter'
    BY <1>2, <1>5 DEF Reject, Goto, AtLoopTop, PCs
  <1>6. ASSUME NEW c \in Callers, Wait(c) PROVE SingleFlight' /\ NoStrandedWaiter'
    BY <1>2, <1>6 DEF Wait, NeedsFetch, Goto, AtLoopTop, PCs
  <1>7. ASSUME NEW c \in Callers, Return(c) PROVE SingleFlight' /\ NoStrandedWaiter'
    BY <1>2, <1>7 DEF Return, Goto, limiterVars, PCs
  <1>8. ASSUME NEW c \in Callers, StartFetch(c)
        PROVE  SingleFlight' /\ NoStrandedWaiter'
    <2> DEFINE l == LimiterOf[c]
    <2>1. l \in Limiters /\ Fetchers(l) = {}
      BY <1>8, CallerTypes DEF StartFetch, SingleFlight
    <2>2. /\ pc' = [pc EXCEPT ![c] = "fetch"]
          /\ fetching' = [fetching EXCEPT ![l] = TRUE]
      BY <1>8 DEF StartFetch, Goto
    <2>3. Fetchers(l)' = {c}
      BY <2>1, <2>2 DEF TypeOK
    <2>4. \A m \in Limiters \ {l} : Fetchers(m)' = Fetchers(m)
      BY <2>2 DEF TypeOK
    <2>5. SingleFlight'
      BY <2>1, <2>2, <2>3, <2>4 DEF SingleFlight, TypeOK
    <2>6. NoStrandedWaiter'
      BY <2>1, <2>2, LimiterAssumption DEF NoStrandedWaiter, TypeOK
    <2> QED BY <2>5, <2>6
  <1>9. ASSUME NEW c \in Callers, PerformFetch(c)
        PROVE  SingleFlight' /\ NoStrandedWaiter'
    <2>1. pc' = [pc EXCEPT ![c] = "fetched"] /\ pc[c] = "fetch" /\ UNCHANGED fetching
      BY <1>9 DEF PerformFetch, Goto, limiterVars
    <2>2. \A m \in Limiters : Fetchers(m)' = Fetchers(m)
      BY <2>1 DEF TypeOK
    <2> QED BY <1>1, <2>1, <2>2 DEF TypeOK
  <1>10. ASSUME NEW c \in Callers, ApplyReply(c)
         PROVE  SingleFlight' /\ NoStrandedWaiter'
    <2> DEFINE l == LimiterOf[c]
    <2>1. l \in Limiters /\ pc[c] = "fetched" /\ Broadcast(l, c)
          /\ fetching' = [fetching EXCEPT ![l] = FALSE]
      BY <1>10, CallerTypes DEF ApplyReply, Applied
    <2>2. Fetchers(l) = {c}
      BY <2>1 DEF SingleFlight
    <2>3. Fetchers(l)' = {}
      BY <2>1, <2>2 DEF Broadcast
    <2>4. \A m \in Limiters \ {l} : Fetchers(m)' = Fetchers(m)
      BY <2>1 DEF Broadcast
    <2>5. SingleFlight'
      BY <2>1, <2>3, <2>4 DEF SingleFlight, TypeOK
    <2>6. \A d \in Callers : pc'[d] = "waiting" => LimiterOf[d] # l /\ pc[d] = "waiting"
      BY <2>1 DEF Broadcast
    <2>7. NoStrandedWaiter'
      BY <2>1, <2>6, LimiterAssumption DEF NoStrandedWaiter, TypeOK
    <2> QED BY <2>5, <2>7
  <1>11. ASSUME NEW l \in Limiters, Reset(l) PROVE SingleFlight' /\ NoStrandedWaiter'
    BY <1>1, <1>11 DEF Reset
  <1>12. CASE ClockTick
    BY <1>1, <1>12 DEF ClockTick, limiterVars
  <1>13. CASE UNCHANGED vars
    BY <1>1, <1>13 DEF vars
  <1> QED BY <1>3, <1>4, <1>5, <1>6, <1>7, <1>8, <1>9, <1>10, <1>11, <1>12, <1>13
          DEF Next, Step, Iterate

-----------------------------------------------------------------------------

\* The waiter count follows the set of parked callers.
LEMMA WaitersStep ==
  ASSUME TypeOK, WaitersExact, [Next]_vars
  PROVE  WaitersExact'
  <1> USE DEF Parked, CallersOf
  <1>1. ASSUME UNCHANGED waiters, \A m \in Limiters : Parked(m)' = Parked(m)
        PROVE  WaitersExact'
    BY <1>1 DEF WaitersExact
  <1>2. ASSUME NEW c \in Callers, AtLoopTop(c), NEW where \in PCs,
               where \notin {"waiting", "woken"}, pc' = [pc EXCEPT ![c] = where],
               waiters' = [waiters EXCEPT ![LimiterOf[c]] = WaitersNow(c)]
        PROVE  WaitersExact'
    <2> DEFINE l == LimiterOf[c]
    <2>1. l \in Limiters /\ WaitersNow(c) = Cardinality(Parked(l) \ {c})
      BY <1>2, LoopTopWaiters, CallerTypes
    <2>2. Parked(l)' = Parked(l) \ {c}
      BY <1>2 DEF TypeOK
    <2>3. \A m \in Limiters \ {l} : Parked(m)' = Parked(m)
      BY <1>2 DEF TypeOK
    <2> HIDE DEF Parked
    <2>4. waiters'[l] = Cardinality(Parked(l)')
      BY <1>2, <2>1, <2>2 DEF TypeOK
    <2>5. \A m \in Limiters \ {l} : waiters'[m] = Cardinality(Parked(m)')
      BY <1>2, <2>3 DEF WaitersExact, TypeOK
    <2> QED BY <2>4, <2>5 DEF WaitersExact
  <1>3. ASSUME NEW c \in Callers, Call(c) PROVE WaitersExact'
    <2>1. \A m \in Limiters : Parked(m)' = Parked(m)
      BY <1>3 DEF Call, Goto, TypeOK
    <2> QED BY <1>1, <1>3, <2>1 DEF Call, limiterVars
  <1>4. ASSUME NEW c \in Callers, Take(c) PROVE WaitersExact'
    BY <1>2, <1>4 DEF Take, Goto, PCs
  <1>5. ASSUME NEW c \in Callers, Reject(c) PROVE WaitersExact'
    BY <1>2, <1>5 DEF Reject, Goto, PCs
  <1>6. ASSUME NEW c \in Callers, StartFetch(c) PROVE WaitersExact'
    BY <1>2, <1>6 DEF StartFetch, NeedsFetch, Goto, PCs
  <1>7. ASSUME NEW c \in Callers, Wait(c) PROVE WaitersExact'
    <2> DEFINE l == LimiterOf[c]
               Q == Parked(l) \ {c}
    <2>1. l \in Limiters /\ WaitersNow(c) = Cardinality(Q)
      BY <1>7, LoopTopWaiters, CallerTypes DEF Wait, NeedsFetch
    <2>2. Q \in SUBSET Callers
      OBVIOUS
    <2>3. Cardinality(Q \cup {c}) = Cardinality(Q) + 1
      BY <2>2, ParkedFinite, FS_AddElement
    <2>4. Parked(l)' = Q \cup {c}
      BY <1>7 DEF Wait, Goto, TypeOK
    <2>5. \A m \in Limiters \ {l} : Parked(m)' = Parked(m)
      BY <1>7 DEF Wait, Goto, TypeOK
    <2>6. waiters' = [waiters EXCEPT ![l] = WaitersNow(c) + 1]
      BY <1>7 DEF Wait
    <2> HIDE DEF Q, Parked
    <2>7. waiters'[l] = Cardinality(Parked(l)')
      BY <2>1, <2>3, <2>4, <2>6 DEF TypeOK
    <2>8. \A m \in Limiters \ {l} : waiters'[m] = Cardinality(Parked(m)')
      BY <2>5, <2>6 DEF WaitersExact, TypeOK
    <2> QED BY <2>7, <2>8 DEF WaitersExact
  <1>8. ASSUME NEW c \in Callers, Return(c) PROVE WaitersExact'
    <2>1. \A m \in Limiters : Parked(m)' = Parked(m)
      BY <1>8 DEF Return, Goto, TypeOK
    <2> QED BY <1>1, <1>8, <2>1 DEF Return, limiterVars
  <1>9. ASSUME NEW c \in Callers, PerformFetch(c) PROVE WaitersExact'
    <2>1. \A m \in Limiters : Parked(m)' = Parked(m)
      BY <1>9 DEF PerformFetch, Goto, TypeOK
    <2> QED BY <1>1, <1>9, <2>1 DEF PerformFetch, limiterVars
  <1>10. ASSUME NEW c \in Callers, ApplyReply(c) PROVE WaitersExact'
    <2>1. \A m \in Limiters : Parked(m)' = Parked(m)
      BY <1>10 DEF ApplyReply, Applied, Broadcast, TypeOK
    <2> QED BY <1>1, <1>10, <2>1 DEF ApplyReply, Applied
  <1>11. ASSUME NEW l \in Limiters, Reset(l) PROVE WaitersExact'
    BY <1>1, <1>11 DEF Reset
  <1>12. CASE ClockTick
    BY <1>1, <1>12 DEF ClockTick, limiterVars
  <1>13. CASE UNCHANGED vars
    BY <1>1, <1>13 DEF vars
  <1> QED BY <1>3, <1>4, <1>5, <1>6, <1>7, <1>8, <1>9, <1>10, <1>11, <1>12, <1>13
          DEF Next, Step, Iterate

-----------------------------------------------------------------------------

\* The ledger of one limiter.
LEMMA ConservationStep ==
  ASSUME TypeOK, SingleFlight, TokenConservation, [Next]_vars
  PROVE  TokenConservation'
  <1> USE DEF InFlight, CallersOf
  <1>1. ASSUME UNCHANGED <<localTokens, allowed, discarded, drawn, reply>>,
               \A m \in Limiters : InFlight(m)' = InFlight(m)
        PROVE  TokenConservation'
    BY <1>1 DEF TokenConservation
  <1>2. ASSUME NEW c \in Callers, NEW where \in PCs, pc' = [pc EXCEPT ![c] = where],
               pc[c] # "fetched", where # "fetched"
        PROVE  \A m \in Limiters : InFlight(m)' = InFlight(m)
    BY <1>2 DEF TypeOK
  <1>3. ASSUME NEW c \in Callers, Call(c) PROVE TokenConservation'
    BY <1>1, <1>2, <1>3 DEF Call, Goto, limiterVars, ledgerVars, PCs
  <1>4. ASSUME NEW c \in Callers, Take(c) PROVE TokenConservation'
    <2> DEFINE l == LimiterOf[c]
    <2>1. \A m \in Limiters : InFlight(m)' = InFlight(m)
      BY <1>2, <1>4 DEF Take, Goto, AtLoopTop, PCs
    <2>2. l \in Limiters /\ localTokens[l] \in Nat /\ allowed[l] \in Nat /\ cost[c] \in Nat
      BY CallerTypes
    <2>3. /\ localTokens'[l] = localTokens[l] - cost[c]
          /\ allowed'[l] = allowed[l] + cost[c]
          /\ \A m \in Limiters \ {l} : /\ localTokens'[m] = localTokens[m]
                                       /\ allowed'[m] = allowed[m]
          /\ UNCHANGED <<reply, drawn, discarded>>
      BY <1>4, <2>2 DEF Take, TypeOK
    <2>4. \A m \in Limiters :
            (localTokens[m] + allowed[m] + discarded[m])'
              = localTokens[m] + allowed[m] + discarded[m]
      BY <2>2, <2>3 DEF TypeOK
    <2> QED BY <2>1, <2>3, <2>4 DEF TokenConservation
  <1>5. ASSUME NEW c \in Callers, Reject(c) PROVE TokenConservation'
    BY <1>1, <1>2, <1>5 DEF Reject, Goto, AtLoopTop, ledgerVars, PCs
  <1>6. ASSUME NEW c \in Callers, Wait(c) PROVE TokenConservation'
    BY <1>1, <1>2, <1>6 DEF Wait, NeedsFetch, Goto, AtLoopTop, callVars, ledgerVars,
        PCs
  <1>7. ASSUME NEW c \in Callers, StartFetch(c) PROVE TokenConservation'
    BY <1>1, <1>2, <1>7 DEF StartFetch, NeedsFetch, Goto, AtLoopTop, ledgerVars, PCs
  <1>8. ASSUME NEW c \in Callers, Return(c) PROVE TokenConservation'
    BY <1>1, <1>2, <1>8 DEF Return, Goto, limiterVars, ledgerVars, PCs
  <1>9. ASSUME NEW c \in Callers, PerformFetch(c) PROVE TokenConservation'
    <2> DEFINE l == LimiterOf[c]
               r == Reply(batch[c])
    <2>1. l \in Limiters /\ pc[c] = "fetch"
      BY <1>9, CallerTypes DEF PerformFetch
    <2>2. InFlight(l) = {}
      BY <2>1 DEF SingleFlight, Fetchers
    <2>3. /\ pc' = [pc EXCEPT ![c] = "fetched"]
          /\ reply' = [reply EXCEPT ![c] = r]
          /\ drawn' = [drawn EXCEPT ![l] = @ + r.granted]
          /\ UNCHANGED <<localTokens, allowed, discarded>>
      BY <1>9 DEF PerformFetch, Goto, limiterVars
    <2>4. InFlight(l)' = {c}
      BY <2>1, <2>2, <2>3 DEF TypeOK
    <2>5. \A m \in Limiters \ {l} : InFlight(m)' = InFlight(m)
      BY <2>3 DEF TypeOK
    <2>6. drawn[l] = localTokens[l] + allowed[l] + discarded[l]
      BY <2>1, <2>2 DEF TokenConservation
    <2>7. drawn'[l] = drawn[l] + r.granted /\ reply'[c].granted = r.granted
      BY <2>1, <2>3 DEF TypeOK
    <2>8. \A m \in Limiters \ {l} :
            drawn'[m] = drawn[m] /\ \A d \in InFlight(m) : reply'[d] = reply[d]
      BY <2>3 DEF TypeOK
    <2> HIDE DEF r
    <2> QED BY <2>1, <2>3, <2>4, <2>5, <2>6, <2>7, <2>8 DEF TokenConservation
  <1>10. ASSUME NEW c \in Callers, ApplyReply(c) PROVE TokenConservation'
    <2> DEFINE l == LimiterOf[c]
    <2>1. /\ l \in Limiters /\ pc[c] = "fetched" /\ Broadcast(l, c)
          /\ localTokens' = [localTokens EXCEPT ![l] = @ + reply[c].granted]
          /\ reply' = [reply EXCEPT ![c] = NoReply]
          /\ UNCHANGED <<drawn, allowed, discarded>>
      BY <1>10, CallerTypes DEF ApplyReply, Applied, ledgerVars
    <2>2. InFlight(l) = {c}
      BY <2>1 DEF SingleFlight, Fetchers
    <2>3. InFlight(l)' = {}
      BY <2>1, <2>2 DEF Broadcast
    <2>4. \A m \in Limiters \ {l} : InFlight(m)' = InFlight(m)
      BY <2>1 DEF Broadcast
    <2>5. drawn[l] = localTokens[l] + allowed[l] + discarded[l] + reply[c].granted
      BY <2>1, <2>2 DEF TokenConservation
    <2>6. localTokens'[l] = localTokens[l] + reply[c].granted
      BY <2>1 DEF TypeOK
    <2>7. /\ localTokens[l] \in Nat /\ allowed[l] \in Nat /\ discarded[l] \in Nat
          /\ reply[c].granted \in Nat
      BY <2>1, CallerTypes DEF TypeOK
    <2>8. drawn'[l] = localTokens'[l] + allowed'[l] + discarded'[l]
      BY <2>1, <2>5, <2>6, <2>7
    <2>9. \A m \in Limiters \ {l} :
            localTokens'[m] = localTokens[m] /\ \A d \in InFlight(m) : reply'[d] = reply[d]
      BY <2>1 DEF TypeOK
    <2> QED BY <2>1, <2>3, <2>4, <2>8, <2>9 DEF TokenConservation
  <1>11. ASSUME NEW l \in Limiters, Reset(l) PROVE TokenConservation'
    <2>1. /\ localTokens'[l] = 0
          /\ discarded'[l] = discarded[l] + localTokens[l]
          /\ \A m \in Limiters \ {l} : /\ localTokens'[m] = localTokens[m]
                                       /\ discarded'[m] = discarded[m]
          /\ UNCHANGED <<pc, reply, drawn, allowed>>
      BY <1>11 DEF Reset, callVars, TypeOK
    <2>2. \A m \in Limiters :
            (localTokens[m] + allowed[m] + discarded[m])'
              = localTokens[m] + allowed[m] + discarded[m]
      BY <2>1 DEF TypeOK
    <2> QED BY <2>1, <2>2 DEF TokenConservation
  <1>12. CASE ClockTick
    BY <1>1, <1>12 DEF ClockTick, limiterVars, callVars, ledgerVars
  <1>13. CASE UNCHANGED vars
    BY <1>1, <1>13 DEF vars
  <1> QED BY <1>3, <1>4, <1>5, <1>6, <1>7, <1>8, <1>9, <1>10, <1>11, <1>12, <1>13
          DEF Next, Step, Iterate

-----------------------------------------------------------------------------

\* A limiter holds no more than the remote server has granted.
DrawnBounded == \A l \in Limiters : drawn[l] <= granted

LEMMA DrawnStep ==
  ASSUME TypeOK, DrawnBounded, [Next]_vars
  PROVE  DrawnBounded'
  <1>1. ASSUME NEW c \in Callers, PerformFetch(c) PROVE DrawnBounded'
    <2> DEFINE l == LimiterOf[c]
               g == Reply(batch[c]).granted
    <2>1. l \in Limiters /\ batch[c] \in Nat
      BY CallerTypes
    <2>2. g \in Nat
      <3>1. Reply(batch[c]) \in [granted : {0, batch[c]}, retryAfter : Nat]
        BY <2>1, ReplyType DEF TypeOK
      <3> QED BY <2>1, <3>1
    <2>3. granted' = granted + g /\ drawn' = [drawn EXCEPT ![l] = @ + g]
      BY <1>1 DEF PerformFetch, RequestTokens
    <2>4. granted \in Nat /\ drawn \in [Limiters -> Nat]
      BY DEF TypeOK, RemoteTypeOK
    <2> HIDE DEF g, l
    <2> QED BY <2>1, <2>2, <2>3, <2>4 DEF DrawnBounded
  <1>2. CASE UNCHANGED <<drawn, granted>>
    BY <1>2 DEF DrawnBounded
  <1>3. ASSUME ~\E c \in Callers : PerformFetch(c) PROVE UNCHANGED <<drawn, granted>>
    BY <1>3 DEF Next, Step, Iterate, Call, Take, Reject, Wait, StartFetch, Return,
        ApplyReply, Applied, Reset, ClockTick, Tick, vars, serverVars, remoteVars,
        ledgerVars
  <1> QED BY <1>1, <1>2, <1>3

-----------------------------------------------------------------------------

\* The inductive invariant.
LimiterInv ==
  /\ TypeOK
  /\ SingleFlight
  /\ NoStrandedWaiter
  /\ WaitersExact
  /\ TokenConservation
  /\ DrawnBounded

LEMMA InitLimiterInv == Init => LimiterInv
  <1> SUFFICES ASSUME Init PROVE LimiterInv
    OBVIOUS
  <1>1. RemoteTypeOK
    BY InitRemoteInv DEF Init, RemoteInv
  <1>2. 0 \in 0..MaxBatch /\ NoReply \in [granted : Nat, retryAfter : Nat]
    BY RemoteAssumption DEF NoReply
  <1>3. TypeOK
    BY <1>1, <1>2 DEF Init, TypeOK, PCs
  <1>4. \A l \in Limiters : Fetchers(l) = {} /\ Parked(l) = {} /\ InFlight(l) = {}
    BY DEF Init, Fetchers, Parked, InFlight, CallersOf
  <1>5. SingleFlight /\ NoStrandedWaiter
    BY <1>4 DEF Init, SingleFlight, NoStrandedWaiter
  <1>6. WaitersExact
    BY <1>4, FS_EmptySet DEF Init, WaitersExact
  <1>7. TokenConservation /\ DrawnBounded
    BY <1>4 DEF Init, RemoteInit, TokenConservation, DrawnBounded
  <1> QED BY <1>3, <1>5, <1>6, <1>7 DEF LimiterInv

LEMMA NextLimiterInv == LimiterInv /\ [Next]_vars => LimiterInv'
  BY TypeStep, FlightStep, WaitersStep, ConservationStep, DrawnStep DEF LimiterInv

\* Every step of the limiters is a step of the remote server, or leaves it.
LEMMA StepImplementsRemote ==
  LimiterInv /\ [Next]_vars => [RemoteNext]_serverVars
  <1> SUFFICES ASSUME LimiterInv, [Next]_vars PROVE [RemoteNext]_serverVars
    OBVIOUS
  <1>1. ASSUME NEW c \in Callers, PerformFetch(c) PROVE RemoteNext
    <2>1. batch[c] \in 0..MaxBatch
      BY CallerTypes DEF LimiterInv
    <2> QED BY <1>1, <2>1 DEF PerformFetch, RemoteNext
  <1>2. CASE ClockTick
    BY <1>2 DEF ClockTick, RemoteNext
  <1>3. ASSUME ~\E c \in Callers : PerformFetch(c), ~ClockTick
        PROVE  UNCHANGED serverVars
    BY <1>3 DEF Next, Step, Iterate, Call, Take, Reject, Wait, StartFetch, Return,
        ApplyReply, Applied, Reset, vars, serverVars
  <1> QED BY <1>1, <1>2, <1>3

(***************************************************************************)
(* Types, and with them the bound on every batch: dynamic batching never   *)
(* asks for more than prefetch_count or one token per caller (AllowN,      *)
(* lines 151-156).                                                         *)
(***************************************************************************)
THEOREM LimiterTypes == Spec => []TypeOK
  <1>1. LimiterInv => TypeOK
    BY DEF LimiterInv
  <1> QED BY <1>1, InitLimiterInv, NextLimiterInv, PTL DEF Spec

(***************************************************************************)
(* Single flight: at most one fetch per limiter, and the flag fetching is  *)
(* set exactly while there is one (AllowN, lines 136-168).                 *)
(***************************************************************************)
THEOREM LimiterSingleFlight == Spec => []SingleFlight
  <1>1. LimiterInv => SingleFlight
    BY DEF LimiterInv
  <1> QED BY <1>1, InitLimiterInv, NextLimiterInv, PTL DEF Spec

(***************************************************************************)
(* No lost wake-up: a parked caller always has a fetch in flight that will *)
(* broadcast (AllowN, lines 136-145 and 179).                              *)
(***************************************************************************)
THEOREM LimiterNoStrandedWaiter == Spec => []NoStrandedWaiter
  <1>1. LimiterInv => NoStrandedWaiter
    BY DEF LimiterInv
  <1> QED BY <1>1, InitLimiterInv, NextLimiterInv, PTL DEF Spec

(***************************************************************************)
(* The waiter count is exact in every interleaving (AllowN, lines 138-140).*)
(***************************************************************************)
THEOREM LimiterWaitersExact == Spec => []WaitersExact
  <1>1. LimiterInv => WaitersExact
    BY DEF LimiterInv
  <1> QED BY <1>1, InitLimiterInv, NextLimiterInv, PTL DEF Spec

(***************************************************************************)
(* No token is lost or minted between the remote server and an admission   *)
(* (AllowN, lines 113-171, and Reset, line 208).                           *)
(***************************************************************************)
THEOREM LimiterConservation == Spec => []TokenConservation
  <1>1. LimiterInv => TokenConservation
    BY DEF LimiterInv
  <1> QED BY <1>1, InitLimiterInv, NextLimiterInv, PTL DEF Spec

(***************************************************************************)
(* Refinement: all limiters together drive the remote server exactly as    *)
(* RemoteSpec allows (performFetch, line 199).                             *)
(***************************************************************************)
THEOREM LimiterImplementsRemote == Spec => RemoteSpec
  <1>1. Init => RemoteInit
    BY DEF Init
  <1> QED BY <1>1, InitLimiterInv, NextLimiterInv, StepImplementsRemote, PTL
          DEF Spec, RemoteSpec

\* A limiter admits no more than it drew: the rest is cached, discarded or in
\* a reply.
LEMMA AdmittedFromDrawn ==
  ASSUME LimiterInv, NEW l \in Limiters
  PROVE  allowed[l] <= drawn[l]
  <1>1. /\ localTokens[l] \in Nat /\ allowed[l] \in Nat /\ discarded[l] \in Nat
        /\ drawn[l] \in Nat
    BY DEF LimiterInv, TypeOK
  <1>2. CASE InFlight(l) = {}
    BY <1>1, <1>2 DEF LimiterInv, TokenConservation
  <1>3. CASE InFlight(l) # {}
    <2>1. PICK c \in InFlight(l) : TRUE
      BY <1>3
    <2>2. reply[c].granted \in Nat
      BY <2>1, CallerTypes DEF InFlight, CallersOf, LimiterInv
    <2>3. drawn[l] = localTokens[l] + allowed[l] + discarded[l] + reply[c].granted
      BY <2>1 DEF LimiterInv, TokenConservation
    <2> QED BY <1>1, <2>2, <2>3
  <1> QED BY <1>2, <1>3

\* A limiter admits no more than it drew, and drew no more than was granted.
LEMMA AdmittedFromGranted == LimiterInv /\ GrantsBounded => AdmittedWithinLimit
  <1> SUFFICES ASSUME LimiterInv, GrantsBounded, NEW l \in Limiters
               PROVE  Unit * allowed[l] <= Unit * Burst + Unit * MaxBatch + Rate * now
    BY DEF AdmittedWithinLimit
  <1>1. /\ localTokens[l] \in Nat /\ allowed[l] \in Nat /\ discarded[l] \in Nat
        /\ drawn[l] \in Nat /\ granted \in Nat /\ now \in Nat
        /\ Unit \in Nat /\ Rate \in Nat /\ Burst \in Nat /\ MaxBatch \in Nat
    BY RemoteAssumption DEF LimiterInv, TypeOK, RemoteTypeOK
  <1>2. allowed[l] <= drawn[l]
    BY AdmittedFromDrawn
  <1>3. allowed[l] <= granted
    BY <1>1, <1>2 DEF LimiterInv, DrawnBounded
  <1>4. Unit * allowed[l] <= Unit * granted
    BY <1>1, <1>3, MultiplyMonotone
  <1>5. /\ Unit * allowed[l] \in Nat /\ Unit * granted \in Nat /\ Unit * Burst \in Nat
        /\ Unit * MaxBatch \in Nat /\ Rate * now \in Nat
    BY <1>1, MultiplyNat
  <1> QED BY <1>4, <1>5 DEF GrantsBounded

(***************************************************************************)
(* The rate limit end to end: what a limiter admits stays within the limit *)
(* of the remote server, whatever the callers, the other limiters and the  *)
(* resets do (AllowN, lines 113-119).                                      *)
(***************************************************************************)
THEOREM LimiterRateLimit == Spec => []AdmittedWithinLimit
  BY LimiterImplementsRemote, RemoteRateLimit, InitLimiterInv, NextLimiterInv,
     AdmittedFromGranted, PTL DEF Spec

\* What the remote server granted is what the limiters drew.
GrantedDrawn == granted = SumOver(drawn)

\* It is so at the start, and a fetch adds to both what it is granted.
LEMMA GrantedDrawnStep ==
  /\ Init => GrantedDrawn
  /\ LimiterInv /\ GrantedDrawn /\ [Next]_vars => GrantedDrawn'
  <1>0. SumOver(drawn) = SumOf(drawn, Limiters) /\ SumOver(drawn)' = SumOf(drawn', Limiters)
    BY DEF SumOver, SumOf, MapThenSumSet, MapThenFoldSet
  <1>1. ASSUME Init PROVE GrantedDrawn
    <2>1. \A l \in Limiters : drawn[l] = 0
      BY <1>1 DEF Init
    <2>2. SumOf(drawn, Limiters) = 0
      BY <2>1, LimiterAssumption, SumZero
    <2> QED BY <1>0, <1>1, <2>2 DEF GrantedDrawn, Init, RemoteInit
  <1>2. ASSUME LimiterInv, GrantedDrawn, NEW c \in Callers, PerformFetch(c) PROVE GrantedDrawn'
    <2>1. batch[c] \in Nat /\ RemoteTypeOK /\ drawn \in [Limiters -> Nat]
      BY <1>2, CallerTypes DEF LimiterInv, TypeOK
    <2>2. Reply(batch[c]) \in [granted : {0, batch[c]}, retryAfter : Nat]
      BY <2>1, ReplyType
    <2>3. PICK l \in Limiters, g \in Nat : l = LimiterOf[c] /\ g = Reply(batch[c]).granted
      BY <2>1, <2>2, LimiterAssumption
    <2>4. granted' = granted + g /\ drawn' = [drawn EXCEPT ![l] = @ + g]
      BY <1>2, <2>3 DEF PerformFetch, RequestTokens
    <2>5. SumOf([drawn EXCEPT ![l] = @ + g], Limiters) = SumOf(drawn, Limiters) + g
      BY <2>1, LimiterAssumption, SumRaised
    <2>6. SumOf(drawn', Limiters) = SumOf(drawn, Limiters) + g
      BY <2>4, <2>5
    <2> QED BY <1>0, <1>2, <2>4, <2>6 DEF GrantedDrawn
  <1>3. ASSUME GrantedDrawn, UNCHANGED <<drawn, granted>> PROVE GrantedDrawn'
    BY <1>0, <1>3 DEF GrantedDrawn
  <1>4. ASSUME [Next]_vars, ~\E c \in Callers : PerformFetch(c) PROVE UNCHANGED <<drawn, granted>>
    BY <1>4 DEF Next, Step, Iterate, Call, Take, Reject, Wait, StartFetch, Return,
        ApplyReply, Applied, Reset, ClockTick, Tick, vars, serverVars, remoteVars,
        ledgerVars
  <1> QED BY <1>1, <1>2, <1>3, <1>4

\* Together the limiters admit no more than they drew.
LEMMA AdmittedTogether == LimiterInv /\ GrantsBounded /\ GrantedDrawn => AdmissionBounded
  <1> SUFFICES ASSUME LimiterInv, GrantsBounded, GrantedDrawn PROVE AdmissionBounded
    OBVIOUS
  <1>1. /\ allowed \in [Limiters -> Nat] /\ drawn \in [Limiters -> Nat]
        /\ granted \in Nat /\ now \in Nat
        /\ Unit \in Nat /\ Rate \in Nat /\ Burst \in Nat /\ MaxBatch \in Nat
    BY RemoteAssumption DEF LimiterInv, TypeOK, RemoteTypeOK
  <1>2. PICK a : a = SumOver(allowed)
    OBVIOUS
  <1>3. a \in Nat /\ a <= granted
    <2>1. SumOf(allowed, Limiters) \in Nat /\ SumOf(allowed, Limiters) <= SumOf(drawn, Limiters)
      BY <1>1, LimiterAssumption, AdmittedFromDrawn, SumAtMost
    <2>2. SumOver(allowed) = SumOf(allowed, Limiters) /\ SumOver(drawn) = SumOf(drawn, Limiters)
      BY DEF SumOver, SumOf, MapThenSumSet, MapThenFoldSet
    <2> QED BY <1>2, <2>1, <2>2 DEF GrantedDrawn
  <1>4. Unit * a <= Unit * granted
    BY <1>1, <1>3, MultiplyMonotone
  <1>5. /\ Unit * a \in Nat /\ Unit * granted \in Nat /\ Unit * Burst \in Nat
        /\ Unit * MaxBatch \in Nat /\ Rate * now \in Nat
    BY <1>1, <1>3, MultiplyNat
  <1> QED BY <1>2, <1>4, <1>5 DEF GrantsBounded, GrantedDrawn, AdmissionBounded

(***************************************************************************)
(* The rate limit of the whole fleet: all limiters together admit no more  *)
(* than one remote server allows (localcached.go, lines 113-119 and        *)
(* 165-179), however many there are and whatever order their fetches,      *)
(* admissions and resets come in.                                          *)
(***************************************************************************)
THEOREM LimiterAdmissionBounded == Spec => []AdmissionBounded
  BY LimiterImplementsRemote, RemoteRateLimit, InitLimiterInv, NextLimiterInv,
     GrantedDrawnStep, AdmittedTogether, PTL DEF Spec

-----------------------------------------------------------------------------
(* The back-off. *)

\* When the debt of the server is paid, up to the fraction that is truncated.
Due == lastRefill + WaitFor(tokens)

\* A refusal from then on is for less than the refill of one tick.
LEMMA RefusalIsShort ==
  ASSUME RemoteTypeOK, NEW n \in Nat, Due <= now, Reply(n).granted = 0
  PROVE  Reply(n).retryAfter = 0
  <1>1. /\ Unit \in Nat /\ Rate \in Nat \ {0}
        /\ now \in Nat /\ tokens \in Int /\ lastRefill \in Nat /\ lastRefill <= now
    BY RemoteAssumption DEF RemoteTypeOK
  <1>2. now - lastRefill \in Nat /\ (now - lastRefill) * Rate \in Nat
    BY <1>1, MultiplyNat
  <1>3. Refilled \in Int /\ Refilled >= tokens
    BY ReplyType
  <1>4. CASE InDebt
    <2>1. Refilled < 0 /\ tokens < 0 /\ -tokens \in Nat
      BY <1>1, <1>3, <1>4 DEF InDebt
    <2>2. (-tokens) \div Rate \in Nat
      BY <1>1, <2>1, DivisionNat
    <2>3. (now - lastRefill) + 1 > (-tokens) \div Rate
      BY <1>1, <2>1, <2>2 DEF Due, WaitFor
    <2>4. ((now - lastRefill) + 1) * Rate > -tokens
      BY <1>1, <1>2, <2>1, <2>3, DivisionHigh
    <2>5. ((now - lastRefill) + 1) * Rate = (now - lastRefill) * Rate + Rate
      BY <1>1, <1>2
    <2>6. -Refilled \in Nat /\ -Refilled < Rate
      BY <1>1, <1>2, <1>3, <2>1, <2>4, <2>5 DEF Refilled
    <2>7. (-Refilled) \div Rate = 0
      <3>1. (-Refilled) \div Rate \in Nat /\ ~(0 < (-Refilled) \div Rate)
        <4>1. (-Refilled) \div Rate \in Nat
          BY <1>1, <2>6, DivisionNat
        <4>2. ASSUME 1 <= (-Refilled) \div Rate PROVE FALSE
          <5>1. Rate * 1 <= Rate * ((-Refilled) \div Rate)
            BY <1>1, <4>1, <4>2, MultiplyMonotone
          <5>2. Rate * ((-Refilled) \div Rate) <= -Refilled
            BY <1>1, <2>6
          <5>3. Rate * ((-Refilled) \div Rate) \in Nat
            BY <1>1, <4>1, MultiplyNat
          <5> QED BY <1>1, <2>6, <5>1, <5>2, <5>3
        <4> QED BY <4>1, <4>2
      <3> QED BY <3>1
    <2> QED BY <1>4, <2>7 DEF Reply, BalanceAfter, WaitFor
  <1>5. CASE ~InDebt
    <2>1. n = 0 /\ Refilled >= 0
      BY <1>3, <1>5 DEF Reply, InDebt
    <2>2. Unit * n = 0
      BY <1>1, <2>1
    <2>3. BalanceAfter(n) = Refilled
      BY <1>3, <1>5, <2>2 DEF BalanceAfter
    <2> QED BY <1>3, <2>1, <2>3 DEF Reply, WaitFor
  <1> QED BY <1>4, <1>5

(***************************************************************************)
(* With one limiter and no Reset nobody else draws on the server, so that  *)
(* the debt is paid when a fetch starts, and otherwise the back-off, or    *)
(* the reply that will set it, lasts until then.                           *)
(***************************************************************************)
BackOffKept ==
  (\A k, l \in Limiters : k = l) /\ resets = 0 =>
    /\ \A c \in Callers : pc[c] = "fetch" => Due <= now
    /\ \A c \in Callers : pc[c] = "fetched" => Due <= now + reply[c].retryAfter
    /\ \/ \E c \in Callers : pc[c] = "fetched"
       \/ Due <= now
       \/ \A l \in Limiters : Due <= rejectUntil[l]

LEMMA DueType ==
  ASSUME RemoteTypeOK
  PROVE  Due \in Nat /\ now \in Nat
  <1>1. Rate \in Nat \ {0} /\ now \in Nat /\ tokens \in Int /\ lastRefill \in Nat
    BY RemoteAssumption DEF RemoteTypeOK
  <1>2. WaitFor(tokens) \in Nat
    BY <1>1, DivisionNat DEF WaitFor
  <1> QED BY <1>1, <1>2 DEF Due

\* With one limiter there is one fetcher at most in all.
LEMMA OneFetcher ==
  ASSUME SingleFlight, \A k, l \in Limiters : k = l,
         NEW c \in Callers, pc[c] \in {"fetch", "fetched"},
         NEW d \in Callers, pc[d] \in {"fetch", "fetched"}
  PROVE  c = d
  <1>1. LimiterOf[c] \in Limiters /\ LimiterOf[d] = LimiterOf[c]
    BY LimiterAssumption
  <1>2. c \in Fetchers(LimiterOf[c]) /\ d \in Fetchers(LimiterOf[c])
    BY <1>1 DEF Fetchers, CallersOf
  <1> QED BY <1>1, <1>2 DEF SingleFlight

LEMMA BackOffStep ==
  LimiterInv /\ BackOffKept /\ BackOffSuffices /\ [Next]_vars
    => BackOffKept' /\ BackOffSuffices'
  <1> SUFFICES ASSUME LimiterInv, BackOffKept, BackOffSuffices, [Next]_vars
               PROVE  BackOffKept' /\ BackOffSuffices'
    OBVIOUS
  <1>0. TypeOK /\ RemoteTypeOK /\ SingleFlight /\ resets \in Nat /\ pc \in [Callers -> PCs]
    BY DEF LimiterInv, TypeOK
  <1>1. CASE ~(\A k, l \in Limiters : k = l)
    BY <1>1 DEF BackOffKept, BackOffSuffices
  <1>2. CASE resets' # 0
    BY <1>2 DEF BackOffKept, BackOffSuffices
  <1>3. ASSUME \A k, l \in Limiters : k = l, resets' = 0, ~UNCHANGED vars
        PROVE  BackOffKept' /\ BackOffSuffices'
    <2>1. resets = 0
      BY <1>0, <1>3 DEF Next, Step, Iterate, Call, Take, Reject, Wait, StartFetch, Return,
         PerformFetch, ApplyReply, Applied, Reset, ClockTick, ledgerVars, vars
    <2>2. /\ \A c \in Callers : pc[c] = "fetch" => Due <= now
          /\ \A c \in Callers : pc[c] = "fetched" => Due <= now + reply[c].retryAfter
          /\ \/ \E c \in Callers : pc[c] = "fetched"
             \/ Due <= now
             \/ \A l \in Limiters : Due <= rejectUntil[l]
      BY <1>3, <2>1 DEF BackOffKept
    <2>3. \A c \in Callers : pc[c] = "fetched" /\ reply[c].granted = 0 => reply[c].retryAfter = 0
      BY <1>3, <2>1 DEF BackOffSuffices
    <2>4. Due \in Nat /\ now \in Nat
      BY <1>0, DueType
    <2>5. ASSUME NEW c \in Callers, StartFetch(c)
          PROVE  BackOffKept' /\ BackOffSuffices'
      <3>1. LimiterOf[c] \in Limiters /\ rejectUntil[LimiterOf[c]] \in Nat
        BY <1>0, CallerTypes
      <3>2. now >= rejectUntil[LimiterOf[c]] /\ ~fetching[LimiterOf[c]]
        BY <2>5 DEF StartFetch, NeedsFetch
      <3>3. \A d \in Callers : pc[d] # "fetched"
        BY <1>0, <1>3, <3>1, <3>2, LimiterAssumption DEF SingleFlight, Fetchers, CallersOf
      <3>4. Due <= now
        BY <2>2, <2>4, <3>1, <3>2, <3>3
      <3>5. /\ UNCHANGED <<now, tokens, lastRefill, rejectUntil, reply>>
            /\ \A d \in Callers : pc'[d] # "fetched"
        BY <1>0, <2>5, <3>3 DEF StartFetch, Goto, serverVars, remoteVars
      <3>6. Due' <= now'
        BY <3>4, <3>5 DEF Due, WaitFor
      <3> QED BY <3>5, <3>6 DEF BackOffKept, BackOffSuffices
    <2>6. ASSUME NEW c \in Callers, PerformFetch(c)
          PROVE  BackOffKept' /\ BackOffSuffices'
      <3>1. pc[c] = "fetch" /\ Due <= now /\ batch[c] \in Nat
        BY <1>0, <2>2, <2>6, CallerTypes DEF PerformFetch
      <3>2. \A d \in Callers : pc'[d] \in {"fetch", "fetched"} => d = c
        BY <1>0, <1>3, <2>6, <3>1, OneFetcher DEF PerformFetch, Goto
      <3>3. reply'[c] = Reply(batch[c]) /\ pc'[c] = "fetched" /\ now' = now
        BY <1>0, <2>6 DEF PerformFetch, Goto, TypeOK
      <3>4. reply'[c].granted = 0 => reply'[c].retryAfter = 0
        BY <1>0, <3>1, <3>3, RefusalIsShort
      <3>5. tokens' = BalanceAfter(batch[c]) /\ lastRefill' = now
        BY <2>6 DEF PerformFetch, RequestTokens
      <3>6. Due' = now' + reply'[c].retryAfter
        BY <3>3, <3>5 DEF Due, WaitFor, Reply
      <3>7. Due' <= now' + reply'[c].retryAfter
        <4>1. Reply(batch[c]).retryAfter \in Nat
          BY <1>0, <3>1, ReplyType
        <4> QED BY <2>4, <3>3, <3>6, <4>1
      <3>8. BackOffKept'
        BY <3>2, <3>3, <3>7 DEF BackOffKept
      <3>9. BackOffSuffices'
        BY <3>2, <3>4 DEF BackOffSuffices
      <3> QED BY <3>8, <3>9
    <2>7. ASSUME NEW c \in Callers, ApplyReply(c)
          PROVE  BackOffKept' /\ BackOffSuffices'
      <3>1. /\ pc[c] = "fetched" /\ Due <= now + reply[c].retryAfter
            /\ reply[c].retryAfter \in Nat /\ LimiterOf[c] \in Limiters
        BY <1>0, <2>2, <2>7, CallerTypes DEF ApplyReply, Applied
      <3>2. \A d \in Callers : pc'[d] \notin {"fetch", "fetched"}
        BY <1>0, <1>3, <2>7, <3>1, OneFetcher DEF ApplyReply, Broadcast
      <3>3. UNCHANGED <<now, tokens, lastRefill>>
        BY <2>7 DEF ApplyReply, Applied, serverVars, remoteVars
      <3>4. Due' = Due
        BY <3>3 DEF Due, WaitFor
      <3>5. Due' <= now' \/ \A l \in Limiters : Due' <= rejectUntil'[l]
        <4>1. CASE reply[c].retryAfter > 0
          <5>1. rejectUntil'[LimiterOf[c]] = now + reply[c].retryAfter
            BY <1>0, <2>7, <3>1, <4>1 DEF ApplyReply, Applied, TypeOK
          <5> QED BY <1>3, <3>1, <3>4, <5>1
        <4>2. CASE ~(reply[c].retryAfter > 0)
          BY <2>4, <3>1, <3>3, <3>4, <4>2
        <4> QED BY <4>1, <4>2
      <3> QED BY <3>2, <3>5 DEF BackOffKept, BackOffSuffices
    <2>8. CASE ClockTick
      <3>1. now' = now + 1 /\ UNCHANGED <<tokens, lastRefill, rejectUntil, reply, pc>>
        BY <2>8 DEF ClockTick, Tick, remoteVars, limiterVars, callVars
      <3>2. Due' = Due
        BY <3>1 DEF Due, WaitFor
      <3>3. \A c \in Callers : reply[c].retryAfter \in Nat
        BY <1>0, CallerTypes
      <3>4. BackOffKept'
        BY <2>2, <2>4, <3>1, <3>2, <3>3 DEF BackOffKept
      <3> QED BY <2>3, <3>1, <3>4 DEF BackOffSuffices
    <2>9. ASSUME NEW c \in Callers,
                 Call(c) \/ Take(c) \/ Reject(c) \/ Wait(c) \/ Return(c)
          PROVE  BackOffKept' /\ BackOffSuffices'
      <3>1. /\ UNCHANGED <<now, tokens, lastRefill, rejectUntil, reply>>
            /\ \A d \in Callers : pc[d] = "fetched" <=> pc'[d] = "fetched"
            /\ \A d \in Callers : pc[d] = "fetch" <=> pc'[d] = "fetch"
        BY <1>0, <2>9 DEF Call, Take, Reject, Wait, Return, Goto, NeedsFetch, AtLoopTop,
           serverVars, remoteVars, limiterVars, callVars, PCs
      <3>2. Due' = Due
        BY <3>1 DEF Due, WaitFor
      <3>3. BackOffKept'
        BY <2>2, <3>1, <3>2 DEF BackOffKept
      <3>4. BackOffSuffices'
        BY <2>3, <3>1 DEF BackOffSuffices
      <3> QED BY <3>3, <3>4
    <2>10. ASSUME NEW l \in Limiters, Reset(l) PROVE FALSE
      BY <1>0, <1>3, <2>1, <2>10 DEF Reset
    <2> QED BY <1>3, <2>5, <2>6, <2>7, <2>8, <2>9, <2>10 DEF Next, Step, Iterate
  <1>4. CASE UNCHANGED vars
    BY <1>4 DEF vars, BackOffKept, BackOffSuffices, Due, WaitFor
  <1> QED BY <1>1, <1>2, <1>3, <1>4

(***************************************************************************)
(* The back-off is long enough: with one limiter and no Reset, a refusal   *)
(* is only for the fraction of a tick that time.Duration truncates, and    *)
(* never starts another back-off (AllowN, lines 168-177).                  *)
(***************************************************************************)
THEOREM LimiterBackOffSuffices == Spec => []BackOffSuffices
  <1>1. Init => BackOffKept /\ BackOffSuffices
    <2> SUFFICES ASSUME Init PROVE BackOffKept /\ BackOffSuffices
      OBVIOUS
    <2>1. Unit * Burst \in Nat
      BY RemoteAssumption, MultiplyNat
    <2>2. Due <= now
      BY <2>1 DEF Init, RemoteInit, Due, WaitFor
    <2>3. \A c \in Callers : pc[c] = "idle"
      BY DEF Init
    <2> QED BY <2>2, <2>3 DEF BackOffKept, BackOffSuffices
  <1> QED BY <1>1, InitLimiterInv, NextLimiterInv, BackOffStep, PTL DEF Spec

=============================================================================
