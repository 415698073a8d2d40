------------------------ MODULE SlidingWindowProofs ------------------------
(***************************************************************************)
(* The sliding window limiter is the fixed window limiter, for every rate, *)
(* window, number of keys and behaviour of the wall clock.  The reason is  *)
(* in SlidingInv: window starts are multiples of the window, so two of     *)
(* them that differ are a whole window apart, the test for a gap always    *)
(* succeeds, and the previous count stays zero.  WindowInv adds what the   *)
(* limit of a window and the announced time of a retry rest on.  The last  *)
(* section turns the refinement round and carries the limit over to the    *)
(* fixed window.                                                           *)
(***************************************************************************)
EXTENDS SlidingWindow, Integers, TLAPS

-----------------------------------------------------------------------------
(***************************************************************************)
(* Products and quotients of integers: rates, windows and units are        *)
(* parameters, so these facts are not linear arithmetic.                   *)
(***************************************************************************)
LEMMA Distribute ==
  ASSUME NEW a \in Int, NEW b \in Int, NEW r \in Int
  PROVE  /\ (a - b) * r = r * a - r * b
         /\ r * (a + b) = r * a + r * b
         /\ a * r \in Int
         /\ r * a \in Int
  BY SMT

LEMMA MultiplyMonotone ==
  ASSUME NEW a \in Int, NEW b \in Int, NEW r \in Nat, a <= b
  PROVE  r * a <= r * b
  BY SMT

LEMMA MultiplyNat ==
  ASSUME NEW a \in Nat, NEW r \in Nat
  PROVE  /\ a * r \in Nat
         /\ r * a \in Nat
  BY SMT

LEMMA DivisionBound ==
  ASSUME NEW a \in Int, NEW k \in Int, NEW r \in Nat \ {0}, a <= k * r
  PROVE  a \div r <= k
  <1>1. \A q \in Int : q * r <= a => q <= k
    <2>1. SUFFICES ASSUME NEW q \in Int, q * r <= a, k < q PROVE FALSE
      OBVIOUS
    <2>2. r * (k + 1) <= r * q
      BY <2>1, MultiplyMonotone
    <2>3. r * (k + 1) = k * r + r /\ r * q = q * r
      BY SMT
    <2>4. k * r \in Int /\ q * r \in Int
      BY <2>1, Distribute
    <2> QED BY <2>1, <2>2, <2>3, <2>4
  <1>2. a \div r \in Int /\ (a \div r) * r <= a
    BY SMT
  <1> QED BY <1>1, <1>2

LEMMA DivisionNat ==
  ASSUME NEW a \in Nat, NEW r \in Nat \ {0}
  PROVE  a \div r \in Nat
  BY SMT

\* A quotient is not reached before its product, and passed after it.

LEMMA DivisionHigh ==
  ASSUME NEW a \in Nat, NEW r \in Nat \ {0}, NEW t \in Nat, t > a \div r
  PROVE  t * r > a
  <1>1. a \div r \in Nat /\ a < (a \div r) * r + r
    BY SMT
  <1>2. r * ((a \div r) + 1) <= r * t
    BY <1>1, MultiplyMonotone
  <1>3. r * ((a \div r) + 1) = (a \div r) * r + r /\ r * t = t * r
    BY <1>1, SMT
  <1>4. t * r \in Nat /\ (a \div r) * r \in Nat
    BY <1>1, MultiplyNat
  <1> QED BY <1>1, <1>2, <1>3, <1>4

LEMMA DivisionMonotone ==
  ASSUME NEW a \in Nat, NEW b \in Nat, NEW r \in Nat \ {0}, a <= b
  PROVE  a \div r <= b \div r
  <1>1. SUFFICES ASSUME b \div r < a \div r PROVE FALSE
    BY DivisionNat
  <1>2. b \div r \in Nat /\ b < (b \div r) * r + r
    BY SMT
  <1>3. r * ((b \div r) + 1) <= r * (a \div r) /\ (a \div r) * r <= a /\ a \div r \in Nat
    BY <1>1, <1>2, DivisionNat, MultiplyMonotone, SMT
  <1>4. r * ((b \div r) + 1) = (b \div r) * r + r /\ r * (a \div r) = (a \div r) * r
    BY <1>2, <1>3, SMT
  <1>5. (b \div r) * r \in Nat /\ (a \div r) * r \in Nat
    BY <1>2, <1>3, MultiplyNat
  <1> QED BY <1>2, <1>3, <1>4, <1>5

LEMMA MultipleDivided ==
  ASSUME NEW q \in Nat, NEW r \in Nat \ {0}
  PROVE  (r * q) \div r = q
  <1>1. r * q \in Nat
    BY MultiplyNat
  <1>2. (r * q) \div r <= q
    BY <1>1, DivisionBound, SMT
  <1>3. (r * q) \div r >= q
    <2>1. SUFFICES ASSUME q > (r * q) \div r PROVE FALSE
      BY <1>1, DivisionNat
    <2>2. q * r > r * q
      BY <1>1, <2>1, DivisionHigh
    <2> QED BY <1>1, <2>2
  <1> QED BY <1>1, <1>2, <1>3, DivisionNat

\* The remainder is what truncation cuts off.

LEMMA Truncation ==
  ASSUME NEW t \in Nat, NEW w \in Nat \ {0}
  PROVE  /\ t \div w \in Nat
         /\ t % w \in Nat
         /\ t % w < w
         /\ t - (t % w) = w * (t \div w)
         /\ t - (t % w) \in Nat
  <1>1. /\ t \div w \in Nat
        /\ t % w \in Nat
        /\ t % w < w
        /\ t = w * (t \div w) + (t % w)
    BY SMT
  <1>2. w * (t \div w) \in Nat
    BY <1>1, MultiplyNat
  <1> QED BY <1>1, <1>2

\* Two different multiples of w are at least w apart.

LEMMA MultiplesApart ==
  ASSUME NEW p \in Nat, NEW q \in Nat, NEW w \in Nat \ {0}, w * p > w * q
  PROVE  w * p - w * q >= w
  <1>1. p > q
    <2>1. SUFFICES ASSUME p <= q PROVE FALSE
      OBVIOUS
    <2>2. w * p <= w * q
      BY <2>1, MultiplyMonotone
    <2> QED BY <2>2, MultiplyNat
  <1>2. w * (q + 1) <= w * p
    BY <1>1, MultiplyMonotone
  <1>3. w * (q + 1) = w * q + w
    BY SMT
  <1>4. w * p \in Nat /\ w * q \in Nat
    BY MultiplyNat
  <1> QED BY <1>2, <1>3, <1>4

-----------------------------------------------------------------------------
Aligned == \A k \in Keys : \E q \in Nat : windowStart[k] = Window * q

NothingCarried ==
  \A k \in Keys : /\ prevCount[k] = 0
                  /\ currCount[k] <= Rate
                  /\ ~present[k] => currCount[k] = 0

SlidingInv == TypeOK /\ Aligned /\ NothingCarried

LEMMA WindowType == Window \in Nat \ {0}
  BY WindowAssumption DEF Window

LEMMA TruncateType ==
  ASSUME NEW t \in Nat
  PROVE  /\ Truncate(t) \in Nat
         /\ Truncate(t) = Window * (t \div Window)
         /\ t \div Window \in Nat
         /\ t - Truncate(t) \in 0..(Window - 1)
  BY WindowType, Truncation DEF Truncate

\* What AllowN computes from an entry in a state of the invariant.
LEMMA EntryNow ==
  ASSUME SlidingInv, NEW k \in Keys
  PROVE  /\ Start(k) \in Nat
         /\ \E q \in Nat : Start(k) = Window * q
         /\ Moves(k) => Skips(k)
         /\ Prev(k) = 0
         /\ Curr(k) \in Nat
         /\ Curr(k) <= Rate
         /\ Weighted(k) = Curr(k)
  <1>1. now \in Nat /\ windowStart[k] \in Nat /\ currCount[k] \in Nat
    BY DEF SlidingInv, TypeOK, LogTypeOK
  <1>2. /\ Truncate(now) \in Nat /\ Truncate(now) = Window * (now \div Window)
        /\ now \div Window \in Nat /\ now - Truncate(now) \in 0..(Window - 1)
    BY <1>1, TruncateType
  <1>3. Start(k) \in Nat /\ \E q \in Nat : Start(k) = Window * q
    BY <1>1, <1>2 DEF Start, SlidingInv, Aligned
  <1>4. ASSUME Moves(k) PROVE Skips(k)
    <2>1. PICK q \in Nat : Start(k) = Window * q
      BY <1>3
    <2> QED BY <1>2, <1>4, <2>1, WindowType, MultiplesApart DEF Moves, Skips
  <1>5. Prev(k) = 0
    BY <1>4 DEF Prev, SlidingInv, NothingCarried
  <1>6. Curr(k) \in Nat /\ Curr(k) <= Rate
    BY <1>1, WindowAssumption DEF Curr, SlidingInv, NothingCarried
  <1>7. Window - (now - Truncate(now)) \in Nat
    BY <1>2, WindowType
  <1>8. (Prev(k) * (Window - (now - Truncate(now)))) \div Window = 0
    BY <1>5, <1>7, WindowType
  <1>9. Weighted(k) = Curr(k)
    BY <1>6, <1>8 DEF Weighted
  <1> QED BY <1>3, <1>4, <1>5, <1>6, <1>9

-----------------------------------------------------------------------------

LEMMA InitSlidingInv == Init => SlidingInv
  <1> SUFFICES ASSUME Init PROVE SlidingInv
    OBVIOUS
  <1>1. TypeOK
    BY DEF Init, LogInit, TypeOK, LogTypeOK, NoAnswer
  <1>2. Window * 0 = 0
    BY WindowType
  <1>3. Aligned
    <2>1. \A k \in Keys : windowStart[k] = Window * 0
      BY <1>2 DEF Init
    <2> QED BY <2>1 DEF Aligned
  <1>4. NothingCarried
    <2>1. \A k \in Keys : prevCount[k] = 0 /\ currCount[k] = 0
      BY DEF Init
    <2>2. 0 <= Rate
      BY WindowAssumption
    <2> QED BY <2>1, <2>2 DEF NothingCarried
  <1> QED BY <1>1, <1>3, <1>4 DEF SlidingInv

LEMMA AllowNKeepsInv ==
  ASSUME SlidingInv, NEW k \in Keys, NEW n \in Costs, AllowN(k, n)
  PROVE  SlidingInv'
  <1> DEFINE ok == Curr(k) + n <= Rate
             count == IF ok THEN Curr(k) + n ELSE Curr(k)
             start == IF Moves(k) THEN Truncate(now) ELSE Start(k)
  <1>1. n \in Nat /\ Rate \in Nat
    BY WindowAssumption
  <1>2. /\ Curr(k) \in Nat /\ Curr(k) <= Rate /\ Weighted(k) = Curr(k) /\ Prev(k) = 0
        /\ Start(k) \in Nat /\ \E q \in Nat : Start(k) = Window * q
    BY EntryNow
  <1>3. /\ now \in Nat
        /\ Truncate(now) \in Nat /\ Truncate(now) = Window * (now \div Window)
        /\ now \div Window \in Nat /\ now - Truncate(now) \in 0..(Window - 1)
    BY TruncateType DEF SlidingInv, TypeOK, LogTypeOK
  <1>4. /\ count \in Nat /\ count <= Rate /\ Rate - count \in Nat
        /\ start \in Nat /\ \E q \in Nat : start = Window * q
    BY <1>1, <1>2, <1>3
  <1>5. now + (Window - (now - Truncate(now))) \in Nat
    BY <1>3, WindowType
  <1>6. /\ present' = [present EXCEPT ![k] = TRUE]
        /\ prevCount' = [prevCount EXCEPT ![k] = 0]
        /\ currCount' = [currCount EXCEPT ![k] = count]
        /\ windowStart' = [windowStart EXCEPT ![k] = start]
        /\ Answered(k, n, ok, Rate - count)
    <2>1. (IF ok THEN Rate - Curr(k) - n ELSE Rate - Curr(k)) = Rate - count
      BY <1>1, <1>2
    <2> QED BY <1>2, <2>1 DEF AllowN
  <1> HIDE DEF count, start
  <1>7. LogTypeOK'
    <2>1. ok \in BOOLEAN
      OBVIOUS
    <2> HIDE DEF ok
    <2>2. answer' \in [Keys -> [n : Nat, allowed : BOOLEAN, remaining : Nat, resetAt : Nat]]
      BY <1>1, <1>4, <1>5, <1>6, <2>1 DEF Answered, SlidingInv, TypeOK, LogTypeOK
    <2>3. admitted' \in [Keys -> Nat]
      BY <1>1, <1>6 DEF Answered, SlidingInv, TypeOK, LogTypeOK
    <2> QED BY <1>6, <2>2, <2>3 DEF Answered, clockVars, SlidingInv, TypeOK, LogTypeOK
  <1>8. TypeOK'
    BY <1>4, <1>6, <1>7 DEF SlidingInv, TypeOK
  <1>9. Aligned'
    BY <1>4, <1>6 DEF SlidingInv, TypeOK, Aligned
  <1>10. NothingCarried'
    BY <1>4, <1>6 DEF SlidingInv, TypeOK, NothingCarried
  <1> QED BY <1>8, <1>9, <1>10 DEF SlidingInv

LEMMA NextSlidingInv == SlidingInv /\ [Next]_vars => SlidingInv'
  <1> SUFFICES ASSUME SlidingInv, [Next]_vars PROVE SlidingInv'
    OBVIOUS
  <1>1. ASSUME UNCHANGED entryVars, LogTypeOK' PROVE SlidingInv'
    BY <1>1 DEF entryVars, SlidingInv, TypeOK, Aligned, NothingCarried
  <1>2. ASSUME NEW k \in Keys, NEW n \in Costs, AllowN(k, n) PROVE SlidingInv'
    BY <1>2, AllowNKeepsInv
  <1>3. ASSUME NEW k \in Keys, Restart(k) 
        PROVE  answer' \in [Keys -> [n : Nat, allowed : BOOLEAN, remaining : Nat,
                                     resetAt : Nat]] => LogTypeOK'
    <2>1. /\ now \in Nat /\ backs \in Nat /\ admitted \in [Keys -> Nat]
          /\ lowest \in [Keys -> Nat] /\ highest \in [Keys -> Nat]
          /\ \A j \in Keys : lowest[j] <= now /\ now <= highest[j]
      BY DEF SlidingInv, TypeOK, LogTypeOK
    <2>2. /\ now' \in Nat /\ backs' \in Nat /\ admitted' \in [Keys -> Nat]
          /\ lowest' \in [Keys -> Nat] /\ highest' \in [Keys -> Nat]
      BY <1>3, <2>1 DEF Restart
    <2>3. \A j \in Keys : lowest'[j] <= now' /\ now' <= highest'[j]
      BY <1>3, <2>1 DEF Restart
    <2> QED BY <2>2, <2>3 DEF LogTypeOK
  <1>4. ASSUME NEW k \in Keys, Reset(k) PROVE SlidingInv'
    <2>1. LogTypeOK'
      BY <1>3, <1>4 DEF Reset, Forgotten, NoAnswer, SlidingInv, TypeOK, LogTypeOK
    <2>2. TypeOK'
      BY <1>4, <2>1 DEF Reset, SlidingInv, TypeOK
    <2>3. Window * 0 = 0
      BY WindowType
    <2>4. Aligned'
      BY <1>4, <2>3 DEF Reset, SlidingInv, TypeOK, Aligned
    <2>5. NothingCarried'
      BY <1>4, WindowAssumption DEF Reset, SlidingInv, TypeOK, NothingCarried
    <2> QED BY <2>2, <2>4, <2>5 DEF SlidingInv
  <1>5. ASSUME NEW k \in Keys, Observe(k), UNCHANGED entryVars PROVE SlidingInv'
    BY <1>1, <1>3, <1>5 DEF Observe, SlidingInv, TypeOK, LogTypeOK
  <1>6. CASE Tick /\ UNCHANGED entryVars
    <2>1. LogTypeOK'
      BY <1>6 DEF Tick, countVars, SlidingInv, TypeOK, LogTypeOK
    <2> QED BY <1>1, <1>6, <2>1
  <1>7. ASSUME NEW t \in 0..(now - 1), StepBack(t), UNCHANGED entryVars
        PROVE  SlidingInv'
    <2>1. now \in Nat /\ t \in Nat /\ t < now
      BY DEF SlidingInv, TypeOK, LogTypeOK
    <2>2. LogTypeOK'
      BY <1>7, <2>1 DEF StepBack, countVars, SlidingInv, TypeOK, LogTypeOK
    <2> QED BY <1>1, <1>7, <2>2
  <1>8. CASE UNCHANGED vars
    BY <1>8 DEF vars, SlidingInv, TypeOK, LogTypeOK, Aligned, NothingCarried
  <1> QED BY <1>2, <1>4, <1>5, <1>6, <1>7, <1>8 DEF Next, Clock

-----------------------------------------------------------------------------

\* Every step is a step of the fixed window limiter.
LEMMA StepImplementsFixed == SlidingInv /\ [Next]_vars => [FW!Next]_FW!vars
  <1> SUFFICES ASSUME SlidingInv, [Next]_vars PROVE [FW!Next]_FW!vars
    OBVIOUS
  <1>1. ASSUME NEW k \in Keys, NEW n \in Costs, AllowN(k, n) PROVE FW!AllowN(k, n)
    <2>1. /\ Weighted(k) = Curr(k) /\ Curr(k) \in Nat /\ n \in Nat /\ Rate \in Nat
          /\ now \in Nat /\ Truncate(now) \in Nat /\ windowStart[k] \in Nat
      BY EntryNow, TruncateType, WindowAssumption DEF SlidingInv, TypeOK, LogTypeOK
    <2>2. FW!Truncate(now) = Truncate(now)
      BY DEF FW!Truncate, Truncate, FW!Window, Window
    <2>3. FW!Current(k) <=> present[k] /\ ~Moves(k)
      BY <2>1, <2>2 DEF FW!Current, Moves, Start
    <2>4. FW!CountNow(k) = Curr(k)
      BY <2>1, <2>3 DEF FW!CountNow, Curr, Moves, Start, SlidingInv, NothingCarried
    <2>5. (IF Moves(k) THEN Truncate(now) ELSE Start(k))
            = IF FW!Current(k) THEN windowStart[k] ELSE FW!Truncate(now)
      BY <2>1, <2>2, <2>3 DEF Moves, Start
    <2>6. windowStart' = [windowStart EXCEPT ![k] =
                            IF FW!Current(k) THEN @ ELSE FW!Truncate(now)]
      BY <1>1, <2>5 DEF AllowN, SlidingInv, TypeOK
    <2>7. \A m : Answered(k, n, Curr(k) + n <= Rate, m)
                   => FW!Answered(k, n, Curr(k) + n <= Rate, m)
      BY <2>2 DEF Answered, FW!Answered, Window, FW!Window, clockVars, FW!clockVars
    <2>8. (IF Curr(k) + n <= Rate THEN Rate - Curr(k) - n ELSE Rate - Curr(k))
            = Rate - (IF Curr(k) + n <= Rate THEN Curr(k) + n ELSE Curr(k))
      BY <2>1
    <2>9. FW!Answered(k, n, Curr(k) + n <= Rate,
            Rate - (IF Curr(k) + n <= Rate THEN Curr(k) + n ELSE Curr(k)))
      BY <1>1, <2>1, <2>7, <2>8 DEF AllowN
    <2> QED BY <1>1, <2>1, <2>4, <2>6, <2>9 DEF AllowN, FW!AllowN
  <1>2. ASSUME NEW k \in Keys, Reset(k) PROVE FW!Reset(k)
    BY <1>2 DEF Reset, FW!Reset, Forgotten, FW!Forgotten, Restart, FW!Restart,
        NoAnswer, FW!NoAnswer
  <1>3. ASSUME NEW k \in Keys, Observe(k), UNCHANGED entryVars
        PROVE  FW!Observe(k) /\ UNCHANGED FW!entryVars
    BY <1>3 DEF Observe, FW!Observe, Restart, FW!Restart, entryVars, FW!entryVars
  <1>4. ASSUME Clock, UNCHANGED entryVars PROVE FW!Clock /\ UNCHANGED FW!entryVars
    BY <1>4 DEF Clock, FW!Clock, Tick, FW!Tick, StepBack, FW!StepBack, countVars,
        FW!countVars, entryVars, FW!entryVars
  <1>5. CASE UNCHANGED vars
    BY <1>5 DEF vars, FW!vars
  <1> QED BY <1>1, <1>2, <1>3, <1>4, <1>5 DEF Next, FW!Next

(***************************************************************************)
(* Types; among them, that the weighted count never exceeds the rate, so   *)
(* Remaining is never negative (AllowN, lines 286-295).                    *)
(***************************************************************************)
THEOREM SlidingTypes == Spec => []TypeOK
  <1>1. SlidingInv => TypeOK
    BY DEF SlidingInv
  <1> QED BY <1>1, InitSlidingInv, NextSlidingInv, PTL DEF Spec

(***************************************************************************)
(* What the code does, not what its comments promise (PreviousWeighted):   *)
(* the sliding window limiter implements the fixed window limiter.  AllowN *)
(* gives the same answers (lines 265-299 against 354-380).                 *)
(***************************************************************************)
THEOREM SlidingIsFixed == Spec => IsFixedWindow
  <1>1. Init => FW!Init
    BY DEF Init, FW!Init, LogInit, FW!LogInit, NoAnswer, FW!NoAnswer
  <1> QED BY <1>1, InitSlidingInv, NextSlidingInv, StepImplementsFixed, PTL
          DEF Spec, IsFixedWindow, FW!Spec

-----------------------------------------------------------------------------
(* The limit over an interval, and RetryAfter. *)

\* What a key may have admitted, a, since its observation began, when the
\* clock has touched the windows from lo to hi: nothing if its entry is older
\* than that, one count if the entry lies in the future of a clock that was
\* stepped back before, and else Rate per window before that of the entry.
KeyCovered(entry, q, lo, hi, a, c) ==
  /\ ~entry => a = 0
  /\ entry => /\ q < lo => a = 0
              /\ q >= lo => a <= Rate * (q - lo) + c
              /\ q > hi => a <= c

Covered ==
  \A k \in Keys :
    KeyCovered(present[k], windowStart[k] \div Window, lowest[k] \div Window,
               highest[k] \div Window, admitted[k], currCount[k])

\* Unless the clock stepped back, no window lies in the future, and a
\* rejection announces the end of the window of the entry it found full.
Announced ==
  backs = 0 =>
    \A k \in Keys :
      /\ windowStart[k] <= now
      /\ ~answer[k].allowed =>
           /\ present[k]
           /\ answer[k].resetAt = windowStart[k] + Window
           /\ currCount[k] + answer[k].n > Rate

WindowInv == SlidingInv /\ Covered /\ Announced

LEMMA WindowTypes ==
  ASSUME SlidingInv, NEW k \in Keys
  PROVE  /\ now \in Nat /\ backs \in Nat
         /\ lowest[k] \in Nat /\ highest[k] \in Nat /\ lowest[k] <= now /\ now <= highest[k]
         /\ admitted[k] \in Nat /\ currCount[k] \in Nat /\ currCount[k] <= Rate
         /\ windowStart[k] \in Nat /\ present[k] \in BOOLEAN
         /\ answer[k] \in [n : Nat, allowed : BOOLEAN, remaining : Nat, resetAt : Nat]
         /\ windowStart[k] \div Window \in Nat
         /\ lowest[k] \div Window \in Nat /\ highest[k] \div Window \in Nat
         /\ now \div Window \in Nat
         /\ lowest[k] \div Window <= now \div Window
         /\ now \div Window <= highest[k] \div Window
  <1>1. /\ now \in Nat /\ backs \in Nat
        /\ lowest[k] \in Nat /\ highest[k] \in Nat /\ lowest[k] <= now /\ now <= highest[k]
        /\ admitted[k] \in Nat /\ currCount[k] \in Nat /\ currCount[k] <= Rate
        /\ windowStart[k] \in Nat /\ present[k] \in BOOLEAN
        /\ answer[k] \in [n : Nat, allowed : BOOLEAN, remaining : Nat, resetAt : Nat]
    BY DEF SlidingInv, TypeOK, LogTypeOK, NothingCarried
  <1>2. /\ windowStart[k] \div Window \in Nat /\ now \div Window \in Nat
        /\ lowest[k] \div Window \in Nat /\ highest[k] \div Window \in Nat
    BY <1>1, WindowType, DivisionNat
  <1>3. /\ lowest[k] \div Window <= now \div Window
        /\ now \div Window <= highest[k] \div Window
    BY <1>1, WindowType, DivisionMonotone
  <1> QED BY <1>1, <1>2, <1>3

\* How the bound moves: with a wider range of windows, with a new interval,
\* and with a request that is counted in the entry or in a later window w.
LEMMA CoveredWider ==
  ASSUME NEW e \in BOOLEAN, NEW q \in Nat, NEW lo \in Nat, NEW hi \in Nat, NEW a \in Nat,
         NEW c \in Nat, NEW lower \in Nat, NEW higher \in Nat,
         KeyCovered(e, q, lo, hi, a, c), lower <= lo, hi <= higher
  PROVE  KeyCovered(e, q, lower, higher, a, c)
  <1>0. Rate \in Nat
    BY WindowAssumption
  <1>1. ASSUME q >= lower PROVE Rate * (q - lower) \in Nat
    <2>1. q - lower \in Nat
      BY <1>1
    <2> QED BY <1>0, <2>1, MultiplyNat
  <1>2. ASSUME q >= lo PROVE Rate * (q - lo) \in Nat /\ Rate * (q - lo) <= Rate * (q - lower)
    <2>1. q - lo \in Nat /\ q - lower \in Nat /\ q - lo <= q - lower
      BY <1>2
    <2> QED BY <1>0, <2>1, MultiplyNat, MultiplyMonotone
  <1>3. ASSUME e, q >= lower PROVE a <= Rate * (q - lower) + c
    <2>1. CASE q >= lo
      <3>1. a <= Rate * (q - lo) + c
        BY <1>3, <2>1 DEF KeyCovered
      <3> QED BY <1>1, <1>2, <1>3, <2>1, <3>1
    <2>2. CASE q < lo
      <3>1. a = 0
        BY <1>3, <2>2 DEF KeyCovered
      <3> QED BY <1>1, <1>3, <3>1
    <2> QED BY <2>1, <2>2
  <1> QED BY <1>3 DEF KeyCovered

LEMMA CoveredAnew ==
  ASSUME NEW e \in BOOLEAN, NEW q \in Nat, NEW lo \in Nat, NEW hi \in Nat, NEW c \in Nat
  PROVE  KeyCovered(e, q, lo, hi, 0, c)
  <1>0. Rate \in Nat
    BY WindowAssumption
  <1>1. ASSUME q >= lo PROVE 0 <= Rate * (q - lo) + c
    <2>1. q - lo \in Nat
      BY <1>1
    <2>2. Rate * (q - lo) \in Nat
      BY <1>0, <2>1, MultiplyNat
    <2> QED BY <2>2
  <1> QED BY <1>1 DEF KeyCovered

LEMMA CoveredCounted ==
  ASSUME NEW q \in Nat, NEW lo \in Nat, NEW hi \in Nat, NEW a \in Nat, NEW c \in Nat,
         NEW n \in Nat, KeyCovered(TRUE, q, lo, hi, a, c), lo <= q
  PROVE  KeyCovered(TRUE, q, lo, hi, a + n, c + n)
  <1>1. Rate * (q - lo) \in Nat
    <2>1. q - lo \in Nat /\ Rate \in Nat
      BY WindowAssumption
    <2> QED BY <2>1, MultiplyNat
  <1> QED BY <1>1 DEF KeyCovered

LEMMA CoveredMoved ==
  ASSUME NEW e \in BOOLEAN, NEW q \in Nat, NEW lo \in Nat, NEW hi \in Nat, NEW a \in Nat,
         NEW c \in Nat, NEW w \in Nat,
         KeyCovered(e, q, lo, hi, a, c), e => q < w, c <= Rate, lo <= w, w <= hi
  PROVE  KeyCovered(TRUE, w, lo, hi, a, 0)
  <1>0. Rate \in Nat
    BY WindowAssumption
  <1>1. Rate * (w - lo) \in Nat
    <2>1. w - lo \in Nat
      OBVIOUS
    <2> QED BY <1>0, <2>1, MultiplyNat
  <1>2. a <= Rate * (w - lo)
    <2>1. CASE e /\ q >= lo
      <3>1. a <= Rate * (q - lo) + c
        BY <2>1 DEF KeyCovered
      <3>2. q - lo \in Nat /\ (q - lo) + 1 <= w - lo
        BY <2>1
      <3>3. Rate * ((q - lo) + 1) = Rate * (q - lo) + Rate /\ Rate * (q - lo) \in Nat
        BY <1>0, <3>2, Distribute, MultiplyNat
      <3>4. Rate * ((q - lo) + 1) <= Rate * (w - lo)
        BY <1>0, <3>2, MultiplyMonotone
      <3> QED BY <1>0, <1>1, <3>1, <3>3, <3>4
    <2>2. CASE ~(e /\ q >= lo)
      <3>1. a = 0
        BY <2>2 DEF KeyCovered
      <3> QED BY <1>1, <3>1
    <2> QED BY <2>1, <2>2
  <1> QED BY <1>1, <1>2 DEF KeyCovered

\* The clock has left the window of an entry exactly when it moves.
LEMMA MovesLater ==
  ASSUME SlidingInv, NEW k \in Keys
  PROVE  /\ windowStart[k] = Window * (windowStart[k] \div Window)
         /\ present[k] => (Moves(k) <=> windowStart[k] \div Window < now \div Window)
         /\ present[k] => (Moves(k) <=> now >= windowStart[k] + Window)
         /\ ~present[k] => ~Moves(k)
  <1>1. PICK q \in Nat : windowStart[k] = Window * q
    BY DEF SlidingInv, Aligned
  <1>2. windowStart[k] \div Window = q
    BY <1>1, WindowType, MultipleDivided
  <1>3. /\ now \in Nat /\ windowStart[k] \in Nat /\ now \div Window \in Nat
        /\ Truncate(now) = Window * (now \div Window) /\ Truncate(now) \in Nat
        /\ now - Truncate(now) \in 0..(Window - 1)
    BY WindowTypes, TruncateType
  <1>4. q < now \div Window => Truncate(now) >= windowStart[k] + Window
    <2> SUFFICES ASSUME q < now \div Window PROVE Truncate(now) >= windowStart[k] + Window
      OBVIOUS
    <2>1. Window * (q + 1) <= Window * (now \div Window)
      BY <1>3, WindowType, MultiplyMonotone
    <2>2. Window * (q + 1) = Window * q + Window
      BY WindowType, Distribute
    <2> QED BY <1>1, <1>3, <2>1, <2>2, WindowType
  <1>5. q >= now \div Window => Truncate(now) <= windowStart[k]
    BY <1>1, <1>3, WindowType, MultiplyMonotone
  <1>6. present[k] => (Moves(k) <=> q < now \div Window)
    BY <1>3, <1>4, <1>5, WindowType DEF Moves, Start
  <1>7. present[k] => (Moves(k) <=> now >= windowStart[k] + Window)
    BY <1>3, <1>4, <1>5, <1>6, WindowType DEF Moves, Start
  <1>8. ~present[k] => ~Moves(k)
    BY <1>3 DEF Moves, Start
  <1> QED BY <1>1, <1>2, <1>6, <1>7, <1>8

LEMMA AllowNKeepsWindows ==
  ASSUME WindowInv, NEW k \in Keys, NEW n \in Costs, AllowN(k, n), SlidingInv'
  PROVE  Covered' /\ Announced'
  <1> DEFINE ok == Curr(k) + n <= Rate
             count == IF ok THEN Curr(k) + n ELSE Curr(k)
             start == IF Moves(k) THEN Truncate(now) ELSE Start(k)
             q == windowStart[k] \div Window
             w == now \div Window
             lo == lowest[k] \div Window
             hi == highest[k] \div Window
             later == start \div Window
  <1>0. SlidingInv
    BY DEF WindowInv
  <1>1. n \in Nat /\ Rate \in Nat
    BY WindowAssumption
  <1>2. /\ q \in Nat /\ w \in Nat /\ lo \in Nat /\ hi \in Nat /\ lo <= w /\ w <= hi
        /\ currCount[k] \in Nat /\ currCount[k] <= Rate /\ admitted[k] \in Nat
        /\ present[k] \in BOOLEAN /\ now \in Nat /\ windowStart[k] \in Nat
    BY <1>0, WindowTypes
  <1>3. Weighted(k) = Curr(k) /\ Curr(k) \in Nat
    BY <1>0, EntryNow
  <1>4. /\ Truncate(now) \in Nat /\ Truncate(now) = Window * w
        /\ now - Truncate(now) \in 0..(Window - 1)
    BY <1>2, TruncateType
  <1>5. /\ currCount' = [currCount EXCEPT ![k] = count]
        /\ windowStart' = [windowStart EXCEPT ![k] = start]
        /\ present' = [present EXCEPT ![k] = TRUE]
        /\ admitted' = [admitted EXCEPT ![k] = IF ok THEN @ + n ELSE @]
        /\ UNCHANGED <<now, backs, lowest, highest>>
    BY <1>3 DEF AllowN, Answered, clockVars
  <1>6. PICK remaining : answer' = [answer EXCEPT ![k] =
                  [n |-> n, allowed |-> ok, remaining |-> remaining,
                   resetAt |-> now + (Window - (now - Truncate(now)))]]
    BY <1>3 DEF AllowN, Answered
  <1>7. /\ currCount'[k] = count /\ windowStart'[k] = start /\ present'[k]
        /\ admitted'[k] = (IF ok THEN admitted[k] + n ELSE admitted[k])
        /\ answer'[k].n = n /\ answer'[k].allowed = ok
        /\ answer'[k].resetAt = now + (Window - (now - Truncate(now)))
    BY <1>0, <1>5, <1>6 DEF SlidingInv, TypeOK, LogTypeOK
  <1>8. \A j \in Keys \ {k} :
          /\ currCount'[j] = currCount[j] /\ windowStart'[j] = windowStart[j]
          /\ present'[j] = present[j] /\ admitted'[j] = admitted[j] /\ answer'[j] = answer[j]
    BY <1>0, <1>5, <1>6 DEF SlidingInv, TypeOK, LogTypeOK
  <1>9. KeyCovered(TRUE, later, lo, hi, admitted[k], Curr(k)) /\ later \in Nat /\ lo <= later
    <2>0. KeyCovered(present[k], q, lo, hi, admitted[k], currCount[k])
      BY DEF WindowInv, Covered
    <2>1. CASE Moves(k) \/ ~present[k]
      <3>1. start = Window * w
        BY <1>4, <2>1 DEF Start
      <3>2. later = w
        BY <1>2, <3>1, WindowType, MultipleDivided
      <3>3. present[k] => q < w
        BY <1>0, <2>1, MovesLater
      <3>4. KeyCovered(TRUE, w, lo, hi, admitted[k], 0)
        BY <1>2, <2>0, <3>3, CoveredMoved
      <3>5. Curr(k) = 0
        BY <1>0, <2>1 DEF Curr, SlidingInv, NothingCarried
      <3> QED BY <1>2, <3>2, <3>4, <3>5
    <2>2. CASE ~Moves(k) /\ present[k]
      <3>1. later = q /\ Curr(k) = currCount[k]
        BY <2>2 DEF Start, Curr
      <3>2. q >= w
        BY <1>0, <1>2, <2>2, MovesLater
      <3>3. KeyCovered(TRUE, q, lo, hi, admitted[k], currCount[k])
        BY <2>0, <2>2
      <3>4. lo <= q
        <4> HIDE DEF lo, q, w
        <4> QED BY <1>2, <3>2
      <3> HIDE DEF lo, q, hi, later
      <3> QED BY <1>2, <3>1, <3>3, <3>4
    <2> QED BY <1>2, <2>1, <2>2
  <1>10. Covered'
    <2>1. KeyCovered(TRUE, later, lo, hi, admitted'[k], count)
      <3>1. CASE ok
        <4>1. KeyCovered(TRUE, later, lo, hi, admitted[k] + n, Curr(k) + n)
          BY <1>1, <1>2, <1>3, <1>9, CoveredCounted
        <4> QED BY <1>7, <3>1, <4>1
      <3>2. CASE ~ok
        BY <1>7, <1>9, <3>2
      <3> QED BY <3>1, <3>2
    <2> HIDE DEF count, start
    <2>2. KeyCovered(present'[k], windowStart'[k] \div Window, lowest'[k] \div Window,
                     highest'[k] \div Window, admitted'[k], currCount'[k])
      <3>1. present'[k] = TRUE
        BY <1>0, <1>5 DEF SlidingInv, TypeOK
      <3> QED BY <1>5, <1>7, <2>1, <3>1
    <2>3. \A j \in Keys \ {k} :
            KeyCovered(present'[j], windowStart'[j] \div Window, lowest'[j] \div Window,
                       highest'[j] \div Window, admitted'[j], currCount'[j])
      BY <1>5, <1>8 DEF WindowInv, Covered
    <2> QED BY <2>2, <2>3 DEF Covered, KeyCovered
  <1>11. Announced'
    <2> SUFFICES ASSUME backs = 0, NEW j \in Keys
                 PROVE  /\ windowStart'[j] <= now
                        /\ ~answer'[j].allowed =>
                             /\ present'[j]
                             /\ answer'[j].resetAt = windowStart'[j] + Window
                             /\ currCount'[j] + answer'[j].n > Rate
      BY <1>5 DEF Announced
    <2>1. CASE j # k
      BY <1>8, <2>1 DEF WindowInv, Announced
    <2>2. CASE j = k
      <3>1. windowStart[k] <= now
        BY DEF WindowInv, Announced
      <3>2. start = Truncate(now)
        <4>1. CASE Moves(k) \/ ~present[k]
          BY <4>1 DEF Start
        <4>2. CASE ~Moves(k) /\ present[k]
          <5>1. q >= w
            BY <1>0, <1>2, <4>2, MovesLater
          <5>2. q <= w
            BY <1>2, <3>1, WindowType, DivisionMonotone
          <5>3. windowStart[k] = Window * q
            BY <1>0, MovesLater
          <5>4. q = w
            BY <1>2, <5>1, <5>2
          <5> QED BY <1>4, <4>2, <5>3, <5>4 DEF Start
        <4> QED BY <4>1, <4>2
      <3>3. now + (Window - (now - Truncate(now))) = Truncate(now) + Window
        BY <1>2, <1>4, WindowType
      <3>4. Truncate(now) <= now
        BY <1>2, <1>4
      <3>5. ~ok => count + n > Rate
        BY <1>1, <1>3
      <3> HIDE DEF ok, count, start
      <3> QED BY <1>7, <2>2, <3>2, <3>3, <3>4, <3>5
    <2> QED BY <2>1, <2>2
  <1> QED BY <1>10, <1>11

LEMMA WindowInvInit == Init => WindowInv
  <1> SUFFICES ASSUME Init PROVE WindowInv
    OBVIOUS
  <1>1. SlidingInv
    BY InitSlidingInv
  <1>2. Covered
    <2>1. \A k \in Keys : admitted[k] = 0
      BY DEF Init, LogInit
    <2>2. ASSUME NEW k \in Keys
          PROVE  KeyCovered(present[k], windowStart[k] \div Window, lowest[k] \div Window,
                            highest[k] \div Window, 0, currCount[k])
      <3>1. /\ present[k] \in BOOLEAN /\ windowStart[k] \div Window \in Nat
            /\ lowest[k] \div Window \in Nat /\ highest[k] \div Window \in Nat
            /\ currCount[k] \in Nat
        BY <1>1, WindowTypes
      <3> QED BY <3>1, CoveredAnew
    <2> QED BY <2>1, <2>2 DEF Covered
  <1>3. Announced
    <2>0. now = 0 /\ windowStart = [k \in Keys |-> 0]
      BY DEF Init, LogInit
    <2>1. \A k \in Keys : windowStart[k] <= now
      <3>1. ASSUME NEW k \in Keys PROVE windowStart[k] <= now
        <4>1. windowStart[k] = 0
          BY <2>0
        <4> QED BY <2>0, <4>1
      <3> QED BY <3>1
    <2>2. \A k \in Keys : answer[k] = NoAnswer
      BY DEF Init, LogInit
    <2>3. NoAnswer.allowed
      BY DEF NoAnswer
    <2> QED BY <2>1, <2>2, <2>3, Zenon DEF Announced
  <1> QED BY <1>1, <1>2, <1>3 DEF WindowInv

LEMMA WindowInvStep == WindowInv /\ [Next]_vars => WindowInv'
  <1> SUFFICES ASSUME WindowInv, [Next]_vars PROVE WindowInv'
    OBVIOUS
  <1>0. SlidingInv /\ SlidingInv'
    BY NextSlidingInv DEF WindowInv
  <1>1. SUFFICES Covered' /\ Announced'
    BY <1>0 DEF WindowInv
  <1>2. ASSUME NEW k \in Keys, NEW n \in Costs, AllowN(k, n) PROVE Covered' /\ Announced'
    BY <1>0, <1>2, AllowNKeepsWindows
  \* Restart begins a new interval for k.
  <1>3. ASSUME NEW k \in Keys, Restart(k),
               \A j \in Keys \ {k} : /\ present'[j] = present[j] /\ currCount'[j] = currCount[j]
                                     /\ windowStart'[j] = windowStart[j]
        PROVE  Covered'
    <2>1. /\ admitted'[k] = 0
          /\ \A j \in Keys \ {k} : /\ admitted'[j] = admitted[j] /\ lowest'[j] = lowest[j]
                                   /\ highest'[j] = highest[j]
      BY <1>0, <1>3 DEF Restart, SlidingInv, TypeOK, LogTypeOK
    <2>2. /\ present'[k] \in BOOLEAN /\ windowStart'[k] \div Window \in Nat
          /\ lowest'[k] \div Window \in Nat /\ highest'[k] \div Window \in Nat
          /\ currCount'[k] \in Nat
      <3>1. /\ present'[k] \in BOOLEAN /\ windowStart'[k] \in Nat
            /\ lowest'[k] \in Nat /\ highest'[k] \in Nat /\ currCount'[k] \in Nat
        BY <1>0 DEF SlidingInv, TypeOK, LogTypeOK
      <3> QED BY <3>1, WindowType, DivisionNat
    <2>3. KeyCovered(present'[k], windowStart'[k] \div Window, lowest'[k] \div Window,
                     highest'[k] \div Window, admitted'[k], currCount'[k])
      BY <2>1, <2>2, CoveredAnew
    <2>4. \A j \in Keys \ {k} :
            KeyCovered(present'[j], windowStart'[j] \div Window, lowest'[j] \div Window,
                       highest'[j] \div Window, admitted'[j], currCount'[j])
      BY <1>3, <2>1 DEF WindowInv, Covered
    <2> QED BY <2>3, <2>4 DEF Covered, KeyCovered
  <1>4. ASSUME NEW k \in Keys, Reset(k) PROVE Covered' /\ Announced'
    <2>1. \A j \in Keys \ {k} : /\ present'[j] = present[j] /\ currCount'[j] = currCount[j]
                                /\ windowStart'[j] = windowStart[j] /\ answer'[j] = answer[j]
      BY <1>0, <1>4 DEF Reset, Forgotten, SlidingInv, TypeOK, LogTypeOK
    <2>2. windowStart'[k] = 0 /\ answer'[k] = NoAnswer /\ now' = now /\ backs' = backs
      BY <1>0, <1>4 DEF Reset, Forgotten, Restart, SlidingInv, TypeOK, LogTypeOK
    <2>3. Covered'
      BY <1>3, <1>4, <2>1 DEF Reset, Forgotten
    <2>4. now \in Nat
      BY <1>0 DEF SlidingInv, TypeOK, LogTypeOK
    <2>5. Announced'
      BY <2>1, <2>2, <2>4 DEF WindowInv, Announced, NoAnswer
    <2> QED BY <2>3, <2>5
  <1>5. ASSUME NEW k \in Keys, Observe(k), UNCHANGED entryVars PROVE Covered' /\ Announced'
    <2>1. Covered'
      BY <1>3, <1>5 DEF Observe, entryVars
    <2>2. UNCHANGED <<now, backs, answer, present, currCount, windowStart>>
      BY <1>5 DEF Observe, Restart, entryVars
    <2> QED BY <2>1, <2>2 DEF WindowInv, Announced
  \* The clock only widens the range of the windows it touched.
  <1>6. ASSUME UNCHANGED entryVars, UNCHANGED countVars,
               \A k \in Keys : lowest'[k] <= lowest[k] /\ highest[k] <= highest'[k]
        PROVE  Covered'
    <2> SUFFICES ASSUME NEW k \in Keys
                 PROVE  KeyCovered(present[k], windowStart[k] \div Window, lowest'[k] \div Window,
                                   highest'[k] \div Window, admitted[k], currCount[k])
      BY <1>6 DEF Covered, entryVars, countVars, KeyCovered
    <2>1. lowest'[k] \in Nat /\ highest'[k] \in Nat
      BY <1>0 DEF SlidingInv, TypeOK, LogTypeOK
    <2>2. /\ lowest'[k] \div Window \in Nat /\ highest'[k] \div Window \in Nat
          /\ lowest'[k] \div Window <= lowest[k] \div Window
          /\ highest[k] \div Window <= highest'[k] \div Window
      BY <1>0, <1>6, <2>1, WindowTypes, WindowType, DivisionNat, DivisionMonotone
    <2>3. KeyCovered(present[k], windowStart[k] \div Window, lowest[k] \div Window,
                     highest[k] \div Window, admitted[k], currCount[k])
      BY DEF WindowInv, Covered
    <2> QED BY <1>0, <2>2, <2>3, WindowTypes, CoveredWider
  <1>7. CASE Tick /\ UNCHANGED entryVars
    <2>1. \A k \in Keys : lowest'[k] <= lowest[k] /\ highest[k] <= highest'[k]
      BY <1>0, <1>7 DEF Tick, SlidingInv, TypeOK, LogTypeOK
    <2>2. Covered'
      BY <1>6, <1>7, <2>1 DEF Tick
    <2>3. /\ now' = now + 1 /\ now \in Nat
          /\ UNCHANGED <<backs, answer, present, currCount, windowStart>>
      BY <1>0, <1>7 DEF Tick, entryVars, countVars, SlidingInv, TypeOK, LogTypeOK
    <2>4. Announced'
      BY <1>0, <2>3 DEF WindowInv, Announced, SlidingInv, TypeOK
    <2> QED BY <2>2, <2>4
  <1>8. ASSUME NEW t \in 0..(now - 1), StepBack(t), UNCHANGED entryVars
        PROVE  Covered' /\ Announced'
    <2>1. now \in Nat /\ backs \in Nat /\ t \in Nat
      BY <1>0 DEF SlidingInv, TypeOK, LogTypeOK
    <2>2. \A k \in Keys : lowest'[k] <= lowest[k] /\ highest[k] <= highest'[k]
      BY <1>0, <1>8, <2>1 DEF StepBack, SlidingInv, TypeOK, LogTypeOK
    <2>3. Covered'
      BY <1>6, <1>8, <2>2 DEF StepBack
    <2>4. backs' # 0
      BY <1>8, <2>1 DEF StepBack
    <2> QED BY <2>3, <2>4 DEF Announced
  <1>9. CASE UNCHANGED vars
    BY <1>9 DEF vars, WindowInv, Covered, KeyCovered, Announced
  <1> QED BY <1>2, <1>4, <1>5, <1>7, <1>8, <1>9 DEF Next, Clock

LEMMA WindowInvariant == Spec => []WindowInv
  BY WindowInvInit, WindowInvStep, PTL DEF Spec

(***************************************************************************)
(* The limit over every interval: at most Rate requests per window that    *)
(* the clock touched, however often it stepped back, before the interval   *)
(* or during it (AllowN, lines 254-299).                                   *)
(***************************************************************************)
THEOREM SlidingWindowBound == Spec => []WindowBound
  <1>1. ASSUME WindowInv PROVE WindowBound
    <2> SUFFICES ASSUME NEW k \in Keys PROVE admitted[k] <= Rate * Windows(k)
      BY DEF WindowBound
    <2> DEFINE q == windowStart[k] \div Window
               lo == lowest[k] \div Window
               hi == highest[k] \div Window
    <2>0. SlidingInv
      BY <1>1 DEF WindowInv
    <2>1. /\ q \in Nat /\ lo \in Nat /\ hi \in Nat /\ lo <= hi /\ present[k] \in BOOLEAN
          /\ currCount[k] \in Nat /\ currCount[k] <= Rate /\ admitted[k] \in Nat /\ Rate \in Nat
      BY <2>0, WindowTypes, WindowAssumption
    <2>2. KeyCovered(present[k], q, lo, hi, admitted[k], currCount[k])
      BY <1>1 DEF WindowInv, Covered
    <2>3. Windows(k) = (hi - lo) + 1
      BY <2>1 DEF Windows
    <2> HIDE DEF q, lo, hi
    <2>4. Rate * ((hi - lo) + 1) = Rate * (hi - lo) + Rate /\ Rate * (hi - lo) \in Nat
      <3>1. hi - lo \in Nat
        BY <2>1
      <3> QED BY <2>1, <3>1, Distribute, MultiplyNat
    <2>5. CASE ~present[k] \/ q < lo \/ q > hi
      BY <2>1, <2>2, <2>3, <2>4, <2>5 DEF KeyCovered
    <2>6. CASE present[k] /\ lo <= q /\ q <= hi
      <3>1. admitted[k] <= Rate * (q - lo) + currCount[k]
        BY <2>1, <2>2, <2>6 DEF KeyCovered
      <3>2. Rate * (q - lo) <= Rate * (hi - lo) /\ Rate * (q - lo) \in Nat
        <4>1. q - lo \in Nat /\ hi - lo \in Nat /\ q - lo <= hi - lo
          BY <2>1, <2>6
        <4> QED BY <2>1, <4>1, MultiplyMonotone, MultiplyNat
      <3> QED BY <2>1, <2>3, <2>4, <3>1, <3>2
    <2> QED BY <2>1, <2>5, <2>6
  <1> QED BY <1>1, WindowInvariant, PTL

(***************************************************************************)
(* RetryAfter is exact while the clock does not step back: the rejected    *)
(* request fits from the announced time on and not before (lines 281-300). *)
(***************************************************************************)
THEOREM SlidingRetryAfterExact == Spec => []RetryAfterExact
  <1>1. ASSUME WindowInv PROVE RetryAfterExact
    <2> SUFFICES ASSUME NEW k \in Keys, backs = 0, ~answer[k].allowed, answer[k].n <= Rate
                 PROVE  now >= answer[k].resetAt <=> Weighted(k) + answer[k].n <= Rate
      BY DEF RetryAfterExact
    <2>0. SlidingInv
      BY <1>1 DEF WindowInv
    <2>1. /\ present[k] /\ answer[k].resetAt = windowStart[k] + Window
          /\ currCount[k] + answer[k].n > Rate
      BY <1>1 DEF WindowInv, Announced
    <2>2. Weighted(k) = Curr(k)
      BY <2>0, EntryNow
    <2>3. Moves(k) <=> now >= answer[k].resetAt
      BY <2>0, <2>1, MovesLater
    <2>4. answer[k].n \in Nat /\ currCount[k] \in Nat /\ Rate \in Nat
      BY <2>0, WindowTypes, WindowAssumption
    <2> QED BY <2>1, <2>2, <2>3, <2>4 DEF Curr
  <1> QED BY <1>1, WindowInvariant, PTL

-----------------------------------------------------------------------------
(***************************************************************************)
(* The other way round: the fixed window implements the sliding window, so *)
(* its limit is proved with the other.                                     *)
(*                                                                         *)
(* IsFixedWindow does not mention prevCount.  NoPrevious gives it the      *)
(* value that it always has in the sliding window; it excludes no fixed    *)
(* window.                                                                 *)
(***************************************************************************)
NoPrevious == prevCount = [k \in Keys |-> 0]

LEMMA StepImplementsSliding ==
  SlidingInv /\ NoPrevious /\ NoPrevious' /\ [FW!Next]_FW!vars => [Next]_vars
  <1> SUFFICES ASSUME SlidingInv, NoPrevious, NoPrevious', [FW!Next]_FW!vars
               PROVE  [Next]_vars
    OBVIOUS
  <1>0. prevCount' = prevCount
    BY DEF NoPrevious
  <1>1. ASSUME NEW k \in Keys, NEW n \in Costs, FW!AllowN(k, n) PROVE AllowN(k, n)
    <2>1. /\ Weighted(k) = Curr(k) /\ Curr(k) \in Nat /\ n \in Nat /\ Rate \in Nat
          /\ Prev(k) = 0
          /\ now \in Nat /\ Truncate(now) \in Nat /\ windowStart[k] \in Nat
      BY EntryNow, TruncateType, WindowAssumption DEF SlidingInv, TypeOK, LogTypeOK
    <2>2. FW!Truncate(now) = Truncate(now)
      BY DEF FW!Truncate, Truncate, FW!Window, Window
    <2>3. FW!Current(k) <=> present[k] /\ ~Moves(k)
      BY <2>1, <2>2 DEF FW!Current, Moves, Start
    <2>4. FW!CountNow(k) = Curr(k)
      BY <2>1, <2>3 DEF FW!CountNow, Curr, Moves, Start, SlidingInv, NothingCarried
    <2>5. (IF Moves(k) THEN Truncate(now) ELSE Start(k))
            = IF FW!Current(k) THEN windowStart[k] ELSE FW!Truncate(now)
      BY <2>1, <2>2, <2>3 DEF Moves, Start
    <2>6. windowStart' = [windowStart EXCEPT ![k] =
                            IF Moves(k) THEN Truncate(now) ELSE Start(k)]
      BY <1>1, <2>5 DEF FW!AllowN, SlidingInv, TypeOK
    <2>7. prevCount' = [prevCount EXCEPT ![k] = Prev(k)]
      BY <1>0, <2>1 DEF NoPrevious
    <2>8. \A m : FW!Answered(k, n, Curr(k) + n <= Rate, m)
                   => Answered(k, n, Curr(k) + n <= Rate, m)
      BY <2>2 DEF Answered, FW!Answered, Window, FW!Window, clockVars, FW!clockVars
    <2>9. Rate - (IF Curr(k) + n <= Rate THEN Curr(k) + n ELSE Curr(k))
            = (IF Curr(k) + n <= Rate THEN Rate - Curr(k) - n ELSE Rate - Curr(k))
      BY <2>1
    <2>10. Answered(k, n, Curr(k) + n <= Rate,
             IF Curr(k) + n <= Rate THEN Rate - Curr(k) - n ELSE Rate - Curr(k))
      BY <1>1, <2>4, <2>8, <2>9 DEF FW!AllowN
    <2> QED BY <1>1, <2>1, <2>4, <2>6, <2>7, <2>10 DEF AllowN, FW!AllowN
  <1>2. ASSUME NEW k \in Keys, FW!Reset(k) PROVE Reset(k)
    <2>1. prevCount' = [prevCount EXCEPT ![k] = 0]
      BY <1>0 DEF NoPrevious
    <2> QED BY <1>2, <2>1 DEF Reset, FW!Reset, Forgotten, FW!Forgotten, Restart,
            FW!Restart, NoAnswer, FW!NoAnswer
  <1>3. ASSUME NEW k \in Keys, FW!Observe(k), UNCHANGED FW!entryVars
        PROVE  Observe(k) /\ UNCHANGED entryVars
    BY <1>0, <1>3 DEF Observe, FW!Observe, Restart, FW!Restart, entryVars, FW!entryVars
  <1>4. ASSUME FW!Clock, UNCHANGED FW!entryVars PROVE Clock /\ UNCHANGED entryVars
    BY <1>0, <1>4 DEF Clock, FW!Clock, Tick, FW!Tick, StepBack, FW!StepBack, countVars,
        FW!countVars, entryVars, FW!entryVars
  <1>5. CASE UNCHANGED FW!vars
    BY <1>0, <1>5 DEF vars, FW!vars
  <1> QED BY <1>1, <1>2, <1>3, <1>4, <1>5 DEF Next, FW!Next

(***************************************************************************)
(* The fixed window limiter implements the sliding window limiter: with    *)
(* SlidingIsFixed, no sequence of answers tells the two limiters apart     *)
(* (lines 354-380 against 265-299).                                        *)
(***************************************************************************)
THEOREM FixedIsSliding == IsFixedWindow /\ []NoPrevious => Spec
  <1>1. FW!Init /\ NoPrevious => Init
    BY DEF Init, FW!Init, LogInit, FW!LogInit, NoAnswer, FW!NoAnswer, NoPrevious
  <1> QED BY <1>1, InitSlidingInv, NextSlidingInv, StepImplementsSliding, PTL
          DEF Spec, IsFixedWindow, FW!Spec

(***************************************************************************)
(* The limit of the fixed window over every interval: at most Rate         *)
(* requests per window that the clock touched, however often it stepped    *)
(* back (AllowN, lines 354-380).                                           *)
(***************************************************************************)
THEOREM FixedWindowBound == IsFixedWindow /\ []NoPrevious => []WindowBound
  BY FixedIsSliding, SlidingWindowBound, PTL
=============================================================================
