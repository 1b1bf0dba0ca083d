--------------------------- MODULE LimiterProofs ---------------------------
(***************************************************************************)
(* Facts about the operators of Limiter that the proofs about each         *)
(* algorithm share.                                                        *)
(***************************************************************************)
EXTENDS Limiter, FiniteSetTheorems, NaturalsInduction, TLAPS

\* A policy's window is a positive number of milliseconds.
LEMMA WindowMsType == WindowMs \in Nat \ {0}
  BY LimiterAssumption DEF WindowMs

\* A window contains the times that map to it.
LEMMA WindowStartBounds ==
  ASSUME NEW t \in Time
  PROVE  /\ WindowStart(t) \in Time
         /\ WindowStart(t) % WindowMs = 0
         /\ WindowStart(t) <= t
         /\ t < WindowStart(t) + WindowMs
<1>1. t % WindowMs \in 0..(WindowMs - 1)
  BY WindowMsType, LimiterAssumption DEF Time
<1>2. WindowStart(t) % WindowMs = 0
  BY WindowMsType, LimiterAssumption DEF Time, WindowStart
<1> QED
  BY <1>1, <1>2, WindowMsType, LimiterAssumption DEF Time, WindowStart

\* Two windows that overlap a stretch of WindowMs are the same or adjacent.
LEMMA Multiples ==
  ASSUME NEW m \in Nat \ {0}, NEW a \in Nat, NEW b \in Nat,
         a % m = 0, b % m = 0, a < b
  PROVE  a + m <= b /\ (b < a + m + m => b = a + m)
<1>1. PICK x \in Int : a = m * x
  OBVIOUS
<1>2. PICK y \in Int : b = m * y
  OBVIOUS
<1>3. x < y
  BY <1>1, <1>2
<1>4. x + 1 <= y /\ m * (x + 1) = a + m /\ m * (x + 2) = a + m + m
  BY <1>1, <1>3
<1>5. a + m <= b
  BY <1>2, <1>4
<1>6. ASSUME b < a + m + m PROVE b = a + m
  <2>1. y < x + 2
    BY <1>2, <1>4, <1>6
  <2> QED
    BY <1>2, <1>3, <1>4, <2>1
<1> QED
  BY <1>5, <1>6

\* A window lasts WindowMs, and the next one begins after every time in it.
LEMMA WindowOf ==
  ASSUME NEW s \in Time, NEW t \in Time, s <= t
  PROVE  IF t < WindowStart(s) + WindowMs
         THEN WindowStart(t) = WindowStart(s)
         ELSE WindowStart(t) > s
<1> DEFINE a == WindowStart(s)
           b == WindowStart(t)
<1>1. /\ a \in Nat /\ a % WindowMs = 0 /\ a <= s /\ s < a + WindowMs
      /\ b \in Nat /\ b % WindowMs = 0 /\ b <= t /\ t < b + WindowMs
      /\ s \in Nat /\ t \in Nat
  BY WindowStartBounds DEF Time
<1> HIDE DEF a, b
<1>2. a < b => a + WindowMs <= b
  BY <1>1, Multiples, WindowMsType
<1>3. b < a => b + WindowMs <= a
  BY <1>1, Multiples, WindowMsType
<1>4. CASE t < a + WindowMs
  BY <1>1, <1>2, <1>3, <1>4, WindowMsType DEF a, b
<1>5. CASE ~(t < a + WindowMs)
  BY <1>1, <1>2, <1>3, <1>5, WindowMsType DEF a, b
<1> QED
  BY <1>4, <1>5 DEF a

\* Rounding up to seconds gives a natural number.
LEMMA CeilType ==
  ASSUME NEW a \in Nat, NEW b \in Nat \ {0}
  PROVE  Ceil(a, b) \in Nat
  BY DEF Ceil

\* It rounds up, and by less than one.
LEMMA CeilBounds ==
  ASSUME NEW a \in Nat, NEW b \in Nat \ {0}
  PROVE  /\ Ceil(a, b) \in Nat
         /\ Ceil(a, b) * b >= a
         /\ Ceil(a, b) * b - b < a
<1>1. a + b - 1 \in Nat /\ Ceil(a, b) \in Nat /\ Ceil(a, b) = (a + b - 1) \div b
  BY CeilType DEF Ceil
<1>2. ASSUME NEW n \in Nat PROVE (n \div b) * b \in Nat /\ (n \div b) * b <= n
  OBVIOUS
<1>3. ASSUME NEW n \in Nat PROVE n < (n \div b) * b + b
  OBVIOUS
<1> QED
  BY <1>1, <1>2, <1>3

\* In milliseconds: whole seconds k that round a up are a or later, and by
\* less than a second.
LEMMA WholeSeconds ==
  ASSUME NEW a \in Nat, NEW k, k = Ceil(a, Second)
  PROVE  k * Second \in Nat /\ k * Second >= a /\ k * Second - Second < a
<1>1. PICK b \in Nat \ {0} : b = Second
  BY LimiterAssumption
<1>2. k \in Nat /\ k * b >= a /\ k * b - b < a
  BY <1>1, CeilBounds, Zenon
<1>3. k * b \in Nat
  BY <1>2
<1> QED
  BY <1>1, <1>2, <1>3, Zenon

\* What flows in between two moments adds up.
LEMMA Flow ==
  ASSUME NEW a \in Int, NEW b \in Int, NEW c \in Int
  PROVE  /\ Rate * (b - a) \in Int
         /\ Rate * (c - a) = Rate * (b - a) + Rate * (c - b)
         /\ a <= b => Rate * (b - a) \in Nat
  BY LimiterAssumption

\* It takes Ceil(x, Rate) milliseconds until x units have flowed in.
LEMMA FlowFills ==
  ASSUME NEW x \in Nat, NEW d \in Nat
  PROVE  /\ Rate * d \in Nat
         /\ d >= Ceil(x, Rate) <=> Rate * d >= x
<1> USE LimiterAssumption
<1>1. PICK k \in Nat : k = Ceil(x, Rate)
  BY CeilType
<1>2. k * Rate \in Nat /\ k * Rate >= x /\ k * Rate - Rate < x
  BY <1>1, CeilBounds
<1>3. Rate * d \in Nat
  OBVIOUS
<1>4. d >= k => Rate * d >= k * Rate
  OBVIOUS
<1>5. d <= k - 1 => Rate * d <= k * Rate - Rate
  OBVIOUS
<1> QED
  BY <1>1, <1>2, <1>3, <1>4, <1>5

\* A decision built from numbers is one, and keeps its verdict and its time.
LEMMA DecisionFields ==
  ASSUME NEW allowed \in BOOLEAN, NEW remaining \in Nat,
         NEW reset_at_ms \in Nat, NEW retry_ms \in Nat, now \in Time
  PROVE  /\ Decision(allowed, remaining, reset_at_ms, retry_ms) \in DecisionType
         /\ Decision(allowed, remaining, reset_at_ms, retry_ms).allowed = allowed
         /\ Decision(allowed, remaining, reset_at_ms, retry_ms).at = now
<1>1. Ceil(reset_at_ms, Second) \in Nat /\ Ceil(retry_ms, Second) \in Nat
  BY CeilType, LimiterAssumption
<1>2. (IF allowed THEN 0 ELSE Ceil(retry_ms, Second)) \in Nat
  BY <1>1
<1> QED
  BY <1>1, <1>2, Zenon DEF Decision, DecisionType

\* The clock's history stays right as time passes or is set back.
LEMMA ClockMoves ==
  ASSUME now \in Time, peak \in Time, steady \in BOOLEAN, ClockInv, Tick \/ StepBack
  PROVE  now' \in Time /\ peak' \in Time /\ steady' \in BOOLEAN /\ ClockInv' /\ peak' >= peak
<1> USE LimiterAssumption
<1>1. CASE Tick
  <2>1. now' \in Time /\ peak' \in Time /\ peak' >= peak /\ now' <= peak' /\ peak' <= now' + MaxSkew
    BY <1>1 DEF Tick, Time, ClockInv
  <2>2. steady' = steady
    BY <1>1 DEF Tick
  <2>3. now = peak => now' = peak'
    BY <1>1 DEF Tick, Time
  <2> QED
    BY <2>1, <2>2, <2>3, Zenon DEF ClockInv
<1>2. CASE StepBack
  <2>1. now' \in Time /\ peak' = peak /\ now' <= peak' /\ peak' <= now' + MaxSkew
    BY <1>2 DEF StepBack, Time, ClockInv
  <2>2. steady' = FALSE
    BY <1>2 DEF StepBack
  <2>3. peak' \in Time /\ peak' >= peak
    BY <2>1 DEF Time
  <2>4. ClockInv'
    BY <2>1, <2>2, Zenon DEF ClockInv
  <2> QED
    BY <2>1, <2>2, <2>3, <2>4, Zenon
<1> QED
  BY <1>1, <1>2

\* One more element makes a set larger by one at most.
LEMMA OneMore ==
  ASSUME NEW S, IsFiniteSet(S), NEW x
  PROVE  /\ IsFiniteSet(S \cup {x})
         /\ Cardinality(S \cup {x}) \in Nat
         /\ Cardinality(S \cup {x}) <= Cardinality(S) + 1
<1>1. /\ IsFiniteSet(S \cup {x})
      /\ Cardinality(S \cup {x}) = IF x \in S THEN Cardinality(S) ELSE Cardinality(S) + 1
  BY FS_AddElement
<1>2. Cardinality(S) \in Nat
  BY FS_CardinalityType
<1> QED
  BY <1>1, <1>2

\* One more admission in a window adds one to its count, elsewhere nothing.
LEMMA AddToWindow ==
  ASSUME NEW h, IsFiniteSet(h), NEW e, e \notin h, NEW w
  PROVE  /\ IsFiniteSet(InWindow(h, w))
         /\ Cardinality(InWindow(h, w)) \in Nat
         /\ IsFiniteSet(h \cup {e})
         /\ Cardinality(InWindow(h \cup {e}, w)) =
              IF WindowStart(e.at) = w
              THEN Cardinality(InWindow(h, w)) + 1
              ELSE Cardinality(InWindow(h, w))
<1>1. InWindow(h, w) \in SUBSET h
  BY DEF InWindow
<1>2. IsFiniteSet(InWindow(h, w)) /\ Cardinality(InWindow(h, w)) \in Nat
  BY <1>1, FS_Subset, FS_CardinalityType
<1>3. InWindow(h \cup {e}, w) =
        IF WindowStart(e.at) = w THEN InWindow(h, w) \cup {e} ELSE InWindow(h, w)
  BY DEF InWindow
<1>4. e \notin InWindow(h, w)
  BY DEF InWindow
<1>5. Cardinality(InWindow(h, w) \cup {e}) = Cardinality(InWindow(h, w)) + 1
  BY <1>2, <1>4, FS_AddElement
<1> QED
  BY <1>2, <1>3, <1>5, FS_AddElement

\* The oldest of some times exists.
LEMMA OldestExists ==
  ASSUME NEW S \in SUBSET Nat, S # {}
  PROVE  \E x \in S : \A y \in S : x <= y
<1>1. IsWellFoundedOn(OpToRel(<, Nat), Nat)
  BY NatLessThanWellFounded
<1>2. PICK x \in S : \A y \in S : ~(<<y, x>> \in OpToRel(<, Nat))
  BY <1>1, WFMin
<1>3. ASSUME NEW y \in S PROVE x <= y
  <2>1. y < x => <<y, x>> \in {ss \in Nat \X Nat : ss[1] < ss[2]}
    OBVIOUS
  <2>2. y < x => <<y, x>> \in OpToRel(<, Nat)
    BY <2>1, Zenon DEF OpToRel
  <2>3. ~(y < x)
    BY <1>2, <2>2, Zenon
  <2> QED
    BY <2>3
<1> QED
  BY <1>3
=============================================================================
