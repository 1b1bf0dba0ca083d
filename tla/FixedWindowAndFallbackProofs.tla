-------------------- MODULE FixedWindowAndFallbackProofs --------------------
(***************************************************************************)
(* Proofs about FixedWindow and, in the second part, about the limiter of  *)
(* LocalFallbackLimiter, which counts fixed windows in memory, next to its *)
(* two other algorithms.                                                   *)
(*                                                                         *)
(* FixedWindow: for every rate, window, horizon and clock skew up to a     *)
(* second.  The inductive invariant is CounterAgrees with the types and    *)
(* the meaning of MaxSkew: WindowQuota alone is not inductive, because     *)
(* nothing in it says that a counter that is gone stays unused.            *)
(*                                                                         *)
(* LocalFallbackLimiter: for every rate, window, capacity, horizon and     *)
(* time to live, as long as the clock is not set back.  For each algorithm *)
(* the invariant says what the entry in memory tells of the admissions,    *)
(* and that an entry that is gone had nothing left to tell.                *)
(***************************************************************************)
EXTENDS FixedWindow, LocalFallbackLimiter, LimiterProofs

\* A window's start is one of the keys.
LEMMA StartOfNow ==
  ASSUME now \in Time
  PROVE  /\ WindowStart(now) \in Starts
         /\ WindowStart(now) <= now
         /\ now < WindowStart(now) + WindowMs
  BY WindowStartBounds DEF Starts

\* The answer to a count is a decision that lets through the first Rate.
LEMMA VerdictType ==
  ASSUME NEW w \in Nat, NEW count \in Nat, now \in Time, now < w + WindowMs
  PROVE  /\ Verdict(w, count) \in DecisionType
         /\ Verdict(w, count).allowed = (count <= Rate)
         /\ Verdict(w, count).at = now
<1> DEFINE allowed == Allowed(count)
           remaining == IF allowed THEN Rate - count ELSE 0
           reset == w + WindowMs
           retry == w + WindowMs - now
<1>1. reset \in Nat /\ retry \in Nat /\ remaining \in Nat
  BY WindowMsType, LimiterAssumption DEF Time, Allowed
<1>2. Verdict(w, count) = Decision(allowed, remaining, reset, retry)
  BY Zenon DEF Verdict
<1>3. allowed \in BOOLEAN
  BY DEF Allowed
<1> HIDE DEF allowed, remaining, reset, retry
<1>4. /\ Decision(allowed, remaining, reset, retry) \in DecisionType
      /\ Decision(allowed, remaining, reset, retry).allowed = allowed
      /\ Decision(allowed, remaining, reset, retry).at = now
  BY <1>1, <1>3, DecisionFields
<1> QED
  BY <1>2, <1>4, Zenon DEF allowed, Allowed

-----------------------------------------------------------------------------
(***************************************************************************)
(* A counter that is held accounts for every admission of its window: it   *)
(* agrees with them up to Rate and only then runs ahead, on refusals.  It  *)
(* outlives its window by the grace of PEXPIRE, and once it is gone with   *)
(* admissions to its name the clock can no longer be set back to where     *)
(* those were made.                                                        *)
(***************************************************************************)
CounterAgrees ==
  \A w \in Starts :
    LET n == Cardinality(InWindow(admitted, w))
    IN  IF counter[w] # 0
        THEN /\ n = (IF counter[w] <= Rate THEN counter[w] ELSE Rate)
             /\ expireAt[w] >= w + WindowMs + Second
        ELSE n # 0 => n <= Rate /\ peak > w + WindowMs + Second

Inv ==
  /\ TypeOK
  /\ IsFiniteSet(admitted)
  /\ ClockInv
  /\ CounterAgrees

\* The invariant holds before any request.
LEMMA InitInv == Init => Inv
<1> SUFFICES ASSUME Init PROVE Inv
  OBVIOUS
<1> USE LimiterAssumption, FixedWindowAssumption DEF Init, LimiterInit
<1>1. TypeOK
  BY DEF TypeOK, LimiterTypeOK, Time, DecisionType, Starts
<1>2. IsFiniteSet(admitted)
  BY FS_EmptySet
<1>3. ClockInv
  BY DEF ClockInv
<1>4. CounterAgrees
  <2>1. \A w \in Starts : Cardinality(InWindow(admitted, w)) = 0
    BY FS_EmptySet DEF InWindow
  <2> QED
    BY <2>1 DEF CounterAgrees
<1> QED
  BY <1>1, <1>2, <1>3, <1>4 DEF Inv

\* Passing and set-back time: a key once gone stays out of reach.
LEMMA ClockStep == Inv /\ AdvanceClock => Inv'
<1> SUFFICES ASSUME Inv, AdvanceClock PROVE Inv'
  OBVIOUS
<1> USE LimiterAssumption DEF Inv, AdvanceClock
<1>1. TypeOK' /\ ClockInv' /\ peak' \in Nat /\ peak' >= peak
  BY ClockMoves DEF TypeOK, LimiterTypeOK, Time
<1>2. CounterAgrees'
  BY <1>1, WindowMsType DEF CounterAgrees, TypeOK, LimiterTypeOK, Time, Starts
<1> QED
  BY <1>1, <1>2

\* Reclaiming a key: its window is out of reach of the clock.
LEMMA ExpireStep == ASSUME NEW x \in Starts, Inv, Expire(x) PROVE Inv'
<1> USE LimiterAssumption, WindowMsType DEF Inv, Expire, clock
<1>1. TypeOK' /\ ClockInv' /\ IsFiniteSet(admitted)'
  BY FixedWindowAssumption DEF TypeOK, LimiterTypeOK, ClockInv
<1>2. CounterAgrees'
  <2> SUFFICES ASSUME NEW w \in Starts
               PROVE  LET n == Cardinality(InWindow(admitted, w))
                      IN  IF counter'[w] # 0
                          THEN /\ n = (IF counter'[w] <= Rate THEN counter'[w] ELSE Rate)
                               /\ expireAt[w] >= w + WindowMs + Second
                          ELSE n # 0 => n <= Rate /\ peak > w + WindowMs + Second
    BY DEF CounterAgrees
  <2>1. CASE w = x
    BY <2>1 DEF CounterAgrees, TypeOK, LimiterTypeOK, Time, Starts, ClockInv
  <2>2. CASE w # x
    BY <2>2 DEF CounterAgrees, TypeOK
  <2> QED
    BY <2>1, <2>2
<1> QED
  BY <1>1, <1>2

\* What an evaluation finds: a live counter that agrees, or an unused window.
LEMMA IncrAgrees ==
  ASSUME Inv
  PROVE  LET w == WindowStart(now)
             n == Cardinality(InWindow(admitted, w))
         IN  /\ Incr(w) \in Nat \ {0}
             /\ n = (IF Incr(w) - 1 <= Rate THEN Incr(w) - 1 ELSE Rate)
             /\ Incr(w) # 1 => expireAt[w] >= w + WindowMs + Second
<1> DEFINE w == WindowStart(now)
           n == Cardinality(InWindow(admitted, w))
<1> USE LimiterAssumption, FixedWindowAssumption, WindowMsType DEF Inv
<1>1. /\ w \in Starts
      /\ w <= now
      /\ now < w + WindowMs
  BY StartOfNow DEF TypeOK, LimiterTypeOK
<1>2. w \in Nat /\ now \in Nat /\ peak \in Nat /\ counter[w] \in Nat /\ expireAt[w] \in Nat
  BY <1>1 DEF TypeOK, LimiterTypeOK, Time, Starts
<1>3. peak <= w + WindowMs + Second
  BY <1>1, <1>2 DEF ClockInv
<1>4. CASE counter[w] # 0
  <2>1. now <= expireAt[w]
    BY <1>1, <1>2, <1>4 DEF CounterAgrees
  <2> QED
    BY <1>1, <1>2, <1>4, <2>1 DEF CounterAgrees, Incr
<1>5. CASE counter[w] = 0
  <2>1. n = 0
    BY <1>1, <1>2, <1>3, <1>5 DEF CounterAgrees
  <2>2. Incr(w) = 1
    BY <1>2, <1>5 DEF Incr
  <2> QED
    BY <2>1, <2>2
<1> QED
  BY <1>4, <1>5

\* An evaluation keeps the counter in agreement with what it admits.
LEMMA EvalStep == ASSUME NEW r \in Request, Inv, Eval(r) PROVE Inv'
<1> DEFINE w == WindowStart(now)
           count == Incr(w)
           n(v) == Cardinality(InWindow(admitted, v))
<1> USE LimiterAssumption, FixedWindowAssumption, WindowMsType DEF Inv
<1>1. now \in Time /\ w \in Starts /\ w <= now /\ now < w + WindowMs
  BY StartOfNow DEF TypeOK, LimiterTypeOK
<1>2. /\ count \in Nat \ {0}
      /\ n(w) = (IF count - 1 <= Rate THEN count - 1 ELSE Rate)
      /\ count # 1 => expireAt[w] >= w + WindowMs + Second
  BY IncrAgrees
<1>3. /\ reply' = Verdict(w, count)
      /\ reply' \in DecisionType
      /\ reply'.allowed = (count <= Rate)
      /\ reply'.at = now
      /\ admitted' = IF count <= Rate THEN admitted \cup {Event(r)} ELSE admitted
  <2>1. w \in Nat
    BY <1>1 DEF Starts, Time
  <2>2. /\ Verdict(w, count) \in DecisionType
        /\ Verdict(w, count).allowed = (count <= Rate)
        /\ Verdict(w, count).at = now
    BY <1>1, <1>2, <2>1, VerdictType
  <2> QED
    BY <2>2, Zenon DEF Eval, Answer
<1>4. /\ Event(r) \notin admitted
      /\ Event(r).at = now
      /\ Event(r) \in EventType
  BY <1>1 DEF Eval, Fresh, Event, EventType
<1>5. TypeOK'
  <2>1. counter' \in [Starts -> 0..MaxCount]
    BY <1>1, <1>2 DEF Eval, TypeOK
  <2>2. expireAt' \in [Starts -> Nat]
    BY <1>1 DEF Eval, TypeOK, TtlMs, Time
  <2> QED
    BY <1>3, <1>4, <2>1, <2>2 DEF Eval, TypeOK, LimiterTypeOK, clock
<1>6. IsFiniteSet(admitted')
  BY <1>3, FS_AddElement
<1>7. ClockInv'
  BY DEF Eval, ClockInv, clock
<1>8. CounterAgrees'
  <2> SUFFICES ASSUME NEW v \in Starts
               PROVE  LET m == Cardinality(InWindow(admitted', v))
                      IN  IF counter'[v] # 0
                          THEN /\ m = (IF counter'[v] <= Rate THEN counter'[v] ELSE Rate)
                               /\ expireAt'[v] >= v + WindowMs + Second
                          ELSE m # 0 => m <= Rate /\ peak' > v + WindowMs + Second
    BY DEF CounterAgrees
  <2>1. n(v) \in Nat
        /\ Cardinality(InWindow(admitted', v)) =
             IF v = w /\ count <= Rate THEN n(v) + 1 ELSE n(v)
    <3>1. PICK e : e = Event(r)
      OBVIOUS
    <3>2. e \notin admitted /\ WindowStart(e.at) = w /\ IsFiniteSet(admitted)
      BY <1>4, <3>1
    <3>3. /\ Cardinality(InWindow(admitted, v)) \in Nat
          /\ Cardinality(InWindow(admitted \cup {e}, v)) =
               IF WindowStart(e.at) = v THEN Cardinality(InWindow(admitted, v)) + 1
               ELSE Cardinality(InWindow(admitted, v))
      BY <3>2, AddToWindow, Zenon
    <3>4. admitted' = IF count <= Rate THEN admitted \cup {e} ELSE admitted
      BY <1>3, <3>1
    <3> QED
      BY <3>2, <3>3, <3>4
  <2>2. CASE v = w
    <3>1. counter'[v] = count
      BY <1>1, <2>2 DEF Eval, TypeOK
    <3>2. expireAt'[v] >= v + WindowMs + Second
      BY <1>1, <1>2, <2>2 DEF Eval, TypeOK, TtlMs, Time, Starts
    <3> QED
      BY <1>2, <2>1, <2>2, <3>1, <3>2
  <2>3. CASE v # w
    <3>1. counter'[v] = counter[v] /\ expireAt'[v] = expireAt[v] /\ peak' = peak
      BY <1>1, <2>3 DEF Eval, TypeOK, clock
    <3> QED
      BY <2>1, <2>3, <3>1 DEF CounterAgrees
  <2> QED
    BY <2>2, <2>3
<1> QED
  BY <1>5, <1>6, <1>7, <1>8

\* Every step keeps the invariant.
LEMMA NextInv == Inv /\ [Next]_vars => Inv'
<1> SUFFICES ASSUME Inv, [Next]_vars PROVE Inv'
  OBVIOUS
<1>1. CASE AdvanceClock
  BY <1>1, ClockStep
<1>2. CASE \E r \in Request : Eval(r)
  BY <1>2, EvalStep
<1>3. CASE \E w \in Starts : Expire(w)
  BY <1>3, ExpireStep
<1>4. CASE UNCHANGED vars
  BY <1>4 DEF vars, clock, Inv, TypeOK, LimiterTypeOK, ClockInv, CounterAgrees
<1> QED
  BY <1>1, <1>2, <1>3, <1>4 DEF Next

\* Inv holds in every reachable state.
LEMMA Invariance == Spec => []Inv
  BY InitInv, NextInv, PTL DEF Spec

\* The counters, their expiry times and the answers keep their types.
THEOREM TypeCorrect == Spec => []TypeOK
<1>1. Inv => TypeOK
  BY DEF Inv
<1> QED
  BY <1>1, Invariance, PTL

\* The invariant bounds every window.
LEMMA InvQuota == Inv => WindowQuota
<1> SUFFICES ASSUME Inv, NEW w \in Starts
             PROVE  Cardinality(InWindow(admitted, w)) <= Rate
  BY DEF WindowQuota
<1>1. Cardinality(InWindow(admitted, w)) \in Nat
  BY FS_Subset, FS_CardinalityType DEF Inv, InWindow
<1> QED
  BY <1>1, LimiterAssumption DEF Inv, CounterAgrees, TypeOK

(***************************************************************************)
(* No window ever admits more than Rate requests, whatever the clock does  *)
(* within a second of its latest reading and whenever Redis reclaims keys. *)
(***************************************************************************)
THEOREM WindowQuotaHolds == Spec => []WindowQuota
  BY InvQuota, Invariance, PTL

\* A stretch of WindowMs touches two windows at most.
LEMMA TwoWindows ==
  ASSUME NEW s \in Time, NEW t \in Time, t >= s, t < s + WindowMs
  PROVE  WindowStart(t) \in {WindowStart(s), WindowStart(s) + WindowMs}
<1> DEFINE a == WindowStart(s)
           b == WindowStart(t)
<1>1. /\ a \in Nat /\ a % WindowMs = 0 /\ a <= s /\ s < a + WindowMs
      /\ b \in Nat /\ b % WindowMs = 0 /\ b <= t /\ t < b + WindowMs
  BY WindowStartBounds DEF Time
<1> HIDE DEF a, b
<1>2. ~(b < a)
  <2>1. b < a => b + WindowMs <= a
    BY <1>1, Multiples, WindowMsType
  <2> QED
    BY <1>1, <2>1, WindowMsType DEF Time
<1>3. a < b => b = a + WindowMs
  <2>1. a < b /\ b < a + WindowMs + WindowMs => b = a + WindowMs
    BY <1>1, Multiples, WindowMsType
  <2> QED
    BY <1>1, <2>1, WindowMsType DEF Time
<1> QED
  BY <1>1, <1>2, <1>3 DEF a, b

(***************************************************************************)
(* Any stretch of WindowMs holds at most twice Rate admissions.            *)
(***************************************************************************)
THEOREM BoundaryBurstHolds == Spec => []BoundaryBurst
<1>1. ASSUME Inv PROVE BoundaryBurst
  <2> SUFFICES ASSUME NEW s \in Time
               PROVE  Cardinality({e \in admitted : e.at >= s /\ e.at < s + WindowMs}) <= 2 * Rate
    BY DEF BoundaryBurst
  <2> DEFINE S == {e \in admitted : e.at >= s /\ e.at < s + WindowMs}
             A == InWindow(admitted, WindowStart(s))
             B == InWindow(admitted, WindowStart(s) + WindowMs)
  <2>1. S \in SUBSET (A \cup B)
    BY <1>1, TwoWindows DEF InWindow, Inv, TypeOK, LimiterTypeOK, EventType
  <2>2. IsFiniteSet(A) /\ IsFiniteSet(B) /\ Cardinality(A) \in Nat /\ Cardinality(B) \in Nat
    BY <1>1, FS_Subset, FS_CardinalityType DEF Inv, InWindow
  <2>3. Cardinality(A) <= Rate
    BY <1>1, InvQuota, WindowStartBounds DEF WindowQuota, Starts
  <2>4. Cardinality(B) <= Rate
    <3>1. CASE WindowStart(s) + WindowMs \in Starts
      BY <1>1, <3>1, InvQuota DEF WindowQuota
    <3>2. CASE WindowStart(s) + WindowMs \notin Starts
      <4>1. B = {}
        BY <1>1, <3>2, WindowStartBounds
        DEF InWindow, Inv, TypeOK, LimiterTypeOK, EventType, Starts
      <4> QED
        BY <4>1, FS_EmptySet, LimiterAssumption
    <3> QED
      BY <3>1, <3>2
  <2>5. /\ IsFiniteSet(A \cup B)
        /\ Cardinality(A \cup B) <= Cardinality(A) + Cardinality(B)
    <3>1. /\ IsFiniteSet(A \cup B)
          /\ Cardinality(A \cup B) = Cardinality(A) + Cardinality(B) - Cardinality(A \cap B)
      BY <2>2, FS_Union
    <3>2. Cardinality(A \cap B) \in Nat
      BY <2>2, FS_Intersection, FS_CardinalityType
    <3> QED
      BY <2>2, <3>1, <3>2
  <2>6. /\ Cardinality(S) <= Cardinality(A \cup B)
        /\ Cardinality(S) \in Nat
        /\ Cardinality(A \cup B) \in Nat
    BY <2>1, <2>5, FS_Subset, FS_CardinalityType
  <2> HIDE DEF S, A, B
  <2>7. Cardinality(S) <= 2 * Rate
    BY <2>2, <2>3, <2>4, <2>5, <2>6, LimiterAssumption
  <2> QED
    BY <2>7 DEF S
<1> QED
  BY <1>1, Invariance, PTL

(***************************************************************************)
(* Until the clock is first set back the counter decides exactly as a      *)
(* limiter that remembers every admission would.                           *)
(***************************************************************************)
THEOREM Refinement == Spec => ImplementsQuota
<1>1. Init => Promise!Init
  BY DEF Init, LimiterInit, Promise!Init
<1>2. Inv /\ [Next]_vars => [steady' => Promise!Next]_Promise!vars
  <2> SUFFICES ASSUME Inv, [Next]_vars, steady' PROVE [Promise!Next]_Promise!vars
    BY DEF Promise!vars
  <2>1. CASE AdvanceClock
    <3>1. Tick
      BY <2>1 DEF AdvanceClock, StepBack
    <3> QED
      BY <2>1, <3>1 DEF AdvanceClock, Tick, Promise!Next, Promise!Tick
  <2>2. ASSUME NEW r \in Request, Eval(r) PROVE Promise!Next
    <3> DEFINE w == WindowStart(now)
               count == Incr(w)
    <3>1. /\ count \in Nat \ {0}
          /\ Cardinality(InWindow(admitted, w)) = (IF count - 1 <= Rate THEN count - 1 ELSE Rate)
      BY IncrAgrees
    <3>2. (count <= Rate) <=> FixedWindowRoom(admitted, now)
      BY <3>1, LimiterAssumption DEF FixedWindowRoom
    <3>3. now \in Time /\ w \in Nat /\ now < w + WindowMs
      BY StartOfNow DEF Inv, TypeOK, LimiterTypeOK, Starts, Time
    <3>4. Verdict(w, count).allowed = (count <= Rate) /\ Verdict(w, count).at = now
      BY <3>1, <3>3, VerdictType
    <3>5. /\ reply'.allowed = (count <= Rate)
          /\ reply'.at = now
          /\ now' = now /\ steady' = steady
          /\ admitted' = IF count <= Rate THEN admitted \cup {Event(r)} ELSE admitted
      BY <2>2, <3>4, Zenon DEF Eval, Answer, clock
    <3>6. CASE count <= Rate
      <4>1. Promise!Admit(r)
        BY <3>2, <3>5, <3>6, Zenon DEF Promise!Admit, Event
      <4> QED
        BY <4>1 DEF Promise!Next
    <3>7. CASE ~(count <= Rate)
      <4>0. (count <= Rate) = FALSE
        BY <3>7
      <4>1. Promise!Refuse
        BY <3>2, <3>5, <3>7, <4>0, Zenon DEF Promise!Refuse
      <4> QED
        BY <4>1 DEF Promise!Next
    <3> QED
      BY <3>6, <3>7
  <2>3. CASE \E w \in Starts : Expire(w)
    BY <2>3 DEF Expire, clock, Promise!vars
  <2>4. CASE UNCHANGED vars
    BY <2>4 DEF vars, clock, Promise!vars
  <2> QED
    BY <2>1, <2>2, <2>3, <2>4 DEF Next
<1> QED
  BY <1>1, <1>2, Invariance, PTL DEF Spec, ImplementsQuota, Promise!Spec
-----------------------------------------------------------------------------
(***************************************************************************)
(* What the last answer says of the window it was given in, as long as the *)
(* clock is never set back: no later window has been counted in, a request *)
(* that was let through knows the places left, and one that was refused    *)
(* found none and was told when the window ends.                           *)
(***************************************************************************)
ReplyInv ==
  steady =>
    /\ reply.at <= now
    /\ \A v \in Starts : v > reply.at => counter[v] = 0
    /\ reply.allowed =>
         reply.remaining = Rate - Cardinality(InWindow(admitted, WindowStart(reply.at)))
    /\ ~reply.allowed =>
         /\ Cardinality(InWindow(admitted, WindowStart(reply.at))) = Rate
         /\ reply.retry_after = Ceil(WindowStart(reply.at) + WindowMs - reply.at, Second)

\* Nothing has been asked yet.
LEMMA InitReply == Init => ReplyInv
<1> SUFFICES ASSUME Init PROVE ReplyInv
  OBVIOUS
<1>1. Cardinality(InWindow(admitted, WindowStart(reply.at))) = 0
  BY FS_EmptySet DEF Init, LimiterInit, InWindow
<1> QED
  BY <1>1, LimiterAssumption DEF Init, LimiterInit, ReplyInv

\* An evaluation gives the answer that its count calls for.
LEMMA EvalReply == ASSUME NEW r \in Request, Inv, ReplyInv, Eval(r) PROVE ReplyInv'
<1> DEFINE w == WindowStart(now)
           count == Incr(w)
           n == Cardinality(InWindow(admitted, w))
<1> USE LimiterAssumption, WindowMsType
<1> SUFFICES ASSUME steady' PROVE ReplyInv'
  BY DEF ReplyInv
<1>1. now \in Time /\ w \in Starts /\ w <= now /\ now < w + WindowMs /\ IsFiniteSet(admitted)
  BY StartOfNow DEF Inv, TypeOK, LimiterTypeOK
<1>2. count \in Nat \ {0} /\ n = (IF count - 1 <= Rate THEN count - 1 ELSE Rate)
  BY IncrAgrees
<1>3. now' = now /\ steady
  BY DEF Eval, clock
<1>4. /\ reply' = Verdict(w, count)
      /\ admitted' = IF reply'.allowed THEN admitted \cup {Event(r)} ELSE admitted
  BY DEF Eval, Answer
<1>5. /\ reply'.at = now
      /\ reply'.remaining = IF count <= Rate THEN Rate - count ELSE 0
      /\ reply'.retry_after = IF count <= Rate THEN 0 ELSE Ceil(w + WindowMs - now, Second)
  BY <1>4, Zenon DEF Verdict, Decision, Allowed
<1>6. reply'.allowed = (count <= Rate)
  BY <1>4, Zenon DEF Verdict, Decision, Allowed
<1>7. Event(r) \notin admitted /\ Event(r).at = now
  BY DEF Eval, Fresh, Event
<1>8. Cardinality(InWindow(admitted', w)) = IF count <= Rate THEN n + 1 ELSE n
  BY <1>1, <1>4, <1>6, <1>7, AddToWindow
<1>9. ASSUME NEW v \in Starts, v > now PROVE counter'[v] = 0
  <2>1. v # w /\ v > reply.at
    BY <1>1, <1>3, <1>9 DEF ReplyInv, Starts, Time, Inv, TypeOK, LimiterTypeOK, DecisionType
  <2>2. counter'[v] = counter[v]
    BY <1>1, <2>1 DEF Eval, Inv, TypeOK
  <2> QED
    BY <1>3, <2>1, <2>2 DEF ReplyInv
<1> HIDE DEF w, count, n
<1>10. WindowStart(reply'.at) = w
  BY <1>5 DEF w
<1>11. reply'.at <= now'
  BY <1>1, <1>3, <1>5 DEF Time
<1>12. CASE count <= Rate
  <2>1. reply'.allowed
    BY <1>6, <1>12, Zenon
  <2>2. reply'.remaining = Rate - Cardinality(InWindow(admitted', w))
    BY <1>2, <1>5, <1>8, <1>12
  <2> QED
    BY <1>5, <1>9, <1>10, <1>11, <2>1, <2>2 DEF ReplyInv
<1>13. CASE ~(count <= Rate)
  <2>1. (count <= Rate) = FALSE
    BY <1>13
  <2>2. ~reply'.allowed
    BY <1>6, <2>1, Zenon
  <2>3. Cardinality(InWindow(admitted', w)) = Rate
    BY <1>2, <1>8, <1>13
  <2> QED
    BY <1>5, <1>9, <1>10, <1>11, <1>13, <2>2, <2>3 DEF ReplyInv
<1> QED
  BY <1>12, <1>13

\* No step makes the last answer wrong.
LEMMA ReplyHolds == Spec => []ReplyInv
<1>1. Inv /\ ReplyInv /\ [Next]_vars => ReplyInv'
  <2> SUFFICES ASSUME Inv, ReplyInv, [Next]_vars PROVE ReplyInv'
    OBVIOUS
  <2>1. CASE AdvanceClock
    <3> SUFFICES ASSUME steady' PROVE ReplyInv'
      BY DEF ReplyInv
    <3>1. steady /\ now' = now + 1
      BY <2>1 DEF AdvanceClock, StepBack, Tick
    <3>2. reply.at <= now'
      BY <3>1 DEF ReplyInv, Inv, TypeOK, LimiterTypeOK, DecisionType, Time
    <3> QED
      BY <2>1, <3>1, <3>2 DEF ReplyInv, AdvanceClock
  <2>2. CASE \E r \in Request : Eval(r)
    BY <2>2, EvalReply
  <2>3. ASSUME NEW w \in Starts, Expire(w) PROVE ReplyInv'
    BY <2>3 DEF ReplyInv, Expire, clock, Inv, TypeOK
  <2>4. CASE UNCHANGED vars
    BY <2>4 DEF ReplyInv, vars, clock
  <2> QED
    BY <2>1, <2>2, <2>3, <2>4 DEF Next
<1> QED
  BY <1>1, InitReply, Invariance, PTL DEF Spec

(***************************************************************************)
(* Until the clock is first set back, X-RateLimit-Remaining is the places  *)
(* left in the window, and Retry-After is when the window is over, rounded *)
(* up to a second and no more.                                             *)
(***************************************************************************)
THEOREM HeadersExactHolds == Spec => []HeadersExact
<1>1. ASSUME Inv, ReplyInv PROVE HeadersExact
  <2> DEFINE at == reply.at
             w == WindowStart(now)
             k == reply.retry_after
             wait == WindowStart(at) + WindowMs - at
             retryAt == at + k * Second
  <2> USE LimiterAssumption, WindowMsType
  <2> SUFFICES ASSUME steady, ~reply.allowed
               PROVE  /\ now >= retryAt => Allowed(Incr(w))
                      /\ now <= retryAt - Second => ~Allowed(Incr(w))
    BY <1>1 DEF HeadersExact, ReplyInv
  <2>1. /\ at \in Time /\ now \in Time /\ at <= now
        /\ \A v \in Starts : v > at => counter[v] = 0
        /\ Cardinality(InWindow(admitted, WindowStart(at))) = Rate
        /\ k = Ceil(wait, Second)
    BY <1>1 DEF ReplyInv, Inv, TypeOK, LimiterTypeOK, DecisionType
  <2>2. wait \in Nat
    <3>1. WindowStart(at) \in Time /\ at < WindowStart(at) + WindowMs
      BY <2>1, WindowStartBounds
    <3> QED
      BY <2>1, <3>1 DEF Time
  <2>3. k * Second \in Nat /\ k * Second >= wait /\ k * Second - Second < wait
    BY <2>1, <2>2, WholeSeconds, Zenon
  <2>4. IF now < at + wait THEN w = WindowStart(at) ELSE w > at
    <3>1. at + wait = WindowStart(at) + WindowMs
      BY <2>1, WindowStartBounds DEF Time
    <3> QED
      BY <2>1, <3>1, WindowOf
  <2>5. w \in Starts
    BY <2>1, StartOfNow
  <2>6. /\ Incr(w) \in Nat \ {0}
        /\ Cardinality(InWindow(admitted, w)) = (IF Incr(w) - 1 <= Rate THEN Incr(w) - 1 ELSE Rate)
    BY <1>1, IncrAgrees
  <2> HIDE DEF wait
  <2>7. ASSUME now >= retryAt PROVE Allowed(Incr(w))
    <3>1. ~(now < at + wait)
      BY <2>1, <2>2, <2>3, <2>7 DEF Time
    <3>2. counter[w] = 0
      BY <2>1, <2>4, <2>5, <3>1
    <3>3. Incr(w) = 1
      BY <3>2 DEF Incr
    <3> QED
      BY <3>3 DEF Allowed
  <2>8. ASSUME now <= retryAt - Second PROVE ~Allowed(Incr(w))
    <3>1. now < at + wait
      BY <2>1, <2>2, <2>3, <2>8 DEF Time
    <3>2. Cardinality(InWindow(admitted, w)) = Rate
      BY <2>1, <2>4, <3>1
    <3> QED
      BY <2>6, <3>2 DEF Allowed
  <2> QED
    BY <2>7, <2>8
<1> QED
  BY <1>1, Invariance, ReplyHolds, PTL
-----------------------------------------------------------------------------
(* The local fallback. *)

\* A full bucket holds at least one token.
LEMMA LocalUnits == Token \in Nat \ {0} /\ Full \in Nat /\ Token <= Full
<1>1. Token \in Nat \ {0}
  BY WindowMsType DEF Token
<1>2. ASSUME NEW c \in Nat \ {0}, NEW w \in Nat PROVE c * w \in Nat /\ w <= c * w
  OBVIOUS
<1> QED
  BY <1>1, <1>2, LocalFallbackAssumption DEF Full

\* The admissions of a history from s on.
TakenSince(h, s) == {e \in h : e.at >= s}

(***************************************************************************)
(* held units at time t are what the history h leaves of a full bucket: no *)
(* less than that, whatever moment one counts from, and no more, counting  *)
(* from the admission that last found the bucket full.                     *)
(***************************************************************************)
Ledger(h, held, t) ==
  /\ held \in Nat /\ held <= Full
  /\ \A e \in h : e.at <= t
  /\ \A s \in Time : s <= t =>
       Token * Cardinality(TakenSince(h, s)) + held <= Full + Rate * (t - s)
  /\ held = Full \/ \E s \in {e.at : e \in h} :
       Token * Cardinality(TakenSince(h, s)) + held = Full + Rate * (t - s)

\* What is counted in a ledger is a number.
LEMMA LedgerTypes ==
  ASSUME NEW h \in SUBSET EventType, IsFiniteSet(h), NEW s
  PROVE  /\ IsFiniteSet(TakenSince(h, s)) /\ Cardinality(TakenSince(h, s)) \in Nat
         /\ Token * Cardinality(TakenSince(h, s)) \in Nat
         /\ Token * (Cardinality(TakenSince(h, s)) + 1)
              = Token * Cardinality(TakenSince(h, s)) + Token
         /\ (TakenSince(h, s) = {} => Token * Cardinality(TakenSince(h, s)) = 0)
<1>1. IsFiniteSet(TakenSince(h, s)) /\ Cardinality(TakenSince(h, s)) \in Nat
  BY FS_Subset, FS_CardinalityType DEF TakenSince
<1>2. PICK n \in Nat : n = Cardinality(TakenSince(h, s))
  BY <1>1
<1>3. Token * n \in Nat /\ Token * (n + 1) = Token * n + Token /\ Token * 0 = 0
  BY LocalUnits
<1>4. TakenSince(h, s) = {} => n = 0
  BY <1>2, FS_EmptySet
<1> QED
  BY <1>1, <1>2, <1>3, <1>4

\* Time passes, and what flows in is added up to a full bucket.
LEMMA LedgerPours ==
  ASSUME NEW h \in SUBSET EventType, IsFiniteSet(h), NEW held,
         NEW l \in Time, NEW t \in Time, l <= t, Ledger(h, held, l), NEW got,
         got = IF held + Rate * (t - l) < Full THEN held + Rate * (t - l) ELSE Full
  PROVE  Ledger(h, got, t)
<1> USE LimiterAssumption, LocalUnits
<1>1. PICK due : due = Rate * (t - l)
  OBVIOUS
<1>2. l \in Nat /\ t \in Nat /\ due \in Nat
  BY <1>1 DEF Time
<1>3. held \in Nat /\ held <= Full
  BY DEF Ledger
<1>4. got \in Nat /\ got <= Full /\ got <= held + due /\ (got = Full \/ got = held + due)
  BY <1>1, <1>2, <1>3
<1>5. \A e \in h : e.at <= t
  BY <1>2 DEF Ledger, EventType, Time
<1>6. ASSUME NEW s \in Int PROVE Rate * (t - s) = Rate * (l - s) + due /\ Rate * (l - s) \in Int
  BY <1>1, <1>2, <1>6
<1>7. ASSUME NEW s \in Time, s <= t
      PROVE  Token * Cardinality(TakenSince(h, s)) + got <= Full + Rate * (t - s)
  <2>1. PICK taken \in Nat : taken = Token * Cardinality(TakenSince(h, s))
    BY LedgerTypes
  <2>2. s \in Nat /\ s \in Int
    BY DEF Time
  <2>3. PICK flowed \in Int : flowed = Rate * (l - s) /\ Rate * (t - s) = flowed + due
    BY <1>6, <2>2, Zenon
  <2>4. CASE s <= l
    <3>1. taken + held <= Full + flowed
      BY <2>1, <2>3, <2>4 DEF Ledger
    <3> QED
      BY <1>2, <1>3, <1>4, <2>1, <2>3, <3>1
  <2>5. CASE ~(s <= l)
    <3>1. TakenSince(h, s) = {}
      BY <1>2, <2>2, <2>5 DEF TakenSince, Ledger, EventType, Time
    <3>2. taken = 0
      BY <2>1, <3>1, LedgerTypes
    <3>3. Rate * (t - s) \in Nat
      BY <1>2, <1>7, <2>2
    <3> QED
      BY <1>4, <2>1, <3>2, <3>3
  <2> QED
    BY <2>4, <2>5
<1>8. ASSUME got # Full
      PROVE  \E s \in {e.at : e \in h} :
               Token * Cardinality(TakenSince(h, s)) + got = Full + Rate * (t - s)
  <2>1. got = held + due /\ held # Full
    BY <1>1, <1>2, <1>3, <1>4, <1>8
  <2>2. PICK s \in {e.at : e \in h} :
          Token * Cardinality(TakenSince(h, s)) + held = Full + Rate * (l - s)
    BY <2>1 DEF Ledger
  <2>3. s \in Nat
    BY <2>2 DEF EventType, Time
  <2>4. PICK taken \in Nat, flowed \in Int :
          taken = Token * Cardinality(TakenSince(h, s)) /\ flowed = Rate * (l - s)
    BY <1>6, <2>3, LedgerTypes
  <2>5. Rate * (t - s) = flowed + due
    BY <1>6, <2>3, <2>4
  <2>6. taken + got = Full + (flowed + due)
    BY <1>2, <1>3, <2>1, <2>2, <2>4
  <2> QED
    BY <2>2, <2>4, <2>5, <2>6
<1> QED
  BY <1>4, <1>5, <1>7, <1>8 DEF Ledger

\* A token is taken at time t.
LEMMA LedgerTakes ==
  ASSUME NEW h \in SUBSET EventType, IsFiniteSet(h), NEW held, NEW t \in Time,
         Ledger(h, held, t), held >= Token, NEW e \in EventType, e \notin h, e.at = t
  PROVE  Ledger(h \cup {e}, held - Token, t)
<1> USE LimiterAssumption, LocalUnits
<1>1. held \in Nat /\ held <= Full /\ held - Token \in Nat /\ t \in Nat
  BY DEF Ledger, Time
<1>2. \A f \in h \cup {e} : f.at <= t
  BY <1>1 DEF Ledger
<1>3. ASSUME NEW s \in Time, s <= t
      PROVE  Token * Cardinality(TakenSince(h \cup {e}, s))
               = Token * Cardinality(TakenSince(h, s)) + Token
  <2>1. TakenSince(h \cup {e}, s) = TakenSince(h, s) \cup {e} /\ e \notin TakenSince(h, s)
    BY <1>1, <1>3 DEF TakenSince, Time
  <2>2. Cardinality(TakenSince(h \cup {e}, s)) = Cardinality(TakenSince(h, s)) + 1
    BY <2>1, LedgerTypes, FS_AddElement
  <2> QED
    BY <2>2, LedgerTypes
<1>4. ASSUME NEW s \in Time, s <= t
      PROVE  Token * Cardinality(TakenSince(h \cup {e}, s)) + (held - Token)
               <= Full + Rate * (t - s)
  <2>1. PICK taken \in Nat : taken = Token * Cardinality(TakenSince(h, s))
    BY LedgerTypes
  <2>2. taken + held <= Full + Rate * (t - s)
    BY <1>4, <2>1 DEF Ledger
  <2> QED
    <3>1. Token * Cardinality(TakenSince(h \cup {e}, s)) = taken + Token
      BY <1>3, <1>4, <2>1, Zenon
    <3>2. Rate * (t - s) \in Int
      BY <1>1, <1>4 DEF Time
    <3> QED
      BY <1>1, <2>1, <2>2, <3>1, <3>2
<1>5. \E s \in {f.at : f \in h \cup {e}} :
        Token * Cardinality(TakenSince(h \cup {e}, s)) + (held - Token) = Full + Rate * (t - s)
  <2>1. CASE held = Full
    <3>1. PICK taken \in Nat : taken = Token * Cardinality(TakenSince(h, t))
      BY LedgerTypes
    <3>2. Rate * (t - t) = 0 /\ t <= t
      BY <1>1
    <3>3. taken + held <= Full + 0
      BY <3>1, <3>2 DEF Ledger
    <3>4. taken = 0
      BY <1>1, <2>1, <3>1, <3>3
    <3>5. Token * Cardinality(TakenSince(h \cup {e}, t)) + (held - Token) = Full + Rate * (t - t)
      <4>1. Token * Cardinality(TakenSince(h \cup {e}, t)) = taken + Token
        BY <1>3, <3>1, <3>2, Zenon
      <4> QED
        BY <1>1, <2>1, <3>2, <3>4, <4>1
    <3> QED
      BY <3>5
  <2>2. CASE held # Full
    <3>1. PICK s \in {f.at : f \in h} :
            Token * Cardinality(TakenSince(h, s)) + held = Full + Rate * (t - s)
      BY <2>2 DEF Ledger
    <3>2. s \in Time /\ s <= t
      BY <3>1 DEF Ledger, EventType
    <3>3. PICK taken \in Nat : taken = Token * Cardinality(TakenSince(h, s))
      BY LedgerTypes
    <3>4. (taken + Token) + (held - Token) = Full + Rate * (t - s)
      BY <1>1, <3>1, <3>3
    <3>5. s \in {f.at : f \in h \cup {e}}
      BY <3>1
    <3> QED
      BY <1>3, <3>2, <3>3, <3>4, <3>5
  <2> QED
    BY <2>1, <2>2
<1>6. held - Token <= Full
  BY <1>1
<1> QED
  BY <1>1, <1>2, <1>4, <1>5, <1>6 DEF Ledger

\* A ledger tells whether there is a token, as the history does.
LEMMA LedgerDecides ==
  ASSUME NEW h \in SUBSET EventType, IsFiniteSet(h), NEW held, NEW t \in Time,
         Ledger(h, held, t)
  PROVE  BucketRoom(Capacity, h, t) <=> held >= Token
<1> USE LimiterAssumption, LocalUnits
<1> DEFINE Fits(s) == Token * (Cardinality(TakenSince(h, s)) + 1) <= Full + Rate * (t - s)
<1>1. BucketRoom(Capacity, h, t) <=> \A s \in {e.at : e \in h} \cup {t} : Fits(s)
  BY DEF BucketRoom, TakenSince, Full, Token
<1>2. held \in Nat /\ t \in Nat /\ held <= Full
  BY DEF Ledger, Time
<1>3. ASSUME NEW s \in {e.at : e \in h} \cup {t}
      PROVE  s \in Time /\ s <= t /\ Rate * (t - s) \in Nat
  <2>1. s \in Time /\ s <= t
    BY <1>2 DEF Ledger, EventType
  <2> QED
    BY <1>2, <2>1 DEF Time
<1>4. ASSUME held >= Token, NEW s \in {e.at : e \in h} \cup {t} PROVE Fits(s)
  <2>1. PICK taken \in Nat : taken = Token * Cardinality(TakenSince(h, s))
    BY LedgerTypes
  <2>2. taken + held <= Full + Rate * (t - s)
    BY <1>3, <2>1 DEF Ledger
  <2>3. Token * (Cardinality(TakenSince(h, s)) + 1) = taken + Token
    BY <2>1, LedgerTypes
  <2> QED
    BY <1>2, <1>3, <1>4, <2>1, <2>2, <2>3
<1>5. ASSUME ~(held >= Token) PROVE \E s \in {e.at : e \in h} : ~Fits(s)
  <2>1. held # Full
    BY <1>2, <1>5
  <2>2. PICK s \in {e.at : e \in h} :
          Token * Cardinality(TakenSince(h, s)) + held = Full + Rate * (t - s)
    BY <2>1 DEF Ledger
  <2>3. PICK taken \in Nat : taken = Token * Cardinality(TakenSince(h, s))
    BY LedgerTypes
  <2>4. Token * (Cardinality(TakenSince(h, s)) + 1) = taken + Token
    BY <2>3, LedgerTypes
  <2>5. Rate * (t - s) \in Nat
    BY <1>3, <2>2
  <2> QED
    BY <1>2, <1>5, <2>2, <2>3, <2>4, <2>5
<1> QED
  BY <1>1, <1>4, <1>5

\* A bucket from which nothing was taken is full.
LEMMA LedgerEmpty == ASSUME NEW t \in Time PROVE Ledger({}, Full, t)
<1> USE LimiterAssumption, LocalUnits
<1>1. ASSUME NEW s \in Time, s <= t
      PROVE  Token * Cardinality(TakenSince({}, s)) + Full <= Full + Rate * (t - s)
  <2>1. Cardinality(TakenSince({}, s)) = 0
    BY FS_EmptySet DEF TakenSince
  <2>2. Rate * (t - s) \in Nat /\ Token * 0 = 0
    BY <1>1 DEF Time
  <2> QED
    BY <2>1, <2>2
<1> QED
  BY <1>1 DEF Ledger
-----------------------------------------------------------------------------
(***************************************************************************)
(* events lists the admissions in h that can still matter at time t, in    *)
(* the order of their times, and no more than Rate of them.                *)
(***************************************************************************)
Lists(h, events, t) ==
  /\ events \in SUBSET [place : Nat, at : Time]
  /\ IsFiniteSet(events) /\ Cardinality(events) <= Rate
  /\ \E b \in Nat : \A e \in events : e.place <= b
  /\ \A e, f \in events : e.place <= f.place => e.at <= f.at
  /\ \A e \in events : e.at <= t
  /\ \A s \in Int : s >= t - WindowMs =>
       Cardinality({e \in events : e.at > s}) = Cardinality({e \in h : e.at > s})

\* The same list will do later on.
LEMMA ListsLater ==
  ASSUME NEW h, NEW events, NEW t \in Time, NEW u \in Time, t <= u, Lists(h, events, t)
  PROVE  Lists(h, events, u)
<1>1. \A e \in events : e.at <= u
  BY DEF Lists, Time
<1>2. \A s \in Int : s >= u - WindowMs => s >= t - WindowMs
  BY WindowMsType DEF Time
<1> QED
  BY <1>1, <1>2 DEF Lists

\* It will do without what has left the window.
LEMMA ListsTrims ==
  ASSUME NEW h, NEW events, NEW t \in Time, Lists(h, events, t)
  PROVE  Lists(h, {e \in events : e.at > t - WindowMs}, t)
<1> DEFINE active == {e \in events : e.at > t - WindowMs}
<1>1. /\ IsFiniteSet(active) /\ Cardinality(active) <= Cardinality(events)
      /\ Cardinality(active) \in Nat /\ Cardinality(events) \in Nat
  BY FS_Subset, FS_CardinalityType DEF Lists
<1>2. Cardinality(active) <= Rate
  BY <1>1, LimiterAssumption DEF Lists
<1>3. ASSUME NEW s \in Int, s >= t - WindowMs
      PROVE  {e \in active : e.at > s} = {e \in events : e.at > s}
  <2>1. ASSUME NEW e \in events, e.at > s PROVE e.at > t - WindowMs
    BY <1>3, <2>1, WindowMsType DEF Lists, Time
  <2> QED
    BY <2>1
<1> QED
  BY <1>1, <1>2, <1>3 DEF Lists

\* An admission at time t is added behind the others.
LEMMA ListsAppends ==
  ASSUME NEW h, IsFiniteSet(h), NEW events, NEW t \in Time, Lists(h, events, t),
         Cardinality(events) < Rate, NEW a, a \notin h, a.at = t,
         NEW x \in [place : Nat, at : Time], x.at = t, \A e \in events : e.place < x.place
  PROVE  Lists(h \cup {a}, events \cup {x}, t)
<1> DEFINE more == events \cup {x}
<1>0. x.place \in Nat /\ t \in Nat
  BY DEF Time
<1>1. x \notin events
  BY <1>0
<1>2. more \in SUBSET [place : Nat, at : Time] /\ \A e \in more : e.at <= t
  BY <1>0 DEF Lists
<1>3. /\ IsFiniteSet(more) /\ Cardinality(more) = Cardinality(events) + 1
      /\ Cardinality(events) \in Nat
  BY <1>1, FS_AddElement, FS_CardinalityType DEF Lists
<1>4. Cardinality(more) <= Rate
  BY <1>3, LimiterAssumption
<1>5. \A e \in more : e.place <= x.place
  BY <1>0 DEF Lists
<1>6. ASSUME NEW e \in more, NEW f \in more, e.place <= f.place PROVE e.at <= f.at
  <2>1. CASE f = x
    BY <1>2, <2>1
  <2>2. CASE f # x
    <3>1. f \in events /\ e # x
      BY <1>0, <1>6, <2>2 DEF Lists
    <3> QED
      BY <1>6, <3>1 DEF Lists
  <2> QED
    BY <2>1, <2>2
<1>7. ASSUME NEW s \in Int, s >= t - WindowMs
      PROVE  Cardinality({e \in more : e.at > s}) = Cardinality({e \in h \cup {a} : e.at > s})
  <2>1. Cardinality({e \in events : e.at > s}) = Cardinality({e \in h : e.at > s})
    BY <1>7 DEF Lists
  <2>2. CASE t > s
    <3>1. /\ {e \in more : e.at > s} = {e \in events : e.at > s} \cup {x}
          /\ {e \in h \cup {a} : e.at > s} = {e \in h : e.at > s} \cup {a}
      BY <2>2
    <3>2. IsFiniteSet({e \in events : e.at > s}) /\ IsFiniteSet({e \in h : e.at > s})
      BY FS_Subset DEF Lists
    <3>3. x \notin {e \in events : e.at > s} /\ a \notin {e \in h : e.at > s}
      BY <1>1
    <3>4. Cardinality({e \in more : e.at > s}) = Cardinality({e \in events : e.at > s}) + 1
      BY <3>1, <3>2, <3>3, FS_AddElement
    <3>5. Cardinality({e \in h \cup {a} : e.at > s}) = Cardinality({e \in h : e.at > s}) + 1
      BY <3>1, <3>2, <3>3, FS_AddElement
    <3> QED
      BY <2>1, <3>4, <3>5
  <2>3. CASE ~(t > s)
    <3>1. /\ {e \in more : e.at > s} = {e \in events : e.at > s}
          /\ {e \in h \cup {a} : e.at > s} = {e \in h : e.at > s}
      BY <2>3
    <3> QED
      BY <2>1, <3>1
  <2> QED
    BY <2>2, <2>3
<1>8. \E b \in Nat : \A e \in more : e.place <= b
  BY <1>0, <1>5
<1> QED
  BY <1>2, <1>3, <1>4, <1>6, <1>7, <1>8 DEF Lists

\* Once every admission has left the window an empty list will do.
LEMMA ListsNothing ==
  ASSUME NEW h \in SUBSET EventType, NEW t \in Time, \A e \in h : e.at + WindowMs <= t
  PROVE  Lists(h, {}, t)
<1>1. IsFiniteSet({}) /\ Cardinality({}) = 0
  BY FS_EmptySet
<1>2. ASSUME NEW s \in Int, s >= t - WindowMs PROVE {e \in h : e.at > s} = {}
  BY <1>2, WindowMsType DEF EventType, Time
<1>3. \A s : {e \in {} : e.at > s} = {}
  OBVIOUS
<1>4. ASSUME NEW s \in Int, s >= t - WindowMs
      PROVE  Cardinality({e \in {} : e.at > s}) = Cardinality({e \in h : e.at > s})
  BY <1>2, <1>3, <1>4
<1>5. 0 \in Nat /\ 0 <= Rate
  BY LimiterAssumption
<1> QED
  BY <1>1, <1>4, <1>5 DEF Lists

\* A list decides as the history does.
LEMMA ListsDecides ==
  ASSUME NEW h, NEW events, NEW t \in Time, Lists(h, events, t), NEW u \in Time, t <= u
  PROVE  TrailingRoom(h, u) <=> Cardinality({e \in events : e.at > u - WindowMs}) < Rate
<1>1. u - WindowMs \in Int /\ u - WindowMs >= t - WindowMs
  BY WindowMsType DEF Time
<1> QED
  BY <1>1 DEF Lists, TrailingRoom

\* Its first entry is the oldest.
LEMMA FirstIsOldest ==
  ASSUME NEW h, NEW events, NEW t \in Time, Lists(h, events, t), events # {}
  PROVE  First(events) \in events /\ \A e \in events : First(events).at <= e.at
<1> DEFINE places == {e.place : e \in events}
<1>1. places \in SUBSET Nat /\ places # {}
  BY DEF Lists
<1>2. PICK p \in places : \A q \in places : p <= q
  BY <1>1, OldestExists
<1>3. \E e \in events : \A f \in events : e.place <= f.place
  BY <1>2
<1>4. First(events) \in events /\ \A f \in events : First(events).place <= f.place
  BY <1>3 DEF First
<1> QED
  BY <1>4 DEF Lists
-----------------------------------------------------------------------------
\* The larger and the smaller of two numbers.
LEMMA OfTwo ==
  ASSUME NEW a \in Int, NEW b \in Int
  PROVE  /\ Max({a, b}) = IF a >= b THEN a ELSE b
         /\ Min({a, b}) = IF a <= b THEN a ELSE b
<1>1. \E x \in {a, b} : \A y \in {a, b} : x >= y
  OBVIOUS
<1>2. \E x \in {a, b} : \A y \in {a, b} : x <= y
  OBVIOUS
<1>3. Max({a, b}) \in {a, b} /\ \A y \in {a, b} : Max({a, b}) >= y
  BY <1>1, Zenon DEF Max
<1>4. Min({a, b}) \in {a, b} /\ \A y \in {a, b} : Min({a, b}) <= y
  BY <1>2, Zenon DEF Min
<1> QED
  BY <1>3, <1>4

\* The latest of some times that are bounded exists.
LEMMA LatestExists ==
  ASSUME NEW S \in SUBSET Nat, S # {}, NEW b \in Nat, \A x \in S : x <= b
  PROVE  Max(S) \in S /\ \A x \in S : Max(S) >= x
<1> DEFINE Short == {b - x : x \in S}
<1>1. Short \in SUBSET Nat /\ Short # {}
  <2>1. ASSUME NEW x \in S PROVE b - x \in Nat
    OBVIOUS
  <2>2. PICK x \in S : TRUE
    OBVIOUS
  <2>3. b - x \in Short
    BY <2>2
  <2> QED
    BY <2>1, <2>3
<1>2. PICK d \in Short : \A y \in Short : d <= y
  BY <1>1, OldestExists
<1>3. PICK x \in S : d = b - x
  BY <1>2
<1>4. ASSUME NEW y \in S PROVE x >= y
  <2>1. d <= b - y
    BY <1>2
  <2> QED
    BY <1>3, <2>1
<1>5. \E z \in S : \A y \in S : z >= y
  BY <1>4
<1> QED
  BY <1>5, Zenon DEF Max

\* The settings give every entry a second at least.
LEMMA TtlType == StateTtlMs \in Nat /\ StateTtlMs > 0
<1>1. PICK n : n = Max({1, StateTtlSeconds})
  OBVIOUS
<1>2. n \in Nat \ {0}
  BY <1>1, OfTwo, LocalFallbackAssumption
<1>3. n * Second \in Nat /\ n * Second > 0
  BY <1>2, LimiterAssumption
<1> QED
  BY <1>1, <1>3 DEF StateTtlMs
-----------------------------------------------------------------------------
\* The parts of the state that every algorithm has.
LocalBase ==
  /\ now \in Time
  /\ algorithm \in Algorithm
  /\ admitted \in SUBSET EventType /\ IsFiniteSet(admitted)
  /\ \A e \in admitted : e.at <= now
  /\ reply.at \in Time /\ reply.at <= now

(***************************************************************************)
(* A count that is kept is the count of the window of the last request and *)
(* lasts as long as that window; without one, every window that was used   *)
(* is over.                                                                *)
(***************************************************************************)
FixedKept ==
  /\ stored.expires_at_ms \in Nat
  /\ IF Found
     THEN \E s \in Time :
            /\ s <= now /\ \A e \in admitted : e.at <= s
            /\ stored.value = [window_start_ms |-> WindowStart(s),
                               count |-> Cardinality(InWindow(admitted, WindowStart(s)))]
            /\ stored.expires_at_ms >= WindowStart(s) + WindowMs
     ELSE \A e \in admitted : WindowStart(e.at) + WindowMs <= now

\* A list that is kept lasts as long as its entries matter.
SlidingKept ==
  /\ stored.expires_at_ms \in Nat
  /\ IF Found
     THEN /\ Lists(admitted, stored.value, now)
          /\ \A e \in admitted : e.at + WindowMs <= stored.expires_at_ms
     ELSE \A e \in admitted : e.at + WindowMs <= now

\* A bucket that is kept lasts until it would be full.
BucketKept ==
  /\ stored.expires_at_ms \in Nat
  /\ IF Found
     THEN LET held == stored.value.tokens
              last == stored.value.last_refill_ms
          IN  /\ last \in Time /\ last <= now
              /\ Ledger(admitted, held, last)
              /\ stored.expires_at_ms >= last + Ceil(Full - held, Rate)
     ELSE Ledger(admitted, Full, now)

\* A sliding log is forgotten too early by a limiter that forgets sooner
\* than its window ends.
KeepsLongEnough == algorithm = "sliding_window_log" => WindowMs <= StateTtlMs

LocalInv ==
  steady =>
    /\ LocalBase
    /\ algorithm = "fixed_window" => FixedKept
    /\ algorithm = "sliding_window_log" /\ WindowMs <= StateTtlMs => SlidingKept
    /\ algorithm = "token_bucket" => BucketKept

\* apply_fixed_window starts from the admissions of the window.
LEMMA FixedStateIs ==
  ASSUME LocalBase, FixedKept
  PROVE  FixedWindowState = [window_start_ms |-> WindowStart(now),
                             count |-> Cardinality(InWindow(admitted, WindowStart(now)))]
<1>1. now \in Time /\ now \in Nat
  BY DEF LocalBase, Time
<1>2. ASSUME \A e \in admitted : WindowStart(now) # WindowStart(e.at)
      PROVE  Cardinality(InWindow(admitted, WindowStart(now))) = 0
  <2>1. InWindow(admitted, WindowStart(now)) = {}
    BY <1>2 DEF InWindow
  <2> QED
    BY <2>1, FS_EmptySet
<1>3. CASE Found
  <2>1. PICK s \in Time :
         /\ s <= now /\ \A e \in admitted : e.at <= s
         /\ stored.value = [window_start_ms |-> WindowStart(s),
                            count |-> Cardinality(InWindow(admitted, WindowStart(s)))]
    BY <1>3 DEF FixedKept
  <2>2. stored.value.window_start_ms = WindowStart(s)
    BY <2>1
  <2>3. CASE WindowStart(s) = WindowStart(now)
    BY <1>3, <2>1, <2>2, <2>3, Zenon DEF FixedWindowState
  <2>4. CASE WindowStart(s) # WindowStart(now)
    <3>1. WindowStart(now) > s /\ s \in Nat /\ WindowStart(now) \in Nat
      BY <1>1, <2>1, <2>4, WindowOf, WindowStartBounds DEF Time
    <3>2. ASSUME NEW e \in admitted PROVE WindowStart(now) # WindowStart(e.at)
      <4>1. e.at \in Time /\ e.at \in Nat /\ e.at <= s
        BY <2>1 DEF LocalBase, EventType, Time
      <4>2. WindowStart(e.at) \in Nat /\ WindowStart(e.at) <= e.at
        BY <4>1, WindowStartBounds DEF Time
      <4> QED
        BY <3>1, <4>1, <4>2
    <3>3. Cardinality(InWindow(admitted, WindowStart(now))) = 0
      BY <1>2, <3>2
    <3> QED
      BY <2>2, <2>4, <3>3, Zenon DEF FixedWindowState
  <2> QED
    BY <2>3, <2>4
<1>4. CASE ~Found
  <2>1. ASSUME NEW e \in admitted PROVE WindowStart(now) # WindowStart(e.at)
    <3>1. e.at \in Time /\ e.at \in Nat /\ e.at <= now /\ WindowStart(e.at) + WindowMs <= now
      BY <1>4 DEF LocalBase, EventType, Time, FixedKept
    <3>2. /\ WindowStart(e.at) \in Nat /\ WindowStart(now) \in Nat
          /\ now < WindowStart(now) + WindowMs
      BY <1>1, <3>1, WindowStartBounds DEF Time
    <3> QED
      BY <1>1, <3>1, <3>2, WindowMsType
  <2>2. Cardinality(InWindow(admitted, WindowStart(now))) = 0
    BY <1>2, <2>1
  <2> QED
    BY <1>4, <2>2, Zenon DEF FixedWindowState
<1> QED
  BY <1>3, <1>4

\* apply_sliding_window_log starts from a list of what matters.
LEMMA ActiveIs ==
  ASSUME LocalBase, SlidingKept
  PROVE  /\ Lists(admitted, ActiveEvents, now)
         /\ \A e \in ActiveEvents : e.at > now - WindowMs
         /\ SlidingAllowed <=> TrailingRoom(admitted, now)
<1>1. now \in Time
  BY DEF LocalBase
<1>2. Lists(admitted, ActiveEvents, now)
  <2>1. CASE Found
    BY <1>1, <2>1, ListsTrims DEF SlidingKept, ActiveEvents
  <2>2. CASE ~Found
    BY <1>1, <2>2, ListsNothing DEF SlidingKept, ActiveEvents, LocalBase
  <2> QED
    BY <2>1, <2>2
<1>3. \A e \in ActiveEvents : e.at > now - WindowMs
  BY DEF ActiveEvents
<1>4. {e \in ActiveEvents : e.at > now - WindowMs} = ActiveEvents
  BY <1>3
<1>5. now <= now
  BY <1>1 DEF Time
<1>6. SlidingAllowed <=> TrailingRoom(admitted, now)
  BY <1>1, <1>2, <1>4, <1>5, ListsDecides DEF SlidingAllowed
<1> QED
  BY <1>2, <1>3, <1>6

\* apply_token_bucket starts from what the history leaves.
LEMMA AvailableIs ==
  ASSUME LocalBase, BucketKept
  PROVE  Ledger(admitted, Available, now)
<1> USE LimiterAssumption, LocalUnits
<1>1. now \in Time /\ now \in Nat /\ admitted \in SUBSET EventType /\ IsFiniteSet(admitted)
  BY DEF LocalBase, Time
<1>2. CASE Found
  <2>1. PICK held, last : held = stored.value.tokens /\ last = stored.value.last_refill_ms
    OBVIOUS
  <2>2. last \in Time /\ last <= now /\ Ledger(admitted, held, last) /\ last \in Nat
    BY <1>2, <2>1 DEF BucketKept, Time
  <2>3. held \in Nat
    BY <2>2 DEF Ledger
  <2>4. Max({0, now - last}) = now - last
    BY <1>1, <2>2, OfTwo
  <2>5. PICK due \in Nat : due = Rate * (now - last) /\ due = (now - last) * Rate
    BY <1>1, <2>2
  <2>6. Available = Min({Full, held + due})
    BY <1>2, <2>1, <2>4, <2>5, Zenon DEF Available
  <2>7. Available = IF held + due < Full THEN held + due ELSE Full
    <3>1. PICK sum \in Nat : sum = held + due
      BY <2>3, <2>5
    <3>2. Min({Full, sum}) = IF Full <= sum THEN Full ELSE sum
      BY OfTwo
    <3> QED
      BY <2>6, <3>1, <3>2
  <2> QED
    BY <1>1, <2>2, <2>5, <2>7, LedgerPours
<1>3. CASE ~Found
  BY <1>3 DEF Available, BucketKept
<1> QED
  BY <1>2, <1>3
-----------------------------------------------------------------------------
\* What memory decides is what the history does.
LEMMA MemoryAgrees ==
  ASSUME LocalInv, steady, KeepsLongEnough
  PROVE  LocalAllowed <=> Room(admitted, now)
<1>1. LocalBase /\ algorithm \in Algorithm
  BY DEF LocalInv, LocalBase
<1>2. CASE algorithm = "fixed_window"
  <2>1. FixedWindowState.count = Cardinality(InWindow(admitted, WindowStart(now)))
    BY <1>1, <1>2, FixedStateIs DEF LocalInv
  <2>2. Cardinality(InWindow(admitted, WindowStart(now))) \in Nat
    BY <1>1, FS_Subset, FS_CardinalityType DEF LocalBase, InWindow
  <2>3. FixedWindowAllowed <=> FixedWindowRoom(admitted, now)
    BY <2>1, <2>2, LimiterAssumption DEF FixedWindowAllowed, FixedWindowRoom
  <2> QED
    BY <1>2, <2>3 DEF LocalAllowed, Room
<1>3. CASE algorithm = "sliding_window_log"
  BY <1>1, <1>3, ActiveIs DEF LocalInv, KeepsLongEnough, LocalAllowed, Room
<1>4. CASE algorithm = "token_bucket"
  <2>1. TokenAllowed <=> BucketRoom(Capacity, admitted, now)
    BY <1>1, <1>4, AvailableIs, LedgerDecides DEF LocalInv, LocalBase, TokenAllowed
  <2> QED
    BY <1>4, <2>1 DEF LocalAllowed, Room
<1> QED
  BY <1>1, <1>2, <1>3, <1>4 DEF Algorithm

\* How long a refused request is told to wait, in milliseconds.
RetryMs ==
  CASE algorithm = "fixed_window" -> (WindowStart(now) + WindowMs) - now
    [] algorithm = "sliding_window_log" -> Max({0, SlidingReset(ActiveEvents) - now})
    [] algorithm = "token_bucket" -> TokenRetryMs

\* What a request leaves behind.
LEMMA ApplyEffect ==
  ASSUME LocalBase, NEW r \in Request, Apply(r)
  PROVE  /\ now' = now /\ steady' = steady /\ algorithm' = algorithm /\ cleared' = cleared
         /\ LocalAllowed \in BOOLEAN
         /\ reply'.allowed = LocalAllowed /\ reply'.at = now
         /\ ~LocalAllowed => reply'.retry_after = Ceil(RetryMs, Second)
         /\ admitted' = IF LocalAllowed THEN admitted \cup {Event(r)} ELSE admitted
         /\ Event(r) \notin admitted /\ Event(r) \in EventType /\ Event(r).at = now
<1>1. now' = now /\ steady' = steady /\ algorithm' = algorithm /\ cleared' = cleared
  BY DEF Apply, clock
<1>2. Event(r) \notin admitted /\ Event(r) \in EventType /\ Event(r).at = now
  BY DEF Apply, Fresh, Event, EventType, LocalBase
<1>3. ASSUME NEW allowed \in BOOLEAN, NEW remaining, NEW reset, NEW retry,
             Answer(r, Decision(allowed, remaining, reset, retry))
      PROVE  /\ reply'.allowed = allowed /\ reply'.at = now
             /\ ~allowed => reply'.retry_after = Ceil(retry, Second)
             /\ admitted' = IF allowed THEN admitted \cup {Event(r)} ELSE admitted
  <2>1. reply' = [allowed |-> allowed, remaining |-> remaining, reset_at |-> Ceil(reset, Second),
                  retry_after |-> IF allowed THEN 0 ELSE Ceil(retry, Second), at |-> now]
    BY <1>3, Zenon DEF Answer, Decision
  <2>2. /\ reply'.allowed = allowed /\ reply'.at = now
        /\ reply'.retry_after = IF allowed THEN 0 ELSE Ceil(retry, Second)
    BY <2>1, Zenon
  <2>3. admitted' = IF reply'.allowed THEN admitted \cup {Event(r)} ELSE admitted
    BY <1>3, Zenon DEF Answer
  <2> QED
    BY <2>2, <2>3, Zenon
<1>4. CASE ApplyFixedWindow(r)
  <2>1. algorithm = "fixed_window" /\ FixedWindowAllowed \in BOOLEAN
    BY <1>4 DEF ApplyFixedWindow, FixedWindowAllowed
  <2>2. LocalAllowed = FixedWindowAllowed /\ RetryMs = (WindowStart(now) + WindowMs) - now
    BY <2>1 DEF LocalAllowed, RetryMs
  <2>3. PICK remaining, reset :
          Answer(r, Decision(FixedWindowAllowed, remaining, reset,
                             (WindowStart(now) + WindowMs) - now))
    <3>1. Answer(r, Decision(FixedWindowAllowed, Max({0, Rate - (FixedWindowState.count + 1)}),
                             WindowStart(now) + WindowMs, (WindowStart(now) + WindowMs) - now))
      BY <1>4 DEF ApplyFixedWindow
    <3> QED
      BY <3>1, Zenon
  <2>4. /\ reply'.allowed = FixedWindowAllowed /\ reply'.at = now
        /\ ~FixedWindowAllowed =>
             reply'.retry_after = Ceil((WindowStart(now) + WindowMs) - now, Second)
        /\ admitted' = IF FixedWindowAllowed THEN admitted \cup {Event(r)} ELSE admitted
    BY <1>3, <2>1, <2>3, Zenon
  <2> QED
    BY <1>1, <1>2, <2>1, <2>2, <2>4, Zenon
<1>5. CASE ApplySlidingWindow(r)
  <2>1. algorithm = "sliding_window_log" /\ SlidingAllowed \in BOOLEAN
    BY <1>5 DEF ApplySlidingWindow, SlidingAllowed
  <2>2. LocalAllowed = SlidingAllowed /\ RetryMs = Max({0, SlidingReset(ActiveEvents) - now})
    BY <2>1 DEF LocalAllowed, RetryMs
  <2>3. PICK events, remaining, reset :
          /\ events = IF SlidingAllowed THEN Appended(ActiveEvents) ELSE ActiveEvents
          /\ Answer(r, Decision(SlidingAllowed, remaining, reset,
                                Max({0, SlidingReset(events) - now})))
    BY <1>5, Zenon DEF ApplySlidingWindow
  <2>4. /\ reply'.allowed = SlidingAllowed /\ reply'.at = now
        /\ ~SlidingAllowed =>
             reply'.retry_after = Ceil(Max({0, SlidingReset(events) - now}), Second)
        /\ admitted' = IF SlidingAllowed THEN admitted \cup {Event(r)} ELSE admitted
    BY <1>3, <2>1, <2>3, Zenon
  <2>5. ~SlidingAllowed => events = ActiveEvents
    BY <2>3, Zenon
  <2> QED
    BY <1>1, <1>2, <2>1, <2>2, <2>4, <2>5, Zenon
<1>6. CASE ApplyTokenBucket(r)
  <2>1. algorithm = "token_bucket" /\ TokenAllowed \in BOOLEAN
    BY <1>6 DEF ApplyTokenBucket, TokenAllowed
  <2>2. LocalAllowed = TokenAllowed /\ RetryMs = TokenRetryMs
    BY <2>1 DEF LocalAllowed, RetryMs
  <2>3. PICK remaining, reset : Answer(r, Decision(TokenAllowed, remaining, reset, TokenRetryMs))
    BY <1>6, Zenon DEF ApplyTokenBucket
  <2>4. /\ reply'.allowed = TokenAllowed /\ reply'.at = now
        /\ ~TokenAllowed => reply'.retry_after = Ceil(TokenRetryMs, Second)
        /\ admitted' = IF TokenAllowed THEN admitted \cup {Event(r)} ELSE admitted
    BY <1>3, <2>1, <2>3, Zenon
  <2> QED
    BY <1>1, <1>2, <2>1, <2>2, <2>4, Zenon
<1> QED
  BY <1>4, <1>5, <1>6 DEF Apply

\* The admissions after a request are still admissions up to now.
LEMMA ApplyAdmits ==
  ASSUME LocalBase, NEW r \in Request, Apply(r)
  PROVE  /\ admitted' \in SUBSET EventType /\ IsFiniteSet(admitted')
         /\ \A e \in admitted' : e.at <= now
         /\ reply'.at \in Time /\ reply'.at <= now
<1>1. IsFiniteSet(admitted \cup {Event(r)})
  BY OneMore DEF LocalBase
<1>2. now \in Nat /\ now <= now
  BY DEF LocalBase, Time
<1>3. CASE LocalAllowed
  <2>1. admitted' = admitted \cup {Event(r)}
    BY <1>3, ApplyEffect
  <2>2. \A e \in admitted \cup {Event(r)} : e.at <= now
    BY <1>2, ApplyEffect DEF LocalBase
  <2>3. admitted \cup {Event(r)} \in SUBSET EventType
    BY ApplyEffect DEF LocalBase
  <2> QED
    BY <1>1, <1>2, <2>1, <2>2, <2>3, ApplyEffect DEF LocalBase
<1>4. CASE ~LocalAllowed
  <2>1. admitted' = admitted
    BY <1>4, ApplyEffect
  <2> QED
    BY <1>2, <2>1, ApplyEffect DEF LocalBase
<1> QED
  BY <1>3, <1>4

\* The count grows with the admissions.
LEMMA FixedApplies ==
  ASSUME LocalBase, FixedKept, NEW r \in Request, Apply(r), algorithm = "fixed_window"
  PROVE  FixedKept'
<1> DEFINE w == WindowStart(now)
           n == Cardinality(InWindow(admitted, w))
<1>1. /\ now \in Time /\ now \in Nat /\ w \in Nat /\ w <= now /\ now < w + WindowMs
      /\ WindowMs \in Nat /\ StateTtlMs \in Nat
  BY WindowStartBounds, WindowMsType, TtlType DEF LocalBase, Time
<1>2. ApplyFixedWindow(r)
  BY DEF Apply, ApplySlidingWindow, ApplyTokenBucket
<1>3. stored' = [value |-> FixedWindowNext, expires_at_ms |-> FixedWindowExpiry]
  BY <1>2 DEF ApplyFixedWindow
<1>4. stored'.value = FixedWindowNext /\ stored'.expires_at_ms = FixedWindowExpiry
  BY <1>3
<1>5. FixedWindowExpiry \in Nat /\ FixedWindowExpiry >= w + WindowMs
  <2>1. PICK a \in Nat, b \in Nat : a = w + WindowMs /\ b = now + StateTtlMs
    BY <1>1
  <2>2. Max({a, b}) = IF a >= b THEN a ELSE b
    BY OfTwo
  <2>3. FixedWindowExpiry = Max({a, b})
    BY <2>1, Zenon DEF FixedWindowExpiry
  <2> QED
    BY <2>1, <2>2, <2>3
<1>6. FixedWindowState = [window_start_ms |-> w, count |-> n]
  BY FixedStateIs
<1>7. /\ Cardinality(InWindow(admitted \cup {Event(r)}, w)) = n + 1 /\ n \in Nat
  <2>1. PICK e : e = Event(r)
    OBVIOUS
  <2>2. e \notin admitted /\ WindowStart(e.at) = w /\ IsFiniteSet(admitted)
    BY <2>1, ApplyEffect DEF LocalBase
  <2> HIDE DEF w
  <2>3. /\ Cardinality(InWindow(admitted, w)) \in Nat
        /\ Cardinality(InWindow(admitted \cup {e}, w)) =
             IF WindowStart(e.at) = w THEN Cardinality(InWindow(admitted, w)) + 1
             ELSE Cardinality(InWindow(admitted, w))
    BY <2>2, AddToWindow
  <2> QED
    BY <2>1, <2>2, <2>3
<1>8. LocalAllowed <=> FixedWindowAllowed
  BY DEF LocalAllowed
<1> HIDE DEF w, n
<1>9. FixedWindowNext = [window_start_ms |-> w, count |-> IF FixedWindowAllowed THEN n + 1 ELSE n]
  BY <1>6 DEF FixedWindowNext
<1>10. Cardinality(InWindow(admitted', w)) = IF FixedWindowAllowed THEN n + 1 ELSE n
  BY <1>7, <1>8, ApplyEffect DEF n
<1>11. stored'.value = [window_start_ms |-> w, count |-> Cardinality(InWindow(admitted', w))]
  BY <1>4, <1>9, <1>10
<1>12. now' = now /\ now <= now
  BY <1>1, ApplyEffect
<1>13. Found'
  BY <1>1, <1>4, <1>5, <1>12 DEF Found
<1>14. \A e \in admitted' : e.at <= now
  BY ApplyAdmits
<1>15. FixedKept'
  BY <1>1, <1>4, <1>5, <1>11, <1>12, <1>13, <1>14 DEF FixedKept, w
<1> QED
  BY <1>15

\* The new entry goes behind the others.
LEMMA AppendedIs ==
  ASSUME NEW h, NEW events, NEW t \in Time, now \in Time, Lists(h, events, t)
  PROVE  \E x \in [place : Nat, at : Time] :
           /\ x.at = now /\ \A e \in events : e.place < x.place
           /\ Appended(events) = events \cup {x}
<1> DEFINE places == {0} \cup {e.place : e \in events}
           top == Max(places)
           x == [place |-> top + 1, at |-> now]
<1>1. places \in SUBSET Nat /\ places # {}
  BY DEF Lists
<1>2. PICK b \in Nat : \A e \in events : e.place <= b
  BY DEF Lists
<1>3. \A p \in places : p <= b
  BY <1>2
<1> HIDE DEF places
<1>4. top \in places /\ \A p \in places : top >= p
  BY <1>1, <1>2, <1>3, LatestExists
<1>5. top \in Nat
  BY <1>1, <1>4
<1> HIDE DEF top
<1>6. x \in [place : Nat, at : Time] /\ x.at = now
  BY <1>5
<1>7. ASSUME NEW e \in events PROVE e.place < x.place
  <2>1. e.place \in places /\ e.place \in Nat
    BY DEF places, Lists
  <2> QED
    BY <1>4, <1>5, <2>1
<1>8. Appended(events) = events \cup {x}
  BY Zenon DEF Appended, places, top
<1> QED
  BY <1>6, <1>7, <1>8

\* The list grows with the admissions, and outlives its entries.
LEMMA SlidingApplies ==
  ASSUME LocalBase, SlidingKept, WindowMs <= StateTtlMs,
         NEW r \in Request, Apply(r), algorithm = "sliding_window_log"
  PROVE  SlidingKept'
<1>1. /\ now \in Time /\ now \in Nat /\ now' = now
      /\ WindowMs \in Nat /\ StateTtlMs \in Nat /\ StateTtlMs > 0
  BY WindowMsType, TtlType, ApplyEffect DEF LocalBase, Time
<1>2. ApplySlidingWindow(r)
  BY DEF Apply, ApplyFixedWindow, ApplyTokenBucket
<1>3. PICK events :
        /\ events = IF SlidingAllowed THEN Appended(ActiveEvents) ELSE ActiveEvents
        /\ stored' = [value |-> events, expires_at_ms |-> SlidingExpiry(events)]
  BY <1>2, Zenon DEF ApplySlidingWindow
<1>4. stored'.value = events /\ stored'.expires_at_ms = SlidingExpiry(events)
  BY <1>3, Zenon
<1>5. LocalAllowed <=> SlidingAllowed
  BY DEF LocalAllowed
<1>6. Lists(admitted, ActiveEvents, now)
  BY ActiveIs
<1>7. Lists(admitted', events, now)
  <2>1. CASE SlidingAllowed
    <3>1. PICK x \in [place : Nat, at : Time] :
           /\ x.at = now /\ \A e \in ActiveEvents : e.place < x.place
           /\ Appended(ActiveEvents) = ActiveEvents \cup {x}
      BY <1>1, <1>6, AppendedIs
    <3>2. PICK a : a = Event(r)
      OBVIOUS
    <3>3. a \notin admitted /\ a.at = now /\ admitted' = admitted \cup {a} /\ IsFiniteSet(admitted)
      BY <1>5, <2>1, <3>2, ApplyEffect DEF LocalBase
    <3>4. Cardinality(ActiveEvents) < Rate
      BY <2>1 DEF SlidingAllowed
    <3>5. Lists(admitted \cup {a}, ActiveEvents \cup {x}, now)
      BY <1>1, <1>6, <3>1, <3>3, <3>4, ListsAppends
    <3> QED
      BY <1>3, <2>1, <3>1, <3>3, <3>5
  <2>2. CASE ~SlidingAllowed
    BY <1>3, <1>5, <1>6, <2>2, ApplyEffect
  <2> QED
    BY <2>1, <2>2
<1>8. SlidingExpiry(events) \in Nat /\ SlidingExpiry(events) >= now + StateTtlMs
  <2>1. SlidingReset(events) \in Nat
    <3>1. CASE events = {}
      BY <1>1, <3>1 DEF SlidingReset
    <3>2. CASE events # {}
      <4>1. First(events) \in events
        BY <1>1, <1>7, <3>2, FirstIsOldest
      <4>2. First(events).at \in Nat
        BY <1>7, <4>1 DEF Lists, Time
      <4> QED
        BY <1>1, <3>2, <4>2 DEF SlidingReset
    <3> QED
      BY <3>1, <3>2
  <2>2. PICK a \in Nat, b \in Nat : a = SlidingReset(events) /\ b = now + StateTtlMs
    BY <1>1, <2>1
  <2>3. Max({a, b}) = IF a >= b THEN a ELSE b
    BY OfTwo
  <2>4. SlidingExpiry(events) = Max({a, b})
    BY <2>2, Zenon DEF SlidingExpiry
  <2> QED
    BY <2>2, <2>3, <2>4
<1>9. ASSUME NEW e \in admitted' PROVE e.at + WindowMs <= stored'.expires_at_ms
  <2>1. e.at \in Nat /\ e.at <= now
    BY ApplyAdmits DEF EventType, Time
  <2> QED
    BY <1>1, <1>4, <1>8, <2>1
<1>10. Found'
  BY <1>1, <1>4, <1>8 DEF Found
<1>11. SlidingKept'
  BY <1>1, <1>4, <1>7, <1>8, <1>9, <1>10 DEF SlidingKept
<1> QED
  BY <1>11

\* A token is taken when there is one, and the bucket outlives its refill.
LEMMA BucketApplies ==
  ASSUME LocalBase, BucketKept, NEW r \in Request, Apply(r), algorithm = "token_bucket"
  PROVE  BucketKept'
<1> USE LimiterAssumption, LocalUnits
<1>1. now \in Time /\ now \in Nat /\ now' = now /\ StateTtlMs \in Nat /\ StateTtlMs > 0
  BY TtlType, ApplyEffect DEF LocalBase, Time
<1>2. ApplyTokenBucket(r)
  BY DEF Apply, ApplyFixedWindow, ApplySlidingWindow
<1>3. stored' = [value |-> [tokens |-> TokensLeft, last_refill_ms |-> now],
                 expires_at_ms |-> TokenExpiry]
  BY <1>2 DEF ApplyTokenBucket
<1>4. /\ stored'.value.tokens = TokensLeft /\ stored'.value.last_refill_ms = now
      /\ stored'.expires_at_ms = TokenExpiry
  BY <1>3, Zenon
<1>5. LocalAllowed <=> TokenAllowed
  BY DEF LocalAllowed
<1>6. Ledger(admitted, Available, now) /\ admitted \in SUBSET EventType /\ IsFiniteSet(admitted)
  BY AvailableIs DEF LocalBase
<1>7. Ledger(admitted', TokensLeft, now)
  <2>1. CASE TokenAllowed
    <3>1. PICK e \in EventType : e = Event(r)
      BY ApplyEffect
    <3>2. e \notin admitted /\ e.at = now /\ admitted' = admitted \cup {e}
      BY <1>5, <2>1, <3>1, ApplyEffect
    <3>3. PICK held : held = Available
      OBVIOUS
    <3>4. held >= Token /\ TokensLeft = held - Token
      BY <2>1, <3>3 DEF TokenAllowed, TokensLeft
    <3>5. Ledger(admitted \cup {e}, held - Token, now)
      BY <1>1, <1>6, <3>2, <3>3, <3>4, LedgerTakes
    <3> QED
      BY <3>2, <3>4, <3>5, Zenon
  <2>2. CASE ~TokenAllowed
    BY <1>5, <1>6, <2>2, ApplyEffect DEF TokensLeft
  <2> QED
    BY <2>1, <2>2
<1>8. TokensLeft \in Nat /\ TokensLeft <= Full
  BY <1>7 DEF Ledger
<1>9. PICK wait \in Nat : wait = Ceil(Full - TokensLeft, Rate)
  <2>1. Full - TokensLeft \in Nat
    BY <1>8
  <2> QED
    BY <2>1, CeilType
<1>10. TokenExpiry \in Nat /\ TokenExpiry > now /\ TokenExpiry >= now + wait
  <2>1. PICK a \in Nat, b \in Nat : a = now + wait + StateTtlMs /\ b = now + Second
    BY <1>1
  <2>2. Max({a, b}) = IF a >= b THEN a ELSE b
    BY OfTwo
  <2>3. TokenExpiry = Max({a, b})
    BY <1>9, <2>1, Zenon DEF TokenExpiry
  <2> QED
    BY <1>1, <2>1, <2>2, <2>3
<1>11. Found'
  BY <1>1, <1>4, <1>10 DEF Found
<1>12. now <= now
  BY <1>1
<1>13. BucketKept'
  BY <1>1, <1>4, <1>7, <1>9, <1>10, <1>11, <1>12 DEF BucketKept, Full, Token
<1> QED
  BY <1>13

\* Nothing is kept before the first request.
LEMMA LocalInitInv == LocalInit => LocalInv
<1> SUFFICES ASSUME LocalInit PROVE LocalInv
  OBVIOUS
<1> USE LimiterAssumption DEF LocalInit, LimiterInit
<1>1. now \in Time /\ 0 \in Time /\ admitted = {} /\ algorithm \in Algorithm /\ ~Found
      /\ stored.expires_at_ms \in Nat
  BY DEF Time, Found, NoState
<1>2. LocalBase
  BY <1>1, FS_EmptySet DEF LocalBase
<1>3. Ledger(admitted, Full, now)
  BY <1>1, LedgerEmpty
<1> QED
  BY <1>1, <1>2, <1>3 DEF LocalInv, FixedKept, SlidingKept, BucketKept

\* A request.
LEMMA LocalApplyInv == ASSUME LocalInv, NEW r \in Request, Apply(r) PROVE LocalInv'
<1> SUFFICES ASSUME steady PROVE LocalInv'
  BY DEF LocalInv, Apply, clock
<1>1. LocalBase
  BY DEF LocalInv
<1>2. now' = now /\ algorithm' = algorithm
  BY <1>1, ApplyEffect
<1>3. LocalBase'
  BY <1>1, <1>2, ApplyAdmits DEF LocalBase
<1>4. CASE algorithm = "fixed_window"
  <2>1. FixedKept'
    BY <1>1, <1>4, FixedApplies DEF LocalInv
  <2> QED
    BY <1>2, <1>3, <1>4, <2>1 DEF LocalInv
<1>5. CASE algorithm = "sliding_window_log"
  <2>1. WindowMs <= StateTtlMs => SlidingKept'
    BY <1>1, <1>5, SlidingApplies DEF LocalInv
  <2> QED
    BY <1>2, <1>3, <1>5, <2>1 DEF LocalInv
<1>6. CASE algorithm = "token_bucket"
  <2>1. BucketKept'
    BY <1>1, <1>6, BucketApplies DEF LocalInv
  <2> QED
    BY <1>2, <1>3, <1>6, <2>1 DEF LocalInv
<1> QED
  BY <1>1, <1>4, <1>5, <1>6 DEF LocalBase, Algorithm

\* Time passes: what is forgotten then no longer matters.
LEMMA LocalTickInv == ASSUME LocalInv, LocalClock PROVE LocalInv'
<1> SUFFICES ASSUME steady' PROVE LocalInv'
  BY DEF LocalInv
<1> USE LimiterAssumption, LocalUnits, WindowMsType
<1>1. steady /\ Tick
  BY DEF LocalClock, Tick, StepBack
<1>2. LocalBase
  BY <1>1 DEF LocalInv
<1>3. /\ now \in Time /\ now' \in Time /\ now \in Nat /\ now' = now + 1
      /\ admitted' = admitted /\ reply' = reply /\ algorithm' = algorithm /\ stored' = stored
  BY <1>1, <1>2 DEF LocalBase, LocalClock, Tick, Time
<1>4. LocalBase'
  BY <1>2, <1>3 DEF LocalBase, EventType, Time
<1>5. stored.expires_at_ms \in Nat => (Found' => Found)
  BY <1>3 DEF Found
<1>6. ASSUME FixedKept PROVE FixedKept'
  <2>1. CASE Found'
    BY <1>3, <1>5, <1>6, <2>1 DEF FixedKept, Time
  <2>2. CASE ~Found'
    <3>1. ASSUME NEW e \in admitted PROVE WindowStart(e.at) + WindowMs <= now'
      <4>1. e.at \in Time /\ WindowStart(e.at) \in Nat /\ e.at \in Nat /\ WindowStart(e.at) <= e.at
        <5>1. PICK t \in Time : t = e.at
          BY <1>2 DEF LocalBase, EventType
        <5>2. WindowStart(t) \in Time /\ WindowStart(t) <= t
          BY WindowStartBounds
        <5> QED
          BY <5>1, <5>2 DEF Time
      <4>2. CASE Found
        <5>1. PICK s \in Time :
                e.at <= s /\ stored.expires_at_ms >= WindowStart(s) + WindowMs
          BY <1>6, <4>2 DEF FixedKept
        <5>2. stored.expires_at_ms \in Nat /\ stored.expires_at_ms <= now'
          BY <1>3, <1>6, <2>2, <4>2 DEF FixedKept, Found
        <5>3. WindowStart(s) \in Nat /\ WindowStart(e.at) <= WindowStart(s)
          <6>1. WindowStart(s) \in Nat
            BY <5>1, WindowStartBounds DEF Time
          <6>2. WindowStart(s) = WindowStart(e.at) \/ WindowStart(s) > e.at
            BY <4>1, <5>1, WindowOf
          <6> QED
            BY <4>1, <6>1, <6>2
        <5> QED
          BY <1>3, <4>1, <5>1, <5>2, <5>3
      <4>3. CASE ~Found
        BY <1>3, <1>6, <4>1, <4>3 DEF FixedKept
      <4> QED
        BY <4>2, <4>3
    <3> QED
      BY <1>3, <1>6, <2>2, <3>1 DEF FixedKept
  <2> QED
    BY <2>1, <2>2
<1>7. ASSUME SlidingKept PROVE SlidingKept'
  <2>1. CASE Found'
    <3>1. Lists(admitted, stored.value, now')
      BY <1>3, <1>5, <1>7, <2>1, ListsLater DEF SlidingKept
    <3> QED
      BY <1>3, <1>5, <1>7, <2>1, <3>1 DEF SlidingKept
  <2>2. CASE ~Found'
    <3>1. ASSUME NEW e \in admitted PROVE e.at + WindowMs <= now'
      <4>1. e.at \in Nat
        BY <1>2 DEF LocalBase, EventType, Time
      <4>2. CASE Found
        <5>1. stored.expires_at_ms \in Nat /\ stored.expires_at_ms <= now'
          BY <1>3, <1>7, <2>2, <4>2 DEF SlidingKept, Found
        <5>2. e.at + WindowMs <= stored.expires_at_ms
          BY <1>7, <4>2 DEF SlidingKept
        <5> QED
          BY <1>3, <4>1, <5>1, <5>2
      <4>3. CASE ~Found
        BY <1>3, <1>7, <4>1, <4>3 DEF SlidingKept
      <4> QED
        BY <4>2, <4>3
    <3> QED
      BY <1>3, <1>7, <2>2, <3>1 DEF SlidingKept
  <2> QED
    BY <2>1, <2>2
<1>8. ASSUME BucketKept PROVE BucketKept'
  <2>0. admitted \in SUBSET EventType /\ IsFiniteSet(admitted)
    BY <1>2 DEF LocalBase
  <2>1. CASE Found'
    BY <1>3, <1>5, <1>8, <2>1 DEF BucketKept, Time, Full, Token
  <2>2. CASE ~Found'
    <3>1. CASE Found
      <4>1. PICK held, last : held = stored.value.tokens /\ last = stored.value.last_refill_ms
        OBVIOUS
      <4>2. /\ last \in Time /\ last <= now /\ Ledger(admitted, held, last) /\ last \in Nat
            /\ stored.expires_at_ms \in Nat
            /\ stored.expires_at_ms >= last + Ceil(Full - held, Rate)
        BY <1>8, <3>1, <4>1 DEF BucketKept, Time
      <4>3. held \in Nat /\ held <= Full
        BY <4>2 DEF Ledger
      <4>4. PICK short \in Nat, d \in Nat : short = Full - held /\ d = now' - last
        BY <1>3, <4>2, <4>3
      <4>5. PICK wait \in Nat : wait = Ceil(short, Rate)
        BY CeilType
      <4>6. stored.expires_at_ms <= now' /\ stored.expires_at_ms >= last + wait
        BY <1>3, <2>2, <4>2, <4>4, <4>5 DEF Found
      <4>7. d >= wait
        BY <1>3, <4>2, <4>4, <4>5, <4>6
      <4>8. Rate * d \in Nat /\ Rate * d >= short
        BY <4>4, <4>5, <4>7, FlowFills
      <4>9. Full = IF held + Rate * (now' - last) < Full THEN held + Rate * (now' - last) ELSE Full
        BY <4>3, <4>4, <4>8
      <4>10. last <= now'
        BY <1>3, <4>2
      <4>11. Ledger(admitted, Full, now')
        BY <1>3, <2>0, <4>2, <4>9, <4>10, LedgerPours
      <4> QED
        BY <1>3, <1>8, <2>2, <4>11 DEF BucketKept, Full, Token
    <3>2. CASE ~Found
      <4>1. Ledger(admitted, Full, now)
        BY <1>8, <3>2 DEF BucketKept
      <4>2. Rate * (now' - now) \in Nat /\ now <= now'
        BY <1>3
      <4>3. Full = IF Full + Rate * (now' - now) < Full THEN Full + Rate * (now' - now) ELSE Full
        BY <4>2
      <4>4. Ledger(admitted, Full, now')
        BY <1>3, <2>0, <4>1, <4>2, <4>3, LedgerPours
      <4> QED
        BY <1>3, <1>8, <2>2, <4>4 DEF BucketKept, Full, Token
    <3> QED
      BY <3>1, <3>2
  <2> QED
    BY <2>1, <2>2
<1> QED
  BY <1>1, <1>3, <1>4, <1>6, <1>7, <1>8 DEF LocalInv

\* An entry that is evicted is one that would not have been found.
LEMMA LocalEvictInv == ASSUME LocalInv, EvictExpired PROVE LocalInv'
<1> SUFFICES ASSUME steady PROVE LocalInv'
  BY DEF LocalInv, EvictExpired, clock
<1>1. /\ now' = now /\ admitted' = admitted /\ reply' = reply /\ algorithm' = algorithm
      /\ stored' = NoState /\ ~Found
  BY DEF EvictExpired, clock
<1>2. LocalBase /\ now \in Nat
  BY DEF LocalInv, LocalBase, Time
<1>3. LocalBase'
  BY <1>1, <1>2 DEF LocalBase
<1>4. ~Found' /\ stored'.expires_at_ms \in Nat
  BY <1>1, <1>2 DEF Found, NoState
<1>5. (FixedKept => FixedKept') /\ (SlidingKept => SlidingKept') /\ (BucketKept => BucketKept')
  BY <1>1, <1>4 DEF FixedKept, SlidingKept, BucketKept, Full, Token
<1> QED
  BY <1>1, <1>3, <1>5 DEF LocalInv

\* clear() starts afresh.
LEMMA LocalClearInv == ASSUME LocalInv, Clear PROVE LocalInv'
<1> SUFFICES ASSUME steady PROVE LocalInv'
  BY DEF LocalInv, Clear, clock
<1>1. /\ now' = now /\ admitted' = {} /\ reply' = reply /\ algorithm' = algorithm
      /\ stored' = NoState
  BY DEF Clear, clock
<1>2. LocalBase /\ now \in Nat /\ now \in Time
  BY DEF LocalInv, LocalBase, Time
<1>3. LocalBase'
  BY <1>1, <1>2, FS_EmptySet DEF LocalBase
<1>4. ~Found' /\ stored'.expires_at_ms \in Nat
  BY <1>1, <1>2 DEF Found, NoState
<1>5. FixedKept' /\ SlidingKept'
  BY <1>1, <1>4 DEF FixedKept, SlidingKept
<1>6. BucketKept'
  BY <1>1, <1>2, <1>4, LedgerEmpty DEF BucketKept, Full, Token
<1> QED
  BY <1>3, <1>5, <1>6 DEF LocalInv

\* The invariant holds throughout.
LEMMA LocalInvariance == LocalSpec => []LocalInv
<1>1. LocalInv /\ [LocalNext]_localVars => LocalInv'
  <2> SUFFICES ASSUME LocalInv, [LocalNext]_localVars PROVE LocalInv'
    OBVIOUS
  <2>1. CASE UNCHANGED localVars
    BY <2>1 DEF localVars, clock, LocalInv, LocalBase, Found, FixedKept, SlidingKept, BucketKept,
                Full, Token
  <2> QED
    BY <2>1, LocalTickInv, LocalEvictInv, LocalClearInv, LocalApplyInv DEF LocalNext
<1> QED
  BY <1>1, LocalInitInv, PTL DEF LocalSpec

(***************************************************************************)
(* Whatever the rate, the window and the time entries are kept, what the   *)
(* limiter has in memory decides as all its admissions would, as long as   *)
(* its clock is not set back: neither the time to live of an entry nor an  *)
(* eviction by another key's request opens or closes a place.  A sliding   *)
(* log needs a time to live that is no shorter than its window.            *)
(***************************************************************************)
THEOREM MemoryHolds == LocalSpec => [](KeepsLongEnough => MemoryDecides)
<1>1. LocalInv => (KeepsLongEnough => MemoryDecides)
  BY MemoryAgrees DEF MemoryDecides
<1> QED
  BY <1>1, LocalInvariance, PTL

\* What a limiter that remembers everything does, under any algorithm.
RoomPasses ==
  now' = now + 1 /\ UNCHANGED <<steady, cleared, algorithm, admitted, reply>>

RoomAdmits(r) ==
  /\ Room(admitted, now)
  /\ admitted' = admitted \cup {[id |-> r, at |-> now]}
  /\ reply'.allowed = TRUE /\ reply'.at = now
  /\ UNCHANGED <<now, steady, cleared, algorithm>>

RoomRefuses ==
  /\ ~Room(admitted, now)
  /\ reply'.allowed = FALSE /\ reply'.at = now
  /\ UNCHANGED <<now, steady, cleared, algorithm, admitted>>

RoomIdles == UNCHANGED <<now, steady, cleared, algorithm, admitted, reply>>

\* It is what the fallback does while a promise binds.
LEMMA LocalPromise ==
  ASSUME LocalInv, [LocalNext]_localVars, KeepsLongEnough, steady', ~cleared'
  PROVE  RoomPasses \/ RoomRefuses \/ RoomIdles \/ \E r \in Request : RoomAdmits(r)
<1>1. CASE LocalClock
  <2>1. Tick
    BY <1>1 DEF LocalClock, StepBack
  <2> QED
    BY <1>1, <2>1 DEF LocalClock, Tick, RoomPasses
<1>2. CASE EvictExpired \/ UNCHANGED localVars
  BY <1>2 DEF EvictExpired, localVars, clock, RoomIdles
<1>3. CASE Clear
  BY <1>3 DEF Clear
<1>4. ASSUME NEW r \in Request, Apply(r) PROVE RoomAdmits(r) \/ RoomRefuses
  <2>1. steady
    BY <1>4 DEF Apply, clock
  <2>2. LocalBase
    BY <2>1 DEF LocalInv
  <2>3. /\ now' = now /\ steady' = steady /\ algorithm' = algorithm /\ cleared' = cleared
        /\ LocalAllowed \in BOOLEAN
        /\ reply'.allowed = LocalAllowed /\ reply'.at = now
        /\ admitted' = IF LocalAllowed THEN admitted \cup {Event(r)} ELSE admitted
    BY <1>4, <2>2, ApplyEffect
  <2>4. LocalAllowed <=> Room(admitted, now)
    BY <2>1, MemoryAgrees
  <2>5. CASE LocalAllowed
    BY <2>3, <2>4, <2>5, Zenon DEF Event, RoomAdmits
  <2>6. CASE ~LocalAllowed
    BY <2>3, <2>4, <2>6, Zenon DEF RoomRefuses
  <2> QED
    BY <2>5, <2>6
<1> QED
  BY <1>1, <1>2, <1>3, <1>4 DEF LocalNext

\* Its fixed windows are a limiter that remembers everything.
LEMMA FixedWindowRefines == LocalSpec => FixedWindowPromise!Spec
<1>1. LocalInit => FixedWindowPromise!Init
  BY DEF LocalInit, LimiterInit, FixedWindowPromise!Init
<1>2. LocalInv /\ [LocalNext]_localVars =>
        [(steady /\ ~cleared /\ algorithm = "fixed_window")'
           => FixedWindowPromise!Next]_FixedWindowPromise!vars
  <2> SUFFICES ASSUME LocalInv, [LocalNext]_localVars,
                      steady', ~cleared', algorithm' = "fixed_window"
               PROVE  [FixedWindowPromise!Next]_FixedWindowPromise!vars
    BY DEF FixedWindowPromise!vars
  <2>1. algorithm = "fixed_window"
    BY DEF LocalNext, LocalClock, EvictExpired, Clear, Apply, localVars
  <2>2. KeepsLongEnough /\ (Room(admitted, now) <=> FixedWindowRoom(admitted, now))
    BY <2>1 DEF KeepsLongEnough, Room
  <2>3. CASE RoomPasses
    BY <2>3 DEF RoomPasses, FixedWindowPromise!Next, FixedWindowPromise!Tick
  <2>4. CASE RoomRefuses
    BY <2>2, <2>4, Zenon DEF RoomRefuses, FixedWindowPromise!Next, FixedWindowPromise!Refuse
  <2>5. CASE RoomIdles
    BY <2>5 DEF RoomIdles, FixedWindowPromise!vars
  <2>6. ASSUME NEW r \in Request, RoomAdmits(r) PROVE FixedWindowPromise!Next
    BY <2>2, <2>6, Zenon DEF RoomAdmits, FixedWindowPromise!Next, FixedWindowPromise!Admit
  <2> QED
    BY <2>2, <2>3, <2>4, <2>5, <2>6, LocalPromise
<1> QED
  BY <1>1, <1>2, LocalInvariance, PTL DEF LocalSpec, FixedWindowPromise!Spec

\* So is its sliding log, if it is kept for a window at least.
LEMMA SlidingWindowRefines ==
  ASSUME WindowMs <= StateTtlMs PROVE LocalSpec => SlidingWindowPromise!Spec
<1>1. LocalInit => SlidingWindowPromise!Init
  BY DEF LocalInit, LimiterInit, SlidingWindowPromise!Init
<1>2. LocalInv /\ [LocalNext]_localVars =>
        [(steady /\ ~cleared /\ algorithm = "sliding_window_log")'
           => SlidingWindowPromise!Next]_SlidingWindowPromise!vars
  <2> SUFFICES ASSUME LocalInv, [LocalNext]_localVars,
                      steady', ~cleared', algorithm' = "sliding_window_log"
               PROVE  [SlidingWindowPromise!Next]_SlidingWindowPromise!vars
    BY DEF SlidingWindowPromise!vars
  <2>1. algorithm = "sliding_window_log"
    BY DEF LocalNext, LocalClock, EvictExpired, Clear, Apply, localVars
  <2>2. KeepsLongEnough /\ (Room(admitted, now) <=> TrailingRoom(admitted, now))
    BY <2>1 DEF KeepsLongEnough, Room
  <2>3. CASE RoomPasses
    BY <2>3 DEF RoomPasses, SlidingWindowPromise!Next, SlidingWindowPromise!Tick
  <2>4. CASE RoomRefuses
    BY <2>2, <2>4, Zenon DEF RoomRefuses, SlidingWindowPromise!Next, SlidingWindowPromise!Refuse
  <2>5. CASE RoomIdles
    BY <2>5 DEF RoomIdles, SlidingWindowPromise!vars
  <2>6. ASSUME NEW r \in Request, RoomAdmits(r) PROVE SlidingWindowPromise!Next
    BY <2>2, <2>6, Zenon DEF RoomAdmits, SlidingWindowPromise!Next, SlidingWindowPromise!Admit
  <2> QED
    BY <2>2, <2>3, <2>4, <2>5, <2>6, LocalPromise
<1> QED
  BY <1>1, <1>2, LocalInvariance, PTL DEF LocalSpec, SlidingWindowPromise!Spec

\* So is its bucket.
LEMMA TokenBucketRefines == LocalSpec => TokenBucketPromise!Spec
<1>1. LocalInit => TokenBucketPromise!Init
  BY DEF LocalInit, LimiterInit, TokenBucketPromise!Init
<1>2. LocalInv /\ [LocalNext]_localVars =>
        [(steady /\ ~cleared /\ algorithm = "token_bucket")'
           => TokenBucketPromise!Next]_TokenBucketPromise!vars
  <2> SUFFICES ASSUME LocalInv, [LocalNext]_localVars,
                      steady', ~cleared', algorithm' = "token_bucket"
               PROVE  [TokenBucketPromise!Next]_TokenBucketPromise!vars
    BY DEF TokenBucketPromise!vars
  <2>1. algorithm = "token_bucket"
    BY DEF LocalNext, LocalClock, EvictExpired, Clear, Apply, localVars
  <2>2. KeepsLongEnough /\ (Room(admitted, now) <=> CapacityRoom(admitted, now))
    BY <2>1 DEF KeepsLongEnough, Room, CapacityRoom
  <2>3. CASE RoomPasses
    BY <2>3 DEF RoomPasses, TokenBucketPromise!Next, TokenBucketPromise!Tick
  <2>4. CASE RoomRefuses
    BY <2>2, <2>4, Zenon DEF RoomRefuses, TokenBucketPromise!Next, TokenBucketPromise!Refuse
  <2>5. CASE RoomIdles
    BY <2>5 DEF RoomIdles, TokenBucketPromise!vars
  <2>6. ASSUME NEW r \in Request, RoomAdmits(r) PROVE TokenBucketPromise!Next
    BY <2>2, <2>6, Zenon DEF RoomAdmits, TokenBucketPromise!Next, TokenBucketPromise!Admit
  <2> QED
    BY <2>2, <2>3, <2>4, <2>5, <2>6, LocalPromise
<1> QED
  BY <1>1, <1>2, LocalInvariance, PTL DEF LocalSpec, TokenBucketPromise!Spec

(***************************************************************************)
(* Until it is cleared or its clock set back, the fallback of an instance, *)
(* under each of its algorithms, is a limiter that remembers every         *)
(* admission, provided that entries are kept for a window at least.        *)
(***************************************************************************)
THEOREM LocalRefinement ==
  ASSUME WindowMs <= StateTtlMs PROVE LocalSpec => LocalImplementsQuota
  BY FixedWindowRefines, SlidingWindowRefines, TokenBucketRefines DEF LocalImplementsQuota
-----------------------------------------------------------------------------
\* A fixed window has room again when it is over.
LEMMA FixedWaits ==
  ASSUME LocalBase, FixedKept, ~FixedWindowAllowed, NEW t \in Time, now <= t
  PROVE  /\ (WindowStart(now) + WindowMs) - now \in Nat
         /\ FixedWindowRoom(admitted, t) <=> t - now >= (WindowStart(now) + WindowMs) - now
<1> DEFINE w == WindowStart(now)
<1>1. /\ now \in Time /\ now \in Nat /\ t \in Nat /\ WindowMs \in Nat
      /\ w \in Nat /\ w <= now /\ now < w + WindowMs
  BY WindowStartBounds, WindowMsType DEF LocalBase, Time
<1>2. Cardinality(InWindow(admitted, w)) >= Rate
  <2>1. FixedWindowState.count = Cardinality(InWindow(admitted, w))
    BY FixedStateIs
  <2>2. Cardinality(InWindow(admitted, w)) \in Nat
    BY FS_Subset, FS_CardinalityType DEF LocalBase, InWindow
  <2> QED
    BY <2>1, <2>2, LimiterAssumption DEF FixedWindowAllowed
<1>3. Cardinality(InWindow(admitted, w)) \in Nat
  BY FS_Subset, FS_CardinalityType DEF LocalBase, InWindow
<1>4. CASE t < w + WindowMs
  <2>1. WindowStart(t) = w
    BY <1>1, <1>4, WindowOf
  <2>2. ~FixedWindowRoom(admitted, t)
    BY <1>2, <1>3, <2>1, LimiterAssumption DEF FixedWindowRoom
  <2> QED
    BY <1>1, <1>4, <2>2
<1>5. CASE ~(t < w + WindowMs)
  <2>1. WindowStart(t) > now /\ WindowStart(t) \in Nat
    BY <1>1, <1>5, WindowOf, WindowStartBounds DEF Time
  <2>2. ASSUME NEW e \in admitted PROVE WindowStart(e.at) # WindowStart(t)
    <3>1. PICK s \in Time : s = e.at /\ s <= now
      BY DEF LocalBase, EventType
    <3>2. WindowStart(s) \in Time /\ WindowStart(s) <= s
      BY WindowStartBounds
    <3> QED
      BY <1>1, <2>1, <3>1, <3>2 DEF Time
  <2>3. InWindow(admitted, WindowStart(t)) = {}
    BY <2>2 DEF InWindow
  <2>4. FixedWindowRoom(admitted, t)
    BY <2>3, FS_EmptySet, LimiterAssumption DEF FixedWindowRoom
  <2> QED
    BY <1>1, <1>5, <2>4
<1> QED
  BY <1>4, <1>5

\* A full list has room again when its first entry leaves the window.
LEMMA SlidingWaits ==
  ASSUME LocalBase, SlidingKept, ~SlidingAllowed, NEW t \in Time, now <= t
  PROVE  LET wait == Max({0, SlidingReset(ActiveEvents) - now})
         IN  wait \in Nat /\ (TrailingRoom(admitted, t) <=> t - now >= wait)
<1>1. now \in Time /\ now \in Nat /\ t \in Nat /\ WindowMs \in Nat
  BY WindowMsType DEF LocalBase, Time
<1>2. PICK active : active = ActiveEvents
  OBVIOUS
<1>3. Lists(admitted, active, now) /\ \A e \in active : e.at > now - WindowMs
  BY <1>2, ActiveIs
<1>4. IsFiniteSet(active) /\ Cardinality(active) \in Nat /\ Cardinality(active) <= Rate
  BY <1>3, FS_CardinalityType DEF Lists
<1>5. Cardinality(active) = Rate
  BY <1>2, <1>4, LimiterAssumption DEF SlidingAllowed
<1>6. active # {}
  BY <1>5, FS_EmptySet, LimiterAssumption
<1>7. PICK f : f = First(active)
  OBVIOUS
<1>8. f \in active /\ \A e \in active : f.at <= e.at
  BY <1>1, <1>3, <1>6, <1>7, FirstIsOldest
<1>9. f.at \in Nat /\ f.at > now - WindowMs /\ \A e \in active : e.at \in Nat
  BY <1>3, <1>8 DEF Lists, Time
<1>10. SlidingReset(active) = f.at + WindowMs
  BY <1>6, <1>7 DEF SlidingReset
<1>11. Max({0, SlidingReset(active) - now}) = (f.at + WindowMs) - now
  <2>1. PICK d \in Nat : d = (f.at + WindowMs) - now
    BY <1>1, <1>9
  <2>2. Max({0, d}) = IF 0 >= d THEN 0 ELSE d
    BY OfTwo
  <2> QED
    BY <1>10, <2>1, <2>2
<1>12. TrailingRoom(admitted, t) <=> Cardinality({e \in active : e.at > t - WindowMs}) < Rate
  BY <1>1, <1>3, ListsDecides
<1>13. CASE t < f.at + WindowMs
  <2>1. {e \in active : e.at > t - WindowMs} = active
    BY <1>1, <1>8, <1>9, <1>13
  <2>2. ~TrailingRoom(admitted, t)
    BY <1>4, <1>5, <1>12, <2>1, LimiterAssumption
  <2> QED
    BY <1>1, <1>2, <1>9, <1>11, <1>13, <2>2
<1>14. CASE ~(t < f.at + WindowMs)
  <2>1. {e \in active : e.at > t - WindowMs} \in SUBSET (active \ {f})
    BY <1>1, <1>9, <1>14
  <2>2. IsFiniteSet(active \ {f}) /\ Cardinality(active \ {f}) = Cardinality(active) - 1
    BY <1>4, <1>8, FS_RemoveElement
  <2>3. /\ Cardinality({e \in active : e.at > t - WindowMs}) \in Nat
        /\ Cardinality({e \in active : e.at > t - WindowMs}) <= Cardinality(active \ {f})
    BY <2>1, <2>2, FS_Subset, FS_CardinalityType
  <2>4. TrailingRoom(admitted, t)
    BY <1>4, <1>5, <1>12, <2>2, <2>3, LimiterAssumption
  <2> QED
    BY <1>1, <1>2, <1>9, <1>11, <1>14, <2>4
<1> QED
  BY <1>13, <1>14

\* A bucket has a token again when what is missing has flowed in.
LEMMA BucketWaits ==
  ASSUME LocalBase, BucketKept, ~TokenAllowed, NEW t \in Time, now <= t
  PROVE  TokenRetryMs \in Nat /\ (BucketRoom(Capacity, admitted, t) <=> t - now >= TokenRetryMs)
<1> USE LimiterAssumption, LocalUnits
<1>1. /\ now \in Time /\ now \in Nat /\ t \in Nat
      /\ admitted \in SUBSET EventType /\ IsFiniteSet(admitted)
  BY DEF LocalBase, Time
<1>2. PICK held : held = Available
  OBVIOUS
<1>3. Ledger(admitted, held, now) /\ held \in Nat /\ held < Token
  BY <1>2, AvailableIs DEF Ledger, TokenAllowed
<1>4. PICK d \in Nat, short \in Nat : d = t - now /\ short = Token - held
  BY <1>1, <1>3
<1>5. TokenRetryMs = Ceil(short, Rate) /\ Ceil(short, Rate) \in Nat
  BY <1>2, <1>4, CeilType DEF TokenRetryMs
<1>6. Rate * d \in Nat /\ (d >= Ceil(short, Rate) <=> Rate * d >= short)
  BY <1>4, FlowFills
<1>7. PICK got : got = IF held + Rate * (t - now) < Full THEN held + Rate * (t - now) ELSE Full
  OBVIOUS
<1>8. Ledger(admitted, got, t)
  BY <1>1, <1>3, <1>7, LedgerPours
<1>9. got >= Token <=> Rate * d >= short
  BY <1>3, <1>4, <1>6, <1>7
<1>10. BucketRoom(Capacity, admitted, t) <=> got >= Token
  BY <1>1, <1>8, LedgerDecides
<1> QED
  BY <1>4, <1>5, <1>6, <1>9, <1>10

\* There is room again when the wait is over, and no sooner.
LEMMA WaitIsExact ==
  ASSUME LocalInv, steady, KeepsLongEnough, ~LocalAllowed, NEW t \in Time, now <= t
  PROVE  RetryMs \in Nat /\ (Room(admitted, t) <=> t - now >= RetryMs)
<1>1. LocalBase /\ algorithm \in Algorithm
  BY DEF LocalInv, LocalBase
<1>2. CASE algorithm = "fixed_window"
  <2>1. FixedKept /\ ~FixedWindowAllowed
    BY <1>2 DEF LocalInv, LocalAllowed
  <2>2. /\ RetryMs = (WindowStart(now) + WindowMs) - now
        /\ Room(admitted, t) <=> FixedWindowRoom(admitted, t)
    BY <1>2 DEF RetryMs, Room
  <2> QED
    BY <1>1, <2>1, <2>2, FixedWaits
<1>3. CASE algorithm = "sliding_window_log"
  <2>1. SlidingKept /\ ~SlidingAllowed
    BY <1>3 DEF LocalInv, LocalAllowed, KeepsLongEnough
  <2>2. /\ RetryMs = Max({0, SlidingReset(ActiveEvents) - now})
        /\ Room(admitted, t) <=> TrailingRoom(admitted, t)
    BY <1>3 DEF RetryMs, Room
  <2> QED
    BY <1>1, <2>1, <2>2, SlidingWaits
<1>4. CASE algorithm = "token_bucket"
  <2>1. BucketKept /\ ~TokenAllowed
    BY <1>4 DEF LocalInv, LocalAllowed
  <2>2. RetryMs = TokenRetryMs /\ (Room(admitted, t) <=> BucketRoom(Capacity, admitted, t))
    BY <1>4 DEF RetryMs, Room
  <2> QED
    BY <1>1, <2>1, <2>2, BucketWaits
<1> QED
  BY <1>1, <1>2, <1>3, <1>4 DEF Algorithm

\* What the last answer says of all the time after it.
ReplyKept ==
  ~cleared /\ ~reply.allowed =>
    \A t \in Time : reply.at <= t =>
      /\ t >= reply.at + reply.retry_after * Second => Room(admitted, t)
      /\ t <= (reply.at + reply.retry_after * Second) - Second => ~Room(admitted, t)

LocalReplyInv == steady /\ KeepsLongEnough => ReplyKept

\* A refusal tells when there is room again.
LEMMA LocalApplyReply ==
  ASSUME LocalInv, NEW r \in Request, Apply(r) PROVE LocalReplyInv'
<1> SUFFICES ASSUME steady, KeepsLongEnough, ~reply'.allowed PROVE ReplyKept'
  BY DEF LocalReplyInv, ReplyKept, KeepsLongEnough, StateTtlMs, Apply, clock
<1>1. LocalBase
  BY DEF LocalInv
<1>2. ~LocalAllowed
  BY <1>1, ApplyEffect
<1>3. /\ reply'.at = now /\ reply'.retry_after = Ceil(RetryMs, Second)
      /\ admitted' = admitted /\ algorithm' = algorithm
  BY <1>1, <1>2, ApplyEffect
<1>4. now \in Time /\ now \in Nat
  BY <1>1 DEF LocalBase, Time
<1>5. \A t : Room(admitted, t)' <=> Room(admitted, t)
  BY <1>3 DEF Room
<1>6. ASSUME NEW t \in Time, now <= t
      PROVE  /\ t >= now + reply'.retry_after * Second => Room(admitted, t)
             /\ t <= (now + reply'.retry_after * Second) - Second => ~Room(admitted, t)
  <2>1. RetryMs \in Nat /\ (Room(admitted, t) <=> t - now >= RetryMs)
    BY <1>2, <1>6, WaitIsExact
  <2>2. PICK ms \in Nat : ms = reply'.retry_after * Second /\ ms >= RetryMs /\ ms - Second < RetryMs
    BY <1>3, <2>1, WholeSeconds, Zenon
  <2>3. t \in Nat
    BY DEF Time
  <2>4. t >= now + ms => t - now >= RetryMs
    BY <1>4, <2>1, <2>2, <2>3
  <2>5. t <= (now + ms) - Second => ~(t - now >= RetryMs)
    BY <1>4, <2>1, <2>2, <2>3, LimiterAssumption
  <2> QED
    BY <2>1, <2>2, <2>4, <2>5
<1> QED
  BY <1>3, <1>5, <1>6 DEF ReplyKept

\* Nothing but clear() makes it wrong.
LEMMA LocalReplyHolds == LocalSpec => []LocalReplyInv
<1>1. LocalInit => LocalReplyInv
  BY DEF LocalInit, LimiterInit, LocalReplyInv, ReplyKept
<1>2. LocalInv /\ LocalReplyInv /\ [LocalNext]_localVars => LocalReplyInv'
  <2> SUFFICES ASSUME LocalInv, LocalReplyInv, [LocalNext]_localVars PROVE LocalReplyInv'
    OBVIOUS
  <2>1. CASE LocalClock \/ EvictExpired \/ UNCHANGED localVars
    <3>1. (steady' => steady) /\ UNCHANGED <<admitted, reply, algorithm, cleared>>
      BY <2>1 DEF LocalClock, Tick, StepBack, EvictExpired, localVars, clock
    <3> QED
      BY <3>1 DEF LocalReplyInv, ReplyKept, KeepsLongEnough, StateTtlMs, Room
  <2>2. CASE Clear
    BY <2>2 DEF Clear, LocalReplyInv, ReplyKept
  <2> QED
    BY <2>1, <2>2, LocalApplyReply DEF LocalNext
<1> QED
  BY <1>1, <1>2, LocalInvariance, PTL DEF LocalSpec

(***************************************************************************)
(* A client of the fallback that waits for Retry-After is let through, and *)
(* would not have been a second sooner, under each algorithm and for every *)
(* rate, window and capacity, until the limiter is cleared or its clock    *)
(* set back.                                                               *)
(***************************************************************************)
THEOREM RetryAfterHolds == LocalSpec => [](KeepsLongEnough => RetryAfterExact)
<1>1. ASSUME LocalInv, LocalReplyInv PROVE KeepsLongEnough => RetryAfterExact
  <2> SUFFICES ASSUME KeepsLongEnough, steady, ~cleared, ~reply.allowed PROVE RetryAfterExact
    BY DEF RetryAfterExact
  <2>1. now \in Time /\ reply.at <= now
    BY <1>1 DEF LocalInv, LocalBase
  <2>2. /\ now >= reply.at + reply.retry_after * Second => Room(admitted, now)
        /\ now <= (reply.at + reply.retry_after * Second) - Second => ~Room(admitted, now)
    BY <1>1, <2>1 DEF LocalReplyInv, ReplyKept
  <2>3. LocalAllowed <=> Room(admitted, now)
    BY <1>1, MemoryAgrees
  <2> QED
    BY <2>2, <2>3 DEF RetryAfterExact
<1> QED
  BY <1>1, LocalInvariance, LocalReplyHolds, PTL
=============================================================================
