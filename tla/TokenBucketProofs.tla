------------------------- MODULE TokenBucketProofs -------------------------
(***************************************************************************)
(* Proofs about TokenBucket, for every rate, capacity, window and horizon, *)
(* and a clock that falls behind by half a window at most.  What makes     *)
(* RateBound inductive is Paid: what was taken since any moment, and what  *)
(* is held, never come to more than a full bucket and what flowed in until *)
(* the bucket was last refilled.                                           *)
(***************************************************************************)
EXTENDS TokenBucket, LimiterProofs

\* A full bucket holds at least one token.
LEMMA Units ==
  /\ Token \in Nat \ {0} /\ Full \in Nat /\ Token <= Full
  /\ Ceil(Full, Rate) \in Nat /\ TtlMs \in Nat /\ TtlMs = Ceil(Full, Rate) + Token
<1>1. Token \in Nat \ {0}
  BY WindowMsType DEF Token
<1>2. ASSUME NEW c \in Nat \ {0}, NEW w \in Nat PROVE c * w \in Nat /\ w <= c * w
  OBVIOUS
<1>3. Full \in Nat /\ Token <= Full
  BY <1>1, <1>2, TokenBucketAssumption DEF Full
<1>4. Ceil(Full, Rate) \in Nat
  BY <1>3, CeilType, LimiterAssumption
<1> QED
  BY <1>1, <1>3, <1>4 DEF TtlMs, Token

-----------------------------------------------------------------------------
\* The admissions from s on.
Since(s) == {e \in admitted : e.at >= s}

TypeOK ==
  /\ LimiterTypeOK
  /\ tokens \in Nat /\ tokens <= Full
  /\ last_refill_ms \in Time
  /\ expireAt \in Nat \cup {-1}

(***************************************************************************)
(* A key that was used lives long enough for its bucket to fill up, even   *)
(* if the clock that set its time to live was behind its last refill.      *)
(***************************************************************************)
KeyLives ==
  IF expireAt = -1
  THEN admitted # {} => peak > last_refill_ms - MaxSkew + TtlMs
  ELSE admitted # {} /\ expireAt >= last_refill_ms - MaxSkew + TtlMs

Paid ==
  \A s \in Time : Since(s) # {} =>
    /\ s <= last_refill_ms
    /\ Token * Cardinality(Since(s)) + tokens <= Full + Rate * (last_refill_ms - s)

Inv ==
  /\ TypeOK
  /\ IsFiniteSet(admitted)
  /\ ClockInv
  /\ last_refill_ms <= peak
  /\ KeyLives
  /\ Paid
  /\ RateBound

\* The times and amounts that an evaluation reads.
LEMMA StateTypes ==
  ASSUME Inv
  PROVE  /\ now \in Nat /\ peak \in Nat /\ MaxSkew \in Nat /\ last_refill_ms \in Nat
         /\ tokens \in Nat /\ tokens <= Full /\ expireAt \in Int /\ expireAt >= -1
         /\ now <= peak /\ peak <= now + MaxSkew /\ last_refill_ms <= peak
         /\ 2 * MaxSkew <= Token + 1
  BY LimiterAssumption, TokenBucketAssumption
     DEF Inv, TypeOK, LimiterTypeOK, ClockInv, Time, Token

(***************************************************************************)
(* A refill adds what flowed in since the last one, up to a full bucket:   *)
(* a key that is gone would have been full by now, so nothing is lost and  *)
(* nothing gained by starting over.                                        *)
(***************************************************************************)
LEMMA RefillEffect ==
  ASSUME Inv
  PROVE  /\ Refilled \in Nat /\ Refilled <= Full
         /\ Stamp \in Nat /\ now <= Stamp /\ Stamp <= peak
         /\ admitted = {} => Refilled = Full
         /\ admitted # {} =>
              /\ last_refill_ms <= Stamp
              /\ Refilled = IF tokens + Rate * (Stamp - last_refill_ms) < Full
                            THEN tokens + Rate * (Stamp - last_refill_ms) ELSE Full
<1> USE StateTypes, Units
<1>1. CASE Found
  <2>1. expireAt # -1
    BY <1>1 DEF Found
  <2>2. admitted # {}
    BY <2>1 DEF Inv, KeyLives
  <2>3. LastRefill = last_refill_ms
    BY <1>1 DEF LastRefill
  <2>4. CASE now > last_refill_ms
    <3>1. PICK due : due = tokens + (now - last_refill_ms) * Rate
      OBVIOUS
    <3>2. due \in Nat /\ due = tokens + Rate * (now - last_refill_ms)
      BY <2>4, <3>1, LimiterAssumption
    <3>3. Stamp = now /\ Refilled = IF due < Full THEN due ELSE Full
      BY <1>1, <2>3, <2>4, <3>1 DEF Stamp, Refilled
    <3> QED
      BY <2>2, <2>4, <3>2, <3>3
  <2>5. CASE ~(now > last_refill_ms)
    <3>1. Stamp = last_refill_ms /\ Refilled = tokens
      BY <1>1, <2>3, <2>5 DEF Stamp, Refilled
    <3>2. Rate * (last_refill_ms - last_refill_ms) = 0
      BY LimiterAssumption
    <3> QED
      BY <2>2, <2>5, <3>1, <3>2
  <2> QED
    BY <2>4, <2>5
<1>2. CASE ~Found
  <2>1. LastRefill = now /\ Stamp = now /\ Refilled = Full
    BY <1>2 DEF LastRefill, Stamp, Refilled
  <2>2. ASSUME admitted # {}
        PROVE  /\ last_refill_ms <= now
               /\ ~(tokens + Rate * (now - last_refill_ms) < Full)
    <3>1. now - last_refill_ms >= Ceil(Full, Rate)
      BY <1>2, <2>2 DEF Found, Inv, KeyLives
    <3>2. PICK d \in Nat : d = now - last_refill_ms
      BY <3>1
    <3>3. Rate * d \in Nat /\ Rate * d >= Full
      BY <3>1, <3>2, FlowFills
    <3> QED
      BY <3>2, <3>3
  <2> QED
    BY <2>1, <2>2
<1> QED
  BY <1>1, <1>2

\* The answer is a decision that takes a token when there is one.
LEMMA VerdictFields ==
  ASSUME Inv
  PROVE  /\ Left \in Nat /\ Left <= Full
         /\ Verdict \in DecisionType
         /\ Verdict.allowed = Allowed
         /\ Verdict.at = now
         /\ Verdict.remaining = Left \div Token
         /\ Verdict.reset_at = Ceil(now + Ceil(Full - Left, Rate), Second)
         /\ ~Allowed => Verdict.retry_after = Ceil(Ceil(Token - Refilled, Rate), Second)
<1> DEFINE remaining == Left \div Token
           reset == now + Ceil(Full - Left, Rate)
           retry == IF Allowed THEN 0 ELSE Ceil(Token - Refilled, Rate)
<1>0. now \in Nat /\ Token \in Nat \ {0} /\ Full \in Nat /\ Token <= Full
  BY StateTypes, Units
<1>1. Refilled \in Nat /\ Refilled <= Full
  BY RefillEffect
<1>2. Allowed \in BOOLEAN /\ Left \in Nat /\ Left <= Full
  BY <1>0, <1>1 DEF Allowed, Left
<1>3. remaining \in Nat
  BY <1>0, <1>2
<1>4. reset \in Nat
  <2>1. Full - Left \in Nat
    BY <1>0, <1>2
  <2>2. Ceil(Full - Left, Rate) \in Nat
    BY <2>1, CeilType, LimiterAssumption
  <2> QED
    BY <1>0, <2>2
<1>5. retry \in Nat
  <2>1. ASSUME ~Allowed PROVE Ceil(Token - Refilled, Rate) \in Nat
    <3>1. Token - Refilled \in Nat
      BY <1>0, <1>1, <2>1 DEF Allowed
    <3> QED
      BY <3>1, CeilType, LimiterAssumption
  <2> QED
    BY <2>1
<1>6. now \in Time
  BY DEF Inv, TypeOK, LimiterTypeOK
<1>7. PICK ok, left, resetMs, retryMs :
        ok = Allowed /\ left = remaining /\ resetMs = reset /\ retryMs = retry
  OBVIOUS
<1>8. Verdict = Decision(ok, left, resetMs, retryMs)
  BY <1>7, Zenon DEF Verdict
<1> HIDE DEF remaining, reset, retry
<1>9. ok \in BOOLEAN /\ left \in Nat /\ resetMs \in Nat /\ retryMs \in Nat
  BY <1>2, <1>3, <1>4, <1>5, <1>7, Zenon
<1>10. Verdict \in DecisionType /\ Verdict.allowed = Allowed /\ Verdict.at = now
  <2>1. /\ Decision(ok, left, resetMs, retryMs) \in DecisionType
        /\ Decision(ok, left, resetMs, retryMs).allowed = ok
        /\ Decision(ok, left, resetMs, retryMs).at = now
    BY <1>6, <1>9, DecisionFields
  <2> QED
    BY <1>7, <1>8, <2>1, Zenon
<1>11. /\ Verdict.remaining = remaining
       /\ Verdict.reset_at = Ceil(reset, Second)
       /\ Verdict.retry_after = IF Allowed THEN 0 ELSE Ceil(retry, Second)
  BY <1>7, <1>8, Zenon DEF Decision
<1> QED
  BY <1>2, <1>10, <1>11, Zenon DEF remaining, reset, retry

\* What an evaluation writes.
LEMMA EvalEffect ==
  ASSUME Inv, NEW r \in Request, Eval(r)
  PROVE  /\ tokens' = Left /\ last_refill_ms' = Stamp /\ expireAt' = now + TtlMs
         /\ reply' = Verdict
         /\ now' = now /\ peak' = peak /\ steady' = steady
         /\ admitted' = IF Allowed THEN admitted \cup {Event(r)} ELSE admitted
         /\ Event(r) \notin admitted /\ Event(r) \in EventType /\ Event(r).at = now
<1>1. Verdict.allowed = Allowed /\ now \in Time
  BY VerdictFields DEF Inv, TypeOK, LimiterTypeOK
<1>2. admitted' = IF Allowed THEN admitted \cup {Event(r)} ELSE admitted
  BY <1>1, Zenon DEF Eval, Answer
<1> QED
  BY <1>1, <1>2 DEF Eval, Answer, Fresh, Event, EventType, clock

\* An evaluation leaves no key without an admission to its name.
LEMMA EvalAdmits ==
  ASSUME Inv, NEW r \in Request, Eval(r)
  PROVE  admitted' # {} /\ (~Allowed => admitted # {} /\ Refilled < Token)
<1>1. ~Allowed => admitted # {} /\ Refilled < Token
  BY RefillEffect, Units DEF Allowed
<1> QED
  BY <1>1, EvalEffect

\* What an evaluation admits counts from its time on.
LEMMA EvalSince ==
  ASSUME Inv, NEW r \in Request, Eval(r), NEW s \in Time
  PROVE  /\ Cardinality(Since(s)) \in Nat /\ Cardinality(Since(s)') \in Nat
         /\ IsFiniteSet(Since(s)) /\ IsFiniteSet(Since(s)')
         /\ Since(s) = {} => Cardinality(Since(s)) = 0
         /\ Since(s)' = IF Allowed /\ s <= now THEN Since(s) \cup {Event(r)} ELSE Since(s)
         /\ Cardinality(Since(s)') =
              IF Allowed /\ s <= now THEN Cardinality(Since(s)) + 1 ELSE Cardinality(Since(s))
<1>1. IsFiniteSet(Since(s)) /\ Cardinality(Since(s)) \in Nat
  BY FS_Subset, FS_CardinalityType DEF Inv, Since
<1>2. s \in Nat /\ now \in Nat
  BY StateTypes DEF Time
<1>3. Since(s)' = IF Allowed /\ s <= now THEN Since(s) \cup {Event(r)} ELSE Since(s)
  BY <1>2, EvalEffect DEF Since
<1>4. Event(r) \notin Since(s)
  BY EvalEffect DEF Since
<1>5. /\ IsFiniteSet(Since(s) \cup {Event(r)})
      /\ Cardinality(Since(s) \cup {Event(r)}) = Cardinality(Since(s)) + 1
  BY <1>1, <1>4, FS_AddElement
<1> QED
  BY <1>1, <1>3, <1>5, FS_EmptySet

\* What is taken was there.
LEMMA EvalPaid ==
  ASSUME Inv, NEW r \in Request, Eval(r)
  PROVE  Paid'
<1> SUFFICES ASSUME NEW s \in Time, Since(s)' # {}
             PROVE  /\ s <= last_refill_ms'
                    /\ Token * Cardinality(Since(s)') + tokens'
                         <= Full + Rate * (last_refill_ms' - s)
  BY DEF Paid, Token, Full
<1>1. PICK n, m, st, had :
        n = Cardinality(Since(s)) /\ m = Cardinality(Since(s)') /\ st = Stamp /\ had = Refilled
  OBVIOUS
<1>2. /\ n \in Nat /\ m \in Nat /\ st \in Nat /\ had \in Nat /\ s \in Nat
      /\ m = IF Allowed /\ s <= now THEN n + 1 ELSE n
      /\ now <= st /\ had <= Full
  BY <1>1, EvalSince, RefillEffect DEF Time
<1>3. last_refill_ms' = st /\ tokens' = IF Allowed THEN had - Token ELSE had
  BY <1>1, EvalEffect DEF Left
<1>4. Allowed => had >= Token
  BY <1>1 DEF Allowed
<1>5. /\ Token \in Nat /\ Token * n \in Nat /\ Token * m \in Nat
      /\ Token * (n + 1) = Token * n + Token
  BY <1>2, Units
<1>6. CASE Since(s) # {}
  <2>1. PICK L \in Nat : L = last_refill_ms
    BY StateTypes
  <2>2. s <= L /\ Token * n + tokens <= Full + Rate * (L - s)
    BY <1>1, <1>6, <2>1 DEF Inv, Paid
  <2>3. L <= st /\ had <= tokens + Rate * (st - L)
    <3>1. admitted # {}
      BY <1>6 DEF Since
    <3>2. Rate * (st - L) \in Int
      BY <1>2, <2>1, Flow
    <3> QED
      BY <1>1, <2>1, <3>1, <3>2, RefillEffect, StateTypes, Units
  <2>4. Token * n + had <= Full + Rate * (st - s)
    <3>1. /\ Rate * (L - s) \in Int /\ Rate * (st - L) \in Int
          /\ Rate * (st - s) = Rate * (L - s) + Rate * (st - L)
      <4>1. s \in Int /\ L \in Int /\ st \in Int
        BY <1>2
      <4>2. Rate * (st - s) = Rate * (L - s) + Rate * (st - L)
        BY <4>1, LimiterAssumption
      <4> QED
        BY <4>1, <4>2, LimiterAssumption
    <3> QED
      BY <1>2, <1>5, <2>2, <2>3, <3>1, StateTypes, Units
  <2>5. Token * m + tokens' <= Token * n + had
    BY <1>2, <1>3, <1>4, <1>5
  <2>6. Rate * (st - s) \in Int
    BY <1>2, Flow
  <2>7. tokens' \in Nat
    BY <1>2, <1>3, <1>4, Units
  <2> QED
    BY <1>1, <1>2, <1>3, <1>5, <2>1, <2>2, <2>3, <2>4, <2>5, <2>6, <2>7, Units
<1>7. CASE Since(s) = {}
  <2>1. n = 0 /\ Allowed /\ s <= now
    BY <1>1, <1>7, EvalSince
  <2>2. m = 1 /\ tokens' = had - Token /\ Token * m = Token
    BY <1>2, <1>3, <1>5, <2>1
  <2>3. Rate * (st - s) \in Nat /\ s <= st
    BY <1>2, <2>1, Flow, StateTypes
  <2> QED
    BY <1>1, <1>2, <1>3, <2>2, <2>3, Units
<1> QED
  BY <1>6, <1>7

\* The invariant holds before any request.
LEMMA InitInv == Init => Inv
<1> SUFFICES ASSUME Init PROVE Inv
  OBVIOUS
<1> USE LimiterAssumption, Units DEF Init, LimiterInit
<1>1. TypeOK
  BY DEF TypeOK, LimiterTypeOK, Time, DecisionType
<1>2. IsFiniteSet(admitted) /\ ClockInv /\ last_refill_ms <= peak
  BY FS_EmptySet DEF ClockInv
<1>3. KeyLives /\ Paid
  BY DEF KeyLives, Paid, Since
<1>4. RateBound
  <2> SUFFICES ASSUME NEW s \in Time, NEW t \in Time, s <= t
               PROVE  Token * Cardinality({e \in admitted : s <= e.at /\ e.at <= t})
                        <= Full + Rate * (t - s + MaxSkew)
    BY DEF RateBound
  <2>1. Cardinality({e \in admitted : s <= e.at /\ e.at <= t}) = 0
    BY FS_EmptySet
  <2>2. PICK d \in Nat : d = t - s + MaxSkew
    BY DEF Time
  <2>3. Rate * d \in Nat /\ Token * 0 = 0
    OBVIOUS
  <2> QED
    BY <2>1, <2>2, <2>3
<1> QED
  BY <1>1, <1>2, <1>3, <1>4 DEF Inv

\* Time that passes or is set back leaves the bucket as it is.
LEMMA ClockStep == ASSUME Inv, AdvanceClock PROVE Inv'
<1>1. /\ now' \in Time /\ peak' \in Time /\ steady' \in BOOLEAN /\ ClockInv' /\ peak' >= peak
      /\ peak' \in Nat
  BY ClockMoves, LimiterAssumption DEF Inv, AdvanceClock, TypeOK, LimiterTypeOK, Time
<1>2. UNCHANGED <<admitted, reply, tokens, last_refill_ms, expireAt>>
  BY DEF AdvanceClock, bucket
<1>3. TypeOK'
  BY <1>1, <1>2, Zenon DEF Inv, TypeOK, LimiterTypeOK, DecisionType, Time, EventType, Full, Token
<1>4. last_refill_ms' <= peak' /\ KeyLives'
  <2>1. TtlMs' = TtlMs
    BY DEF TtlMs
  <2> QED
    BY <1>1, <1>2, <2>1, StateTypes, Units DEF Inv, KeyLives
<1>5. Paid' /\ RateBound'
  BY <1>2 DEF Inv, Paid, RateBound, Since
<1> QED
  BY <1>1, <1>2, <1>3, <1>4, <1>5 DEF Inv

\* A key that Redis reclaims has outlived its time.
LEMMA ExpireStep == ASSUME Inv, Expire PROVE Inv'
<1>1. UNCHANGED <<now, peak, steady, admitted, reply, tokens, last_refill_ms>> /\ expireAt' = -1
  BY DEF Expire, clock
<1>2. TypeOK' /\ ClockInv' /\ Paid' /\ RateBound' /\ last_refill_ms' <= peak'
  BY <1>1 DEF Inv, TypeOK, LimiterTypeOK, ClockInv, Paid, RateBound, Since
<1>3. KeyLives'
  BY <1>1, StateTypes, Units DEF Inv, KeyLives, Expire
<1> QED
  BY <1>1, <1>2, <1>3 DEF Inv

\* An admission fits into every stretch of time that it falls into.
LEMMA EvalBound ==
  ASSUME Inv, NEW r \in Request, Eval(r)
  PROVE  RateBound'
<1> DEFINE S(h, s, t) == {e \in h : s <= e.at /\ e.at <= t}
<1> SUFFICES ASSUME NEW s \in Time, NEW t \in Time, s <= t
             PROVE  Token * Cardinality(S(admitted', s, t)) <= Full + Rate * (t - s + MaxSkew)
  BY DEF RateBound
<1>1. s \in Nat /\ t \in Nat
  BY DEF Time
<1>2. CASE S(admitted', s, t) = S(admitted, s, t)
  BY <1>2 DEF Inv, RateBound
<1>3. CASE S(admitted', s, t) # S(admitted, s, t)
  <2>1. Allowed /\ s <= now /\ now <= t
    BY <1>3, EvalEffect
  <2>2. PICK A, B : A = S(admitted', s, t) /\ B = Since(s)'
    OBVIOUS
  <2>3. A \in SUBSET B /\ IsFiniteSet(B) /\ B # {} /\ Cardinality(B) \in Nat
    BY <1>1, <2>1, <2>2, EvalSince DEF Since, Inv
  <2>4. Cardinality(A) \in Nat /\ Cardinality(A) <= Cardinality(B)
    BY <2>3, FS_Subset, FS_CardinalityType
  <2>5. Token * Cardinality(B) + tokens' <= Full + Rate * (last_refill_ms' - s)
    BY <2>2, <2>3, EvalPaid DEF Paid
  <2>6. PICK st \in Nat : st = last_refill_ms' /\ st <= t + MaxSkew /\ tokens' \in Nat
    BY <1>1, <2>1, EvalEffect, RefillEffect, VerdictFields, StateTypes
  <2>7. Token * Cardinality(A) <= Token * Cardinality(B) /\ Token * Cardinality(A) \in Nat
        /\ Token * Cardinality(B) \in Nat
    BY <2>3, <2>4, Units
  <2>8. Rate * (st - s) <= Rate * (t - s + MaxSkew)
    <3>1. ASSUME NEW a \in Int, NEW b \in Int, a <= b PROVE Rate * a <= Rate * b
      BY <3>1, LimiterAssumption
    <3>2. st - s \in Int /\ t - s + MaxSkew \in Int /\ st - s <= t - s + MaxSkew
      <4>1. st <= t + MaxSkew
        BY <2>6
      <4>2. s \in Int /\ t \in Int /\ st \in Int /\ MaxSkew \in Int
        BY <1>1, LimiterAssumption
      <4>3. st - s \in Int /\ t - s + MaxSkew \in Int
        BY <4>2
      <4>4. st - s <= t - s + MaxSkew
        BY <4>1, <4>2
      <4> QED
        BY <4>3, <4>4
    <3> QED
      BY <3>1, <3>2, Zenon
  <2>9. Rate * (st - s) \in Int /\ Rate * (t - s + MaxSkew) \in Int
    BY <1>1, LimiterAssumption
  <2> QED
    BY <2>2, <2>5, <2>6, <2>7, <2>8, <2>9, Units
<1> QED
  BY <1>2, <1>3

\* An evaluation takes what is there and renews the key.
LEMMA EvalStep == ASSUME Inv, NEW r \in Request, Eval(r) PROVE Inv'
<1>1. /\ Left \in Nat /\ Left <= Full /\ Verdict \in DecisionType
      /\ Stamp \in Nat /\ now <= Stamp /\ Stamp <= peak
  BY VerdictFields, RefillEffect
<1>2. TypeOK'
  <2>1. Stamp \in Time
    BY <1>1, LimiterAssumption DEF Inv, TypeOK, LimiterTypeOK, Time
  <2>2. now + TtlMs \in Nat
    BY StateTypes, Units
  <2>3. admitted' \in SUBSET EventType
    BY EvalEffect DEF Inv, TypeOK, LimiterTypeOK
  <2>4. now \in Time /\ peak \in Time /\ steady \in BOOLEAN
    BY DEF Inv, TypeOK, LimiterTypeOK
  <2>5. LimiterTypeOK'
    BY <1>1, <2>3, <2>4, EvalEffect DEF LimiterTypeOK
  <2> QED
    BY <1>1, <2>1, <2>2, <2>5, EvalEffect DEF TypeOK
<1>3. IsFiniteSet(admitted')
  BY EvalEffect, FS_AddElement DEF Inv
<1>4. ClockInv'
  BY EvalEffect DEF Inv, ClockInv
<1>5. last_refill_ms' <= peak' /\ KeyLives'
  <2>1. admitted' # {}
    BY EvalAdmits
  <2>2. /\ expireAt' = now + TtlMs /\ last_refill_ms' = Stamp /\ peak' = peak
        /\ TtlMs' = TtlMs
    BY EvalEffect DEF TtlMs
  <2>3. expireAt' # -1 /\ expireAt' >= last_refill_ms' - MaxSkew + TtlMs
    BY <1>1, <2>2, StateTypes, Units
  <2> QED
    BY <1>1, <2>1, <2>2, <2>3 DEF KeyLives
<1> QED
  BY <1>2, <1>3, <1>4, <1>5, EvalPaid, EvalBound DEF Inv

\* Every step keeps the invariant.
LEMMA NextInv == Inv /\ [Next]_vars => Inv'
<1> SUFFICES ASSUME Inv, [Next]_vars PROVE Inv'
  OBVIOUS
<1>1. CASE AdvanceClock
  BY <1>1, ClockStep
<1>2. CASE Expire
  BY <1>2, ExpireStep
<1>3. CASE \E r \in Request : Eval(r)
  BY <1>3, EvalStep
<1>4. CASE UNCHANGED vars
  BY <1>4 DEF vars, clock, bucket, Inv, TypeOK, LimiterTypeOK, ClockInv, KeyLives, Paid,
              RateBound, Since
<1> QED
  BY <1>1, <1>2, <1>3, <1>4 DEF Next

\* Inv holds in every reachable state.
LEMMA Invariance == Spec => []Inv
  BY InitInv, NextInv, PTL DEF Spec

(***************************************************************************)
(* No stretch of time holds more admissions than a full bucket and what    *)
(* flowed in during it allow, whatever the clock does within half a window *)
(* of its latest reading and whenever Redis reclaims the key.              *)
(***************************************************************************)
THEOREM RateBoundHolds == Spec => []RateBound
<1>1. Inv => RateBound
  BY DEF Inv
<1> QED
  BY <1>1, Invariance, PTL
-----------------------------------------------------------------------------
(***************************************************************************)
(* As long as the clock is never set back the bucket holds not only no     *)
(* more but exactly what the history leaves: since the admission that      *)
(* found it full for the last time, all that flowed in is there.           *)
(***************************************************************************)
Exact ==
  steady /\ admitted # {} =>
    \E s \in {e.at : e \in admitted} :
      Token * Cardinality(Since(s)) + tokens = Full + Rate * (last_refill_ms - s)

\* While the clock is steady a refill takes place now.
LEMMA SteadyStamp == ASSUME Inv, steady PROVE Stamp = now /\ last_refill_ms <= now
  BY RefillEffect, StateTypes DEF Inv, ClockInv

(***************************************************************************)
(* Refilled, the bucket has a token exactly when the history has room: by  *)
(* Paid for every moment of it, by Exact for one.                          *)
(***************************************************************************)
LEMMA ExactRefill ==
  ASSUME Inv, Exact, steady, admitted # {}, Refilled < Full
  PROVE  \E s \in {e.at : e \in admitted} :
           Token * Cardinality(Since(s)) + Refilled = Full + Rate * (now - s)
<1>1. PICK s \in {e.at : e \in admitted} :
        Token * Cardinality(Since(s)) + tokens = Full + Rate * (last_refill_ms - s)
  BY DEF Exact
<1>2. PICK L \in Nat : L = last_refill_ms
  BY StateTypes
<1>3. s \in Int /\ now \in Int /\ L \in Int
  BY <1>1, StateTypes DEF Inv, TypeOK, LimiterTypeOK, EventType, Time
<1>4. /\ Rate * (L - s) \in Int /\ Rate * (now - L) \in Int /\ Rate * (now - s) \in Int
      /\ Rate * (now - s) = Rate * (L - s) + Rate * (now - L)
  BY <1>3, LimiterAssumption
<1>5. Refilled = tokens + Rate * (now - L)
  <2>1. Refilled = IF tokens + Rate * (now - L) < Full THEN tokens + Rate * (now - L) ELSE Full
    BY <1>2, RefillEffect, SteadyStamp
  <2> QED
    BY <1>4, <2>1, Units
<1>6. Token * Cardinality(Since(s)) \in Nat
  <2>1. Cardinality(Since(s)) \in Nat
    BY FS_Subset, FS_CardinalityType DEF Inv, Since
  <2> QED
    BY <2>1, Units
<1>7. Token * Cardinality(Since(s)) + Refilled = Full + Rate * (now - s)
  <2>1. PICK taken \in Nat, flowed \in Int, due \in Int :
          /\ taken = Token * Cardinality(Since(s))
          /\ flowed = Rate * (L - s) /\ due = Rate * (now - L)
    BY <1>4, <1>6, Zenon
  <2>2. taken + tokens = Full + flowed
    BY <1>1, <1>2, <2>1, Zenon
  <2>3. taken + (tokens + due) = Full + (flowed + due)
    BY <2>1, <2>2, StateTypes, Units
  <2> QED
    BY <1>4, <1>5, <2>1, <2>3, Zenon
<1> QED
  BY <1>1, <1>7

\* What Paid says of the bucket once it is refilled.
LEMMA PaidRefill ==
  ASSUME Inv, steady, NEW s \in Time, s <= now
  PROVE  /\ Cardinality(Since(s)) \in Nat /\ Rate * (now - s) \in Nat
         /\ Token * Cardinality(Since(s)) \in Nat
         /\ Token * Cardinality(Since(s)) + Refilled <= Full + Rate * (now - s)
<1>1. PICK n : n = Cardinality(Since(s))
  OBVIOUS
<1>2. n \in Nat /\ (Since(s) = {} => n = 0)
  BY <1>1, FS_Subset, FS_CardinalityType, FS_EmptySet DEF Inv, Since
<1>3. Token * n \in Nat /\ (n = 0 => Token * n = 0)
  BY <1>2, Units
<1>4. PICK L \in Nat : L = last_refill_ms
  BY StateTypes
<1>5. s \in Int /\ now \in Int /\ L \in Int /\ s <= now /\ L <= now
  BY <1>4, StateTypes, SteadyStamp DEF Time
<1>6. /\ Rate * (L - s) \in Int /\ Rate * (now - L) \in Int
      /\ Rate * (now - s) = Rate * (L - s) + Rate * (now - L)
  BY <1>5, LimiterAssumption
<1>7. Rate * (now - s) \in Nat
  BY <1>5, LimiterAssumption
<1>8. CASE Since(s) # {}
  <2>1. Token * n + tokens <= Full + Rate * (L - s)
    BY <1>1, <1>4, <1>8 DEF Inv, Paid
  <2>2. admitted # {}
    BY <1>8 DEF Since
  <2>3. Refilled <= tokens + Rate * (now - L) /\ Refilled \in Nat
    BY <1>4, <1>6, <2>2, RefillEffect, SteadyStamp, StateTypes, Units
  <2> QED
    BY <1>1, <1>2, <1>3, <1>6, <1>7, <2>1, <2>3, StateTypes, Units
<1>9. CASE Since(s) = {}
  BY <1>1, <1>2, <1>3, <1>7, <1>9, RefillEffect, Units
<1> QED
  BY <1>8, <1>9

\* An evaluation keeps the bucket exact: a full one is exact from now on.
LEMMA EvalExact ==
  ASSUME Inv, Exact, NEW r \in Request, Eval(r)
  PROVE  Exact'
<1> SUFFICES ASSUME steady
             PROVE  \E s \in {e.at : e \in admitted'} :
                      Token * Cardinality(Since(s)') + tokens' = Full + Rate * (last_refill_ms' - s)
  BY EvalEffect DEF Exact, Full, Token
<1>1. last_refill_ms' = now /\ tokens' = IF Allowed THEN Refilled - Token ELSE Refilled
  BY EvalEffect, SteadyStamp DEF Left
<1>2. now \in Time /\ now \in Nat /\ Refilled \in Nat /\ Refilled <= Full /\ Token \in Nat
  BY RefillEffect, StateTypes, Units DEF Inv, TypeOK, LimiterTypeOK
<1>3. CASE Refilled = Full
  <2>1. Allowed
    BY <1>3, Units DEF Allowed
  <2>2. Rate * (now - now) = 0 /\ now <= now
    BY <1>2, LimiterAssumption
  <2>3. Cardinality(Since(now)) = 0
    <3>1. PICK n \in Nat : n = Cardinality(Since(now))
      BY <1>2, <2>2, PaidRefill
    <3>2. Token * n <= 0
      BY <1>2, <1>3, <2>2, <3>1, PaidRefill, Units
    <3>3. n = 0
      BY <3>1, <3>2, Units
    <3> QED
      BY <3>1, <3>3
  <2>4. PICK s : s = now
    OBVIOUS
  <2>5. Cardinality(Since(s)') = 1
    BY <1>2, <2>1, <2>2, <2>3, <2>4, EvalSince
  <2>6. s \in {e.at : e \in admitted'}
    BY <2>1, <2>4, EvalEffect
  <2>7. Token * 1 = Token
    BY <1>2
  <2> QED
    BY <1>1, <1>2, <1>3, <2>1, <2>2, <2>4, <2>5, <2>6, <2>7, Units
<1>4. CASE Refilled # Full
  <2>1. admitted # {} /\ Refilled < Full
    BY <1>2, <1>4, RefillEffect, Units
  <2>2. PICK s \in {e.at : e \in admitted} :
          Token * Cardinality(Since(s)) + Refilled = Full + Rate * (now - s)
    BY <2>1, ExactRefill
  <2>3. s \in Time /\ s <= now
    <3>1. PICK e \in admitted : s = e.at
      BY <2>2
    <3>2. s \in Time /\ e \in Since(s)
      BY <3>1 DEF Inv, TypeOK, LimiterTypeOK, EventType, Since, Time
    <3>3. s <= last_refill_ms
      BY <3>2 DEF Inv, Paid
    <3> QED
      BY <3>2, <3>3, SteadyStamp, StateTypes DEF Time
  <2>4. PICK n, m : n = Cardinality(Since(s)) /\ m = Cardinality(Since(s)')
    OBVIOUS
  <2>5. n \in Nat /\ m = IF Allowed THEN n + 1 ELSE n
    BY <2>3, <2>4, EvalSince
  <2>6. Token * n \in Nat /\ Token * (n + 1) = Token * n + Token
    BY <1>2, <2>5
  <2>7. Token * m + tokens' = Token * n + Refilled
    BY <1>1, <1>2, <2>5, <2>6
  <2>8. s \in {e.at : e \in admitted'}
    BY <2>2, EvalEffect
  <2> QED
    BY <1>1, <2>2, <2>4, <2>7, <2>8
<1> QED
  BY <1>3, <1>4

\* No step makes the bucket inexact while the clock is steady.
LEMMA ExactHolds == Spec => []Exact
<1>1. Init => Exact
  BY DEF Init, LimiterInit, Exact
<1>2. Inv /\ Exact /\ [Next]_vars => Exact'
  <2> SUFFICES ASSUME Inv, Exact, [Next]_vars PROVE Exact'
    OBVIOUS
  <2>1. CASE AdvanceClock
    BY <2>1 DEF AdvanceClock, Tick, StepBack, bucket, Exact, Since
  <2>2. CASE Expire
    BY <2>2 DEF Expire, clock, Exact, Since
  <2>3. CASE \E r \in Request : Eval(r)
    BY <2>3, EvalExact
  <2>4. CASE UNCHANGED vars
    BY <2>4 DEF vars, clock, bucket, Exact, Since
  <2> QED
    BY <2>1, <2>2, <2>3, <2>4 DEF Next
<1> QED
  BY <1>1, <1>2, Invariance, PTL DEF Spec

\* While the clock is steady the bucket and the history agree.
LEMMA AllowedIsRoom ==
  ASSUME Inv, Exact, steady
  PROVE  Allowed <=> TokenRoom(admitted, now)
<1> DEFINE Fits(s) == Token * (Cardinality(Since(s)) + 1) <= Full + Rate * (now - s)
<1>1. TokenRoom(admitted, now) <=> \A s \in {e.at : e \in admitted} \cup {now} : Fits(s)
  BY DEF TokenRoom, BucketRoom, Since, Full, Token
<1>2. ASSUME NEW s \in {e.at : e \in admitted} \cup {now}
      PROVE  /\ s \in Time /\ s <= now
             /\ Token * (Cardinality(Since(s)) + 1) = Token * Cardinality(Since(s)) + Token
  <2>1. s \in Time /\ s <= now
    <3>1. CASE s = now
      BY <3>1, StateTypes DEF Inv, TypeOK, LimiterTypeOK
    <3>2. ASSUME NEW e \in admitted, s = e.at PROVE s \in Time /\ s <= now
      <4>1. s \in Time /\ e \in Since(s)
        BY <3>2 DEF Inv, TypeOK, LimiterTypeOK, EventType, Since, Time
      <4>2. s <= last_refill_ms
        BY <4>1 DEF Inv, Paid
      <4> QED
        BY <4>1, <4>2, SteadyStamp, StateTypes DEF Time
    <3> QED
      BY <3>1, <3>2
  <2>2. Cardinality(Since(s)) \in Nat
    BY <2>1, PaidRefill
  <2> QED
    BY <2>1, <2>2, Units
<1>3. ASSUME Allowed, NEW s \in {e.at : e \in admitted} \cup {now} PROVE Fits(s)
  <2>1. PICK taken \in Nat : taken = Token * Cardinality(Since(s))
    BY <1>2, PaidRefill
  <2>2. taken + Refilled <= Full + Rate * (now - s) /\ Rate * (now - s) \in Nat
    BY <1>2, <2>1, PaidRefill
  <2>3. Token <= Refilled /\ Refilled \in Nat
    BY <1>3, RefillEffect, Units DEF Allowed
  <2> QED
    BY <1>2, <2>1, <2>2, <2>3, Units
<1>4. ASSUME ~Allowed PROVE \E s \in {e.at : e \in admitted} : ~Fits(s)
  <2>1. Refilled < Token /\ Refilled < Full /\ Refilled \in Nat /\ admitted # {}
    BY <1>4, RefillEffect, Units DEF Allowed
  <2>2. PICK s \in {e.at : e \in admitted} :
          Token * Cardinality(Since(s)) + Refilled = Full + Rate * (now - s)
    BY <2>1, ExactRefill
  <2>3. PICK taken \in Nat : taken = Token * Cardinality(Since(s))
    BY <1>2, PaidRefill
  <2>4. Rate * (now - s) \in Nat
    BY <1>2, PaidRefill
  <2> QED
    BY <1>2, <2>1, <2>2, <2>3, <2>4, Units
<1> QED
  BY <1>1, <1>3, <1>4

(***************************************************************************)
(* Until the clock is first set back the bucket, refilled only when it is  *)
(* used and forgotten when its key expires, decides exactly as a limiter   *)
(* that remembers every admission would.                                   *)
(***************************************************************************)
THEOREM Refinement == Spec => ImplementsQuota
<1>1. Init => Promise!Init
  BY DEF Init, LimiterInit, Promise!Init
<1>2. Inv /\ Exact /\ [Next]_vars => [steady' => Promise!Next]_Promise!vars
  <2> SUFFICES ASSUME Inv, Exact, [Next]_vars, steady' PROVE [Promise!Next]_Promise!vars
    BY DEF Promise!vars
  <2>1. CASE AdvanceClock
    <3>1. Tick
      BY <2>1 DEF AdvanceClock, StepBack
    <3> QED
      BY <2>1, <3>1 DEF AdvanceClock, Tick, Promise!Next, Promise!Tick
  <2>2. ASSUME NEW r \in Request, Eval(r) PROVE Promise!Next
    <3>1. /\ reply'.allowed = Allowed /\ reply'.at = now
          /\ now' = now /\ steady' = steady
          /\ admitted' = IF Allowed THEN admitted \cup {Event(r)} ELSE admitted
      BY <2>2, EvalEffect, VerdictFields
    <3>2. Allowed <=> TokenRoom(admitted, now)
      BY <3>1, AllowedIsRoom
    <3>3. Allowed \in BOOLEAN
      BY DEF Allowed
    <3>4. CASE Allowed
      <4>1. Promise!Admit(r)
        BY <3>1, <3>2, <3>3, <3>4, Zenon DEF Promise!Admit, Event
      <4> QED
        BY <4>1 DEF Promise!Next
    <3>5. CASE ~Allowed
      <4>1. Allowed = FALSE
        BY <3>3, <3>5
      <4>2. Promise!Refuse
        BY <3>1, <3>2, <3>5, <4>1, Zenon DEF Promise!Refuse
      <4> QED
        BY <4>2 DEF Promise!Next
    <3> QED
      BY <3>4, <3>5
  <2>3. CASE Expire
    BY <2>3 DEF Expire, clock, Promise!vars
  <2>4. CASE UNCHANGED vars
    BY <2>4 DEF vars, clock, Promise!vars
  <2> QED
    BY <2>1, <2>2, <2>3, <2>4 DEF Next
<1> QED
  BY <1>1, <1>2, Invariance, ExactHolds, PTL DEF Spec, ImplementsQuota, Promise!Spec
-----------------------------------------------------------------------------
(***************************************************************************)
(* What the last answer says, as long as the clock is never set back: the  *)
(* bucket is as that answer left it.                                       *)
(***************************************************************************)
ReplyInv ==
  steady /\ admitted # {} =>
    /\ reply.at = last_refill_ms
    /\ reply.remaining = tokens \div Token
    /\ reply.reset_at = Ceil(last_refill_ms + Ceil(Full - tokens, Rate), Second)
    /\ ~reply.allowed =>
         /\ tokens < Token
         /\ reply.retry_after = Ceil(Ceil(Token - tokens, Rate), Second)

\* An evaluation answers with what it leaves.
LEMMA EvalReply == ASSUME Inv, NEW r \in Request, Eval(r) PROVE ReplyInv'
<1> SUFFICES ASSUME steady PROVE ReplyInv'
  BY EvalEffect DEF ReplyInv
<1>1. /\ reply' = Verdict /\ last_refill_ms' = now /\ tokens' = Left
      /\ Token' = Token /\ Full' = Full
  BY EvalEffect, SteadyStamp DEF Token, Full
<1>2. /\ reply'.at = last_refill_ms'
      /\ reply'.remaining = tokens' \div Token
      /\ reply'.reset_at = Ceil(last_refill_ms' + Ceil(Full - tokens', Rate), Second)
  BY <1>1, VerdictFields
<1>3. ASSUME ~reply'.allowed
      PROVE  /\ tokens' < Token
             /\ reply'.retry_after = Ceil(Ceil(Token - tokens', Rate), Second)
  <2>1. ~Allowed
    BY <1>1, <1>3, VerdictFields, Zenon
  <2>2. tokens' = Refilled /\ Refilled < Token
    BY <1>1, <2>1, EvalAdmits DEF Left
  <2>3. reply'.retry_after = Ceil(Ceil(Token - Refilled, Rate), Second)
    BY <1>1, <2>1, VerdictFields
  <2> QED
    BY <2>2, <2>3
<1> QED
  BY <1>1, <1>2, <1>3 DEF ReplyInv

\* No step makes the last answer wrong.
LEMMA ReplyHolds == Spec => []ReplyInv
<1>1. Init => ReplyInv
  BY DEF Init, LimiterInit, ReplyInv
<1>2. Inv /\ ReplyInv /\ [Next]_vars => ReplyInv'
  <2> SUFFICES ASSUME Inv, ReplyInv, [Next]_vars PROVE ReplyInv'
    OBVIOUS
  <2>1. CASE AdvanceClock
    BY <2>1 DEF AdvanceClock, Tick, StepBack, bucket, ReplyInv
  <2>2. CASE Expire
    BY <2>2 DEF Expire, clock, ReplyInv
  <2>3. CASE \E r \in Request : Eval(r)
    BY <2>3, EvalReply
  <2>4. CASE UNCHANGED vars
    BY <2>4 DEF vars, clock, bucket, ReplyInv
  <2> QED
    BY <2>1, <2>2, <2>3, <2>4 DEF Next
<1> QED
  BY <1>1, <1>2, Invariance, PTL DEF Spec

(***************************************************************************)
(* Until the clock is first set back, X-RateLimit-Remaining is the whole   *)
(* tokens left, X-RateLimit-Reset is no earlier than the moment the bucket *)
(* is full again, and Retry-After is when there is a token, rounded up to  *)
(* a second and no more.                                                   *)
(***************************************************************************)
THEOREM HeadersExactHolds == Spec => []HeadersExact
<1>1. ASSUME Inv, ReplyInv PROVE HeadersExact
  <2> SUFFICES ASSUME steady, admitted # {} PROVE HeadersExact
    BY DEF HeadersExact
  <2>1. PICK L, flowed, held : L = last_refill_ms /\ flowed = Rate * (now - L) /\ held = tokens
    OBVIOUS
  <2>2. L \in Nat /\ now \in Nat /\ L <= now /\ held \in Nat /\ held <= Full
    BY <1>1, <2>1, StateTypes, SteadyStamp
  <2>3. PICK d \in Nat : d = now - L /\ flowed = Rate * d /\ flowed \in Nat
    BY <2>1, <2>2, LimiterAssumption
  <2>4. Refilled = IF held + flowed < Full THEN held + flowed ELSE Full
    BY <1>1, <2>1, RefillEffect, SteadyStamp
  <2>5. /\ reply.at = L /\ reply.remaining = held \div Token
        /\ reply.reset_at = Ceil(L + Ceil(Full - held, Rate), Second)
        /\ ~reply.allowed =>
             held < Token /\ reply.retry_after = Ceil(Ceil(Token - held, Rate), Second)
    BY <1>1, <2>1 DEF ReplyInv
  <2>6. now = reply.at => reply.remaining = Refilled \div Token
    <3>1. now = L => flowed = 0
      BY <2>2, <2>3, LimiterAssumption
    <3>2. now = L => Refilled = held
      BY <2>2, <2>4, <3>1, Units
    <3> QED
      BY <2>5, <3>2
  <2>7. ASSUME now >= reply.reset_at * Second PROVE Refilled = Full
    <3>1. PICK x \in Nat : x = Full - held
      BY <2>2, Units
    <3>2. PICK k \in Nat : k = Ceil(x, Rate)
      BY <3>1, CeilType, LimiterAssumption
    <3>3. reply.reset_at * Second >= L + k /\ reply.reset_at * Second \in Nat
      <4>1. L + k \in Nat
        BY <2>2, <3>2
      <4>2. reply.reset_at = Ceil(L + k, Second)
        BY <2>5, <3>1, <3>2, Zenon
      <4> QED
        BY <4>1, <4>2, WholeSeconds, Zenon
    <3>4. d >= k
      BY <2>2, <2>3, <2>7, <3>3
    <3>5. flowed >= x
      BY <2>3, <3>2, <3>4, FlowFills
    <3> QED
      BY <2>2, <2>3, <2>4, <3>1, <3>5, Units
  <2>8. ASSUME ~reply.allowed
        PROVE  LET retryAt == reply.at + reply.retry_after * Second
               IN  /\ now >= retryAt => Allowed
                   /\ now <= retryAt - Second => ~Allowed
    <3>1. PICK x \in Nat : x = Token - held
      BY <2>2, <2>5, <2>8, Units
    <3>2. PICK k \in Nat : k = Ceil(x, Rate)
      BY <3>1, CeilType, LimiterAssumption
    <3>3. PICK ms \in Nat : ms = reply.retry_after * Second /\ ms >= k /\ ms - Second < k
      <4>1. reply.retry_after = Ceil(k, Second)
        BY <2>5, <2>8, <3>1, <3>2, Zenon
      <4> QED
        BY <3>2, <4>1, WholeSeconds, Zenon
    <3>4. d >= k <=> flowed >= x
      BY <2>3, <3>2, FlowFills
    <3>5. Allowed <=> flowed >= x
      BY <2>2, <2>3, <2>4, <3>1, Units DEF Allowed
    <3>6. now >= L + ms => d >= k
      BY <2>2, <2>3, <3>2, <3>3
    <3>7. now <= L + ms - Second => ~(d >= k)
      BY <2>2, <2>3, <3>2, <3>3, LimiterAssumption
    <3> QED
      BY <2>2, <2>5, <3>3, <3>4, <3>5, <3>6, <3>7, LimiterAssumption
  <2>9. now >= reply.reset_at * Second => Refilled = Full
    BY <2>7
  <2> QED
    BY <2>6, <2>8, <2>9 DEF HeadersExact
<1> QED
  BY <1>1, Invariance, ReplyHolds, PTL
=============================================================================
