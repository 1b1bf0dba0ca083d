----------------------- MODULE SlidingWindowLogProofs -----------------------
(***************************************************************************)
(* Proofs about SlidingWindowLog, for every rate, window, horizon and      *)
(* clock skew up to a second.  TrailingQuota speaks of admissions only and *)
(* is not inductive: a step is safe because LogRemembers keeps every       *)
(* admission that can still share a window with a new one.                 *)
(***************************************************************************)
EXTENDS SlidingWindowLog, LimiterProofs

Inv ==
  /\ TypeOK
  /\ IsFiniteSet(admitted)
  /\ ClockInv
  /\ \A e \in admitted : e.at <= peak
  /\ LogRemembers
  /\ TrailingQuota

\* The invariant holds before any request.
LEMMA InitInv == Init => Inv
<1> SUFFICES ASSUME Init PROVE Inv
  OBVIOUS
<1> USE LimiterAssumption DEF Init, LimiterInit
<1>1. TypeOK
  BY DEF TypeOK, LimiterTypeOK, Time, DecisionType
<1>2. IsFiniteSet(admitted) /\ Cardinality({}) = 0
  BY FS_EmptySet
<1>3. ClockInv
  BY DEF ClockInv
<1>4. LogRemembers
  BY <1>2 DEF LogRemembers
<1>5. TrailingQuota
  <2>1. \A s \in Time : {e \in admitted : e.at >= s /\ e.at < s + WindowMs - MaxSkew} = {}
    OBVIOUS
  <2> QED
    BY <1>2, <2>1 DEF TrailingQuota
<1> QED
  BY <1>1, <1>2, <1>3, <1>4, <1>5 DEF Inv

\* Passing and set-back time leaves the log as it is; peak never falls.
LEMMA ClockStep == Inv /\ AdvanceClock => Inv'
<1> SUFFICES ASSUME Inv, AdvanceClock PROVE Inv'
  OBVIOUS
<1> USE LimiterAssumption DEF Inv, AdvanceClock
<1>1. TypeOK' /\ ClockInv' /\ peak \in Nat /\ peak' \in Nat /\ peak' >= peak
  BY ClockMoves DEF TypeOK, LimiterTypeOK, Time
<1>2. \A e \in admitted : e.at \in Nat
  BY DEF TypeOK, LimiterTypeOK, EventType, Time
<1>3. \A e \in admitted : e.at <= peak'
  BY <1>1, <1>2
<1>4. LogRemembers'
  BY <1>1, <1>2, WindowMsType DEF LogRemembers
<1>5. TrailingQuota'
  BY DEF TrailingQuota
<1> QED
  BY <1>1, <1>3, <1>4, <1>5

\* When the key has expired everything in it has left the window.
LEMMA ExpireStep == Inv /\ Expire => Inv'
<1> SUFFICES ASSUME Inv, Expire PROVE Inv'
  OBVIOUS
<1> USE LimiterAssumption, SlidingWindowAssumption DEF Inv, Expire, clock
<1>1. TypeOK' /\ ClockInv' /\ IsFiniteSet(admitted')
  BY DEF TypeOK, LimiterTypeOK, ClockInv
<1>2. LogRemembers'
  <2>1. Cardinality(log') = 0
    BY FS_EmptySet
  <2>2. \A e \in log : e.at + WindowMs <= peak
    BY WindowMsType DEF LogRemembers, TypeOK, LimiterTypeOK, EventType, Time, ClockInv
  <2> QED
    BY <2>1, <2>2 DEF LogRemembers
<1>3. TrailingQuota'
  BY DEF TrailingQuota
<1> QED
  BY <1>1, <1>2, <1>3

\* An admission the clock has not left WindowMs behind is still seen.
LEMMA ActiveRemembers ==
  ASSUME Inv, NEW e \in admitted, e.at + WindowMs > peak
  PROVE  e \in Active
<1> USE LimiterAssumption, SlidingWindowAssumption, WindowMsType DEF Inv
<1>1. e.at \in Nat /\ peak \in Nat /\ now \in Nat /\ expireAt \in Nat /\ now <= peak
  BY DEF TypeOK, LimiterTypeOK, EventType, Time, ClockInv
<1>2. e \in log /\ e.at + WindowMs + Second <= expireAt + MaxSkew
  BY <1>1 DEF LogRemembers
<1>3. now <= expireAt
  BY <1>1, <1>2
<1>4. e.at > now - WindowMs
  BY <1>1
<1> QED
  BY <1>2, <1>3, <1>4 DEF Active, Live

\* The sorted set an evaluation sees.
LEMMA ActiveType ==
  ASSUME Inv
  PROVE  /\ Active \in SUBSET log
         /\ Active \in SUBSET admitted
         /\ Active \in SUBSET EventType
         /\ IsFiniteSet(Active)
         /\ Cardinality(Active) \in Nat
         /\ Cardinality(Active) <= Rate
<1>1. Active \in SUBSET log /\ log \in SUBSET admitted /\ log \in SUBSET EventType
  BY DEF Active, Live, Inv, LogRemembers, TypeOK
<1>2. IsFiniteSet(log) /\ IsFiniteSet(Active)
  BY <1>1, FS_Subset DEF Inv
<1>3. Cardinality(Active) \in Nat /\ Cardinality(log) \in Nat
      /\ Cardinality(Active) <= Cardinality(log)
  BY <1>1, <1>2, FS_Subset, FS_CardinalityType
<1>4. Cardinality(Active) <= Rate
  BY <1>3, LimiterAssumption DEF Inv, LogRemembers
<1> QED
  BY <1>1, <1>2, <1>3, <1>4

\* The answer to an evaluation is a decision.
LEMMA VerdictType ==
  ASSUME now \in Time,
         NEW active, Cardinality(active) \in Nat, NEW kept \in SUBSET EventType
  PROVE  /\ Verdict(active, kept) \in DecisionType
         /\ Verdict(active, kept).allowed = Allowed(active)
         /\ Verdict(active, kept).at = now
<1> DEFINE allowed == Allowed(active)
           remaining == IF allowed THEN Rate - (Cardinality(active) + 1) ELSE 0
           reset == ResetAt(kept)
           retry == RetryMs(kept)
<1>1. reset \in Nat
  <2>1. CASE kept = {}
    BY <2>1, LimiterAssumption, WindowMsType DEF ResetAt, Time
  <2>2. CASE kept # {}
    <3> DEFINE S == {e.at : e \in kept}
    <3>1. S \in SUBSET Nat /\ S # {}
      BY <2>2, LimiterAssumption DEF EventType, Time
    <3> HIDE DEF S
    <3>2. \E x \in S : \A y \in S : x <= y
      BY <3>1, OldestExists
    <3>3. Min(S) \in S
      BY <3>2 DEF Min
    <3>4. Min(S) \in Nat
      BY <3>1, <3>3
    <3>5. reset = Min(S) + WindowMs
      BY <2>2 DEF ResetAt, S
    <3> QED
      BY <3>4, <3>5, WindowMsType
  <2> QED
    BY <2>1, <2>2
<1>2. retry \in Nat /\ remaining \in Nat
  BY <1>1, LimiterAssumption DEF RetryMs, Time, Allowed
<1>3. allowed \in BOOLEAN
  BY DEF Allowed
<1>4. Verdict(active, kept) = Decision(allowed, remaining, reset, retry)
  BY DEF Verdict
<1> HIDE DEF allowed, remaining, reset, retry
<1>5. /\ Decision(allowed, remaining, reset, retry) \in DecisionType
      /\ Decision(allowed, remaining, reset, retry).allowed = allowed
      /\ Decision(allowed, remaining, reset, retry).at = now
  BY <1>1, <1>2, <1>3, DecisionFields
<1> QED
  BY <1>4, <1>5, Zenon DEF allowed

\* What an evaluation does, with its verdict read as a condition.
LEMMA EvalEffect ==
  ASSUME Inv, NEW r \in Request, Eval(r)
  PROVE  /\ reply' \in DecisionType
         /\ reply'.allowed = Allowed(Active)
         /\ reply'.at = now
         /\ admitted' = IF Allowed(Active) THEN admitted \cup {Event(r)} ELSE admitted
         /\ log' = IF Allowed(Active) THEN Active \cup {Event(r)} ELSE Active
         /\ Event(r) \in EventType
         /\ Event(r).at = now
<1>1. now \in Time
  BY DEF Inv, TypeOK, LimiterTypeOK
<1>2. Event(r) \in EventType /\ Event(r).at = now
  BY <1>1 DEF Event, EventType
<1>3. log' = IF Allowed(Active) THEN Active \cup {Event(r)} ELSE Active
  BY DEF Eval
<1>4. log' \in SUBSET EventType
  BY <1>2, <1>3, ActiveType
<1>5. /\ Verdict(Active, log') \in DecisionType
      /\ Verdict(Active, log').allowed = Allowed(Active)
      /\ Verdict(Active, log').at = now
  BY <1>1, <1>4, ActiveType, VerdictType
<1> QED
  BY <1>2, <1>3, <1>5, Zenon DEF Eval, Answer

\* An evaluation keeps the log long enough and the quota.
LEMMA EvalStep == ASSUME Inv, NEW r \in Request, Eval(r) PROVE Inv'
<1> USE LimiterAssumption, SlidingWindowAssumption, WindowMsType DEF Inv
<1>1. /\ now \in Nat /\ peak \in Nat /\ expireAt \in Nat
      /\ now <= peak /\ peak <= now + MaxSkew
      /\ now' = now /\ peak' = peak /\ steady' = steady
  BY DEF TypeOK, LimiterTypeOK, Time, ClockInv, Eval, clock
<1>2. \A e \in admitted : e.at \in Nat
  BY DEF TypeOK, LimiterTypeOK, EventType, Time
<1>3. TypeOK'
  <2>1. admitted' \in SUBSET EventType
    BY EvalEffect DEF TypeOK, LimiterTypeOK
  <2>2. log' \in SUBSET EventType
    BY EvalEffect, ActiveType
  <2>3. expireAt' \in Nat
    BY <1>1 DEF Eval, TtlMs
  <2> QED
    BY <1>1, <2>1, <2>2, <2>3, EvalEffect DEF TypeOK, LimiterTypeOK
<1>4. IsFiniteSet(admitted')
  BY EvalEffect, FS_AddElement
<1>5. ClockInv'
  BY <1>1 DEF ClockInv
<1>6. \A e \in admitted' : e.at <= peak'
  BY <1>1, EvalEffect
<1>7. LogRemembers'
  <2>1. log' \subseteq admitted'
    BY EvalEffect, ActiveType
  <2>2. Cardinality(log') <= Rate
    <3>1. CASE Allowed(Active)
      <4>1. /\ Cardinality(Active \cup {Event(r)}) <= Cardinality(Active) + 1
            /\ Cardinality(Active \cup {Event(r)}) \in Nat
        BY ActiveType, OneMore
      <4> QED
        BY <3>1, <4>1, ActiveType, EvalEffect DEF Allowed
    <3>2. CASE ~Allowed(Active)
      BY <3>2, ActiveType, EvalEffect
    <3> QED
      BY <3>1, <3>2
  <2>3. \A e \in admitted' \ log' : e.at + WindowMs <= peak'
    <3> SUFFICES ASSUME NEW e \in admitted' \ log', e.at + WindowMs > peak PROVE FALSE
      BY <1>1, <1>2, EvalEffect
    <3>1. e \in admitted
      BY EvalEffect
    <3>2. e \in Active
      BY <3>1, ActiveRemembers
    <3> QED
      BY <3>2, EvalEffect
  <2>4. \A e \in log' : e.at + WindowMs + Second <= expireAt' + MaxSkew
    <3>1. CASE Allowed(Active)
      <4>1. expireAt' = now + WindowMs + Second
        BY <1>1, <3>1 DEF Eval, TtlMs
      <4>2. \A e \in log' : e.at \in Nat /\ e.at <= peak
        BY <1>1, <1>2, <2>1, EvalEffect
      <4> QED
        BY <1>1, <4>1, <4>2
    <3>2. CASE ~Allowed(Active)
      BY <3>2, EvalEffect, ActiveType DEF Eval, LogRemembers
    <3> QED
      BY <3>1, <3>2
  <2> QED
    BY <2>1, <2>2, <2>3, <2>4 DEF LogRemembers
<1>8. TrailingQuota'
  <2> DEFINE In(h, s) == {e \in h : e.at >= s /\ e.at < s + WindowMs - MaxSkew}
  <2> SUFFICES ASSUME NEW s \in Time
               PROVE  Cardinality(In(admitted', s)) <= Rate
    BY DEF TrailingQuota
  <2>1. CASE ~Allowed(Active) \/ ~(now >= s /\ now < s + WindowMs - MaxSkew)
    <3>1. In(admitted', s) = In(admitted, s)
      BY <2>1, EvalEffect
    <3> QED
      BY <3>1 DEF TrailingQuota
  <2>2. CASE Allowed(Active) /\ now >= s /\ now < s + WindowMs - MaxSkew
    <3>1. In(admitted', s) \in SUBSET (Active \cup {Event(r)})
      <4> SUFFICES ASSUME NEW e \in In(admitted, s) PROVE e \in Active
        BY <2>2, EvalEffect
      <4>1. e.at + WindowMs > peak
        BY <1>1, <1>2, <2>2 DEF Time
      <4> QED
        BY <4>1, ActiveRemembers
    <3>2. /\ IsFiniteSet(Active \cup {Event(r)})
          /\ Cardinality(Active \cup {Event(r)}) <= Cardinality(Active) + 1
      BY ActiveType, OneMore
    <3>3. /\ Cardinality(In(admitted', s)) <= Cardinality(Active \cup {Event(r)})
          /\ Cardinality(In(admitted', s)) \in Nat
          /\ Cardinality(Active \cup {Event(r)}) \in Nat
      BY <3>1, <3>2, FS_Subset, FS_CardinalityType
    <3> HIDE DEF In
    <3> QED
      BY <2>2, <3>2, <3>3, ActiveType DEF Allowed
  <2> QED
    BY <2>1, <2>2
<1> QED
  BY <1>3, <1>4, <1>5, <1>6, <1>7, <1>8

\* Every step keeps the invariant.
LEMMA NextInv == Inv /\ [Next]_vars => Inv'
<1> SUFFICES ASSUME Inv, [Next]_vars PROVE Inv'
  OBVIOUS
<1>1. CASE AdvanceClock
  BY <1>1, ClockStep
<1>2. CASE Expire
  BY <1>2, ExpireStep
<1>3. CASE \E r \in Request : Eval(r)
  BY <1>3, EvalStep
<1>4. CASE UNCHANGED vars
  BY <1>4 DEF vars, clock, Inv, TypeOK, LimiterTypeOK, ClockInv, LogRemembers, TrailingQuota
<1> QED
  BY <1>1, <1>2, <1>3, <1>4 DEF Next

\* Inv holds in every reachable state.
LEMMA Invariance == Spec => []Inv
  BY InitInv, NextInv, PTL DEF Spec

\* The sorted set, its expiry time and the answers keep their types.
THEOREM TypeCorrect == Spec => []TypeOK
<1>1. Inv => TypeOK
  BY DEF Inv
<1> QED
  BY <1>1, Invariance, PTL

(***************************************************************************)
(* Trimming and expiry never drop an admission the clock has not left      *)
(* WindowMs behind.                                                        *)
(***************************************************************************)
THEOREM LogRemembersHolds == Spec => []LogRemembers
<1>1. Inv => LogRemembers
  BY DEF Inv
<1> QED
  BY <1>1, Invariance, PTL

(***************************************************************************)
(* Every stretch of WindowMs - MaxSkew holds at most Rate admissions.      *)
(***************************************************************************)
THEOREM TrailingQuotaHolds == Spec => []TrailingQuota
<1>1. Inv => TrailingQuota
  BY DEF Inv
<1> QED
  BY <1>1, Invariance, PTL

\* The admissions of a history in the WindowMs before t.
Recent(h, t) == {e \in h : e.at > t - WindowMs}

\* Until the clock is set back, the log shows all that TrailingRoom asks for.
LEMMA SteadyActive ==
  ASSUME Inv, steady
  PROVE  Active = Recent(admitted, now)
<1>1. now \in Nat /\ peak \in Nat /\ now = peak /\ \A e \in admitted : e.at \in Nat
  BY LimiterAssumption DEF Inv, TypeOK, LimiterTypeOK, EventType, Time, ClockInv
<1>2. \A e \in Active : e \in admitted /\ e.at > now - WindowMs
  BY ActiveType DEF Active
<1>3. ASSUME NEW e \in admitted, e.at > now - WindowMs PROVE e \in Active
  <2>1. e.at + WindowMs > peak
    BY <1>1, <1>3, WindowMsType
  <2> QED
    BY <2>1, ActiveRemembers
<1> QED
  BY <1>2, <1>3 DEF Recent

(***************************************************************************)
(* Until the clock is first set back the trimmed and expiring log decides  *)
(* exactly as a limiter that remembers every admission would.              *)
(***************************************************************************)
THEOREM Refinement == Spec => ImplementsQuota
<1>1. Init => Promise!Init
  BY DEF Init, LimiterInit, Promise!Init
<1>2. Inv /\ [Next]_vars => [steady' => Promise!Next]_Promise!vars
  <2> SUFFICES ASSUME Inv, [Next]_vars, steady' PROVE [Promise!Next]_Promise!vars
    BY DEF Promise!vars
  <2>1. CASE AdvanceClock
    <3>1. Tick
      BY <2>1 DEF AdvanceClock, StepBack
    <3> QED
      BY <2>1, <3>1 DEF AdvanceClock, Tick, Promise!Next, Promise!Tick
  <2>2. ASSUME NEW r \in Request, Eval(r) PROVE Promise!Next
    <3>1. Active = {e \in admitted : e.at > now - WindowMs}
      BY <2>2, SteadyActive DEF Eval, clock, Recent
    <3>2. Allowed(Active) <=> TrailingRoom(admitted, now)
      BY <3>1 DEF Allowed, TrailingRoom
    <3>3. /\ reply'.allowed = Allowed(Active)
          /\ reply'.at = now
          /\ now' = now /\ steady' = steady
          /\ admitted' = IF Allowed(Active) THEN admitted \cup {Event(r)} ELSE admitted
      BY <2>2, EvalEffect DEF Eval, clock
    <3>4. CASE Allowed(Active)
      <4>1. Promise!Admit(r)
        BY <3>2, <3>3, <3>4, Zenon DEF Promise!Admit, Event
      <4> QED
        BY <4>1 DEF Promise!Next
    <3>5. CASE ~Allowed(Active)
      <4>1. Allowed(Active) = FALSE
        BY <3>5 DEF Allowed
      <4>2. Promise!Refuse
        BY <3>2, <3>3, <3>5, <4>1, Zenon DEF Promise!Refuse
      <4> QED
        BY <4>2 DEF Promise!Next
    <3> QED
      BY <3>4, <3>5
  <2>3. CASE Expire
    BY <2>3 DEF Expire, clock, Promise!vars
  <2>4. CASE UNCHANGED vars
    BY <2>4 DEF vars, clock, Promise!vars
  <2> QED
    BY <2>1, <2>2, <2>3, <2>4 DEF Next
<1> QED
  BY <1>1, <1>2, Invariance, PTL DEF Spec, ImplementsQuota, Promise!Spec
-----------------------------------------------------------------------------
(***************************************************************************)
(* What the last answer says of the history, as long as the clock is never *)
(* set back: it names the places that were left then and the moment the    *)
(* oldest admission of that stretch leaves it.                             *)
(***************************************************************************)
Tells(e) ==
  LET kept == Recent(admitted, reply.at)
  IN  /\ \A x \in kept : e.at <= x.at
      /\ reply.remaining = Rate - Cardinality(kept)
      /\ reply.reset_at = Ceil(e.at + WindowMs, Second)
      /\ ~reply.allowed =>
           /\ Cardinality(kept) = Rate
           /\ reply.retry_after = Ceil(e.at + WindowMs - reply.at, Second)

ReplyInv ==
  steady =>
    /\ reply.at <= now
    /\ admitted # {} => \E e \in Recent(admitted, reply.at) : Tells(e)

\* Some events have an oldest one, and ResetAt is when it leaves the window.
LEMMA ResetAtOldest ==
  ASSUME NEW kept \in SUBSET EventType, kept # {}
  PROVE  \E e \in kept : (\A x \in kept : e.at <= x.at) /\ ResetAt(kept) = e.at + WindowMs
<1> DEFINE S == {e.at : e \in kept}
<1>1. S \in SUBSET Nat /\ S # {}
  BY LimiterAssumption DEF EventType, Time
<1>2. ResetAt(kept) = Min(S) + WindowMs
  BY DEF ResetAt
<1>3. \A x \in kept : x.at \in S
  OBVIOUS
<1>4. \A t \in S : \E e \in kept : e.at = t
  OBVIOUS
<1> HIDE DEF S
<1>5. \E x \in S : \A y \in S : x <= y
  BY <1>1, OldestExists
<1>6. Min(S) \in S /\ \A y \in S : Min(S) <= y
  BY <1>5 DEF Min
<1> QED
  BY <1>2, <1>3, <1>4, <1>6

\* An evaluation answers with what the log it leaves behind says.
LEMMA EvalReply == ASSUME Inv, ReplyInv, NEW r \in Request, Eval(r) PROVE ReplyInv'
<1> USE LimiterAssumption, WindowMsType
<1> SUFFICES ASSUME steady' PROVE ReplyInv'
  BY DEF ReplyInv
<1>1. now' = now /\ steady /\ Inv'
  BY EvalStep DEF Eval, clock
<1>2. now \in Nat
  BY DEF Inv, TypeOK, LimiterTypeOK, Time
<1>3. reply'.at = now
  BY EvalEffect
<1>4. PICK a : a = Active
  OBVIOUS
<1>5. PICK kept : kept = log'
  OBVIOUS
<1>6. a = Recent(admitted, now) /\ IsFiniteSet(a) /\ Cardinality(a) \in Nat /\ Cardinality(a) <= Rate
  BY <1>1, <1>4, SteadyActive, ActiveType
<1>7. reply' = Verdict(a, kept)
  BY <1>4, <1>5 DEF Eval, Answer
<1>8. /\ reply'.remaining = IF Allowed(a) THEN Rate - (Cardinality(a) + 1) ELSE 0
      /\ reply'.reset_at = Ceil(ResetAt(kept), Second)
      /\ reply'.retry_after = IF Allowed(a) THEN 0 ELSE Ceil(RetryMs(kept), Second)
  BY <1>7, Zenon DEF Verdict, Decision
<1>9. reply'.allowed = Allowed(a)
  BY <1>4, EvalEffect
<1>10. Event(r) \notin a /\ Event(r).at = now
  BY <1>6 DEF Eval, Fresh, Event, Recent
<1>11. kept = IF Allowed(a) THEN a \cup {Event(r)} ELSE a
  BY <1>4, <1>5 DEF Eval
<1>12. admitted' = IF Allowed(a) THEN admitted \cup {Event(r)} ELSE admitted
  BY <1>4, EvalEffect
<1>13. kept = Recent(admitted', reply'.at)
  BY <1>2, <1>3, <1>6, <1>10, <1>11, <1>12 DEF Recent
<1>14. Cardinality(kept) = IF Allowed(a) THEN Cardinality(a) + 1 ELSE Rate
  <2>1. Cardinality(a \cup {Event(r)}) = Cardinality(a) + 1
    BY <1>6, <1>10, FS_AddElement
  <2> QED
    BY <1>6, <1>11, <2>1 DEF Allowed
<1>15. kept \in SUBSET EventType /\ kept # {}
  <2>1. kept \in SUBSET EventType
    BY <1>1, <1>5 DEF Inv, TypeOK
  <2>2. Cardinality(kept) # 0
    BY <1>6, <1>14
  <2> QED
    BY <2>1, <2>2, FS_EmptySet
<1>16. PICK e \in kept : (\A x \in kept : e.at <= x.at) /\ ResetAt(kept) = e.at + WindowMs
  BY <1>15, ResetAtOldest
<1>17. RetryMs(kept) = e.at + WindowMs - reply'.at
  <2>1. e.at \in Nat /\ e.at > now - WindowMs
    BY <1>3, <1>13, <1>15 DEF Recent, EventType, Time
  <2> QED
    BY <1>2, <1>3, <1>16, <2>1 DEF RetryMs
<1>18. reply'.remaining = Rate - Cardinality(kept)
  BY <1>6, <1>8, <1>14
<1>19. ASSUME ~reply'.allowed
       PROVE  /\ Cardinality(kept) = Rate
              /\ reply'.retry_after = Ceil(e.at + WindowMs - reply'.at, Second)
  <2>1. ~Allowed(a)
    BY <1>9, <1>19, Zenon
  <2> QED
    BY <1>8, <1>14, <1>17, <2>1
<1>20. Tells(e)'
  BY <1>8, <1>13, <1>16, <1>18, <1>19 DEF Tells
<1> QED
  BY <1>1, <1>2, <1>3, <1>13, <1>20 DEF ReplyInv

\* No step makes the last answer wrong.
LEMMA ReplyHolds == Spec => []ReplyInv
<1>1. Init => ReplyInv
  BY DEF Init, LimiterInit, ReplyInv
<1>2. Inv /\ ReplyInv /\ [Next]_vars => ReplyInv'
  <2> SUFFICES ASSUME Inv, ReplyInv, [Next]_vars PROVE ReplyInv'
    OBVIOUS
  <2>1. CASE AdvanceClock
    <3> SUFFICES ASSUME steady' PROVE ReplyInv'
      BY DEF ReplyInv
    <3>1. steady /\ now' = now + 1
      BY <2>1 DEF AdvanceClock, StepBack, Tick
    <3>2. reply.at <= now'
      BY <3>1, LimiterAssumption DEF ReplyInv, Inv, TypeOK, LimiterTypeOK, DecisionType, Time
    <3> QED
      BY <2>1, <3>1, <3>2 DEF ReplyInv, Tells, Recent, AdvanceClock
  <2>2. CASE Expire
    BY <2>2 DEF ReplyInv, Tells, Recent, Expire, clock
  <2>3. CASE \E r \in Request : Eval(r)
    BY <2>3, EvalReply
  <2>4. CASE UNCHANGED vars
    BY <2>4 DEF ReplyInv, Tells, Recent, vars, clock
  <2> QED
    BY <2>1, <2>2, <2>3, <2>4 DEF Next
<1> QED
  BY <1>1, <1>2, Invariance, PTL DEF Spec

(***************************************************************************)
(* Until the clock is first set back, X-RateLimit-Remaining is the places  *)
(* left, X-RateLimit-Reset is no earlier than the moment one is given      *)
(* back, and Retry-After is that moment rounded up to a second, no more.   *)
(***************************************************************************)
THEOREM HeadersExactHolds == Spec => []HeadersExact
<1>1. ASSUME Inv, ReplyInv PROVE HeadersExact
  <2> SUFFICES ASSUME steady, admitted # {} PROVE HeadersExact
    BY DEF HeadersExact
  <2> USE LimiterAssumption, WindowMsType
  <2>1. PICK kept : kept = Recent(admitted, reply.at)
    OBVIOUS
  <2>2. PICK e \in kept : Tells(e)
    BY <1>1, <2>1 DEF ReplyInv
  <2>3. /\ \A x \in kept : e.at <= x.at
        /\ reply.remaining = Rate - Cardinality(kept)
        /\ reply.reset_at = Ceil(e.at + WindowMs, Second)
        /\ ~reply.allowed =>
             /\ Cardinality(kept) = Rate
             /\ reply.retry_after = Ceil(e.at + WindowMs - reply.at, Second)
    BY <2>1, <2>2 DEF Tells
  <2>4. /\ now \in Nat /\ reply.at \in Nat /\ reply.at <= now
        /\ \A x \in admitted : x.at \in Nat
    BY <1>1 DEF ReplyInv, Inv, TypeOK, LimiterTypeOK, DecisionType, EventType, Time
  <2>5. /\ kept \subseteq admitted
        /\ e.at \in Nat /\ e.at > reply.at - WindowMs
    BY <2>1, <2>4 DEF Recent
  <2>6. IsFiniteSet(kept) /\ Cardinality(kept) \in Nat
    BY <1>1, <2>5, FS_Subset, FS_CardinalityType DEF Inv
  <2>7. PICK a : a = Active
    OBVIOUS
  <2>8. a = Recent(admitted, now)
    BY <1>1, <2>7, SteadyActive
  <2>9. a \in SUBSET kept
    BY <2>1, <2>4, <2>8 DEF Recent
  <2>10. Cardinality(a) \in Nat /\ Cardinality(a) <= Cardinality(kept)
    BY <2>6, <2>9, FS_Subset, FS_CardinalityType
  <2>11. ASSUME now >= e.at + WindowMs PROVE Cardinality(a) < Cardinality(kept)
    <3>1. e \notin a
      BY <2>4, <2>5, <2>8, <2>11 DEF Recent
    <3>2. Cardinality(kept) # Cardinality(a)
      BY <2>6, <2>9, <3>1, FS_Subset
    <3> QED
      BY <2>6, <2>10, <3>2
  <2>12. ASSUME now < e.at + WindowMs PROVE a = kept
    <3>1. \A x \in kept : x \in a
      BY <2>3, <2>4, <2>5, <2>8, <2>12 DEF Recent
    <3> QED
      BY <2>9, <3>1
  <2>13. ASSUME reply.allowed, now = reply.at PROVE reply.remaining = Rate - Cardinality(Active)
    BY <2>1, <2>3, <2>7, <2>8, <2>13
  <2>14. ASSUME now >= reply.reset_at * Second
         PROVE  Cardinality(Active) < Rate - reply.remaining
    <3>1. e.at + WindowMs \in Nat
      BY <2>5
    <3>2. reply.reset_at * Second >= e.at + WindowMs /\ reply.reset_at * Second \in Nat
      BY <2>3, <3>1, WholeSeconds, Zenon
    <3>3. now >= e.at + WindowMs
      BY <2>4, <2>14, <3>1, <3>2
    <3> QED
      BY <2>3, <2>6, <2>7, <2>10, <2>11, <3>3
  <2>15. ASSUME ~reply.allowed
         PROVE  LET retryAt == reply.at + reply.retry_after * Second
                IN  /\ now >= retryAt => Allowed(Active)
                    /\ now <= retryAt - Second => ~Allowed(Active)
    <3>1. PICK wait : wait = e.at + WindowMs - reply.at
      OBVIOUS
    <3>2. wait \in Nat
      BY <2>4, <2>5, <3>1
    <3>3. reply.retry_after = Ceil(wait, Second) /\ Cardinality(kept) = Rate
      BY <2>3, <2>15, <3>1
    <3>4. PICK ms \in Nat : ms = reply.retry_after * Second
      BY <3>2, <3>3, WholeSeconds, Zenon
    <3>5. ms >= wait /\ ms - Second < wait
      BY <3>2, <3>3, <3>4, WholeSeconds, Zenon
    <3>6. now >= reply.at + ms => now >= e.at + WindowMs
      BY <2>4, <2>5, <3>1, <3>2, <3>4, <3>5
    <3>7. now <= reply.at + ms - Second => now < e.at + WindowMs
      BY <2>4, <2>5, <3>1, <3>2, <3>4, <3>5
    <3>8. now >= e.at + WindowMs => Allowed(Active)
      BY <2>7, <2>11, <3>3 DEF Allowed
    <3>9. now < e.at + WindowMs => ~Allowed(Active)
      BY <2>7, <2>12, <3>3 DEF Allowed
    <3> QED
      BY <2>4, <3>4, <3>6, <3>7, <3>8, <3>9
  <2>16. reply.allowed /\ now = reply.at => reply.remaining = Rate - Cardinality(Active)
    BY <2>13
  <2>17. now >= reply.reset_at * Second => Cardinality(Active) < Rate - reply.remaining
    BY <2>14
  <2> QED
    BY <2>15, <2>16, <2>17 DEF HeadersExact
<1> QED
  BY <1>1, Invariance, ReplyHolds, PTL
=============================================================================
