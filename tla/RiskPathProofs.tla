---------------------------- MODULE RiskPathProofs ----------------------------
(***************************************************************************)
(* What one call of EvaluateMechanicalExit returns, and what the sequence  *)
(* of checks made by a single caller preserves, for every rule set,        *)
(* premium and set of prices, whichever of its writes fail.                *)
(***************************************************************************)
EXTENDS RiskPath, ExtremaAndFolds

(* One call of the evaluator.                                              *)

\* The rule that wins is the earliest rule that fires, so a reason is always a
\* documented one and its rule did fire.
LEMMA FirstMatchFires ==
  ASSUME NEW pos, NEW mid
  PROVE  \/ /\ FirstMatch(pos, mid) = NoExit
            /\ \A i \in 1..6 : ~Fires(Priority[i], pos, mid)
         \/ \E i \in 1..6 :
              /\ FirstMatch(pos, mid) = Priority[i]
              /\ Fires(Priority[i], pos, mid)
              /\ \A j \in 1..6 : j < i => ~Fires(Priority[j], pos, mid)
<1> DEFINE hits == {i \in 1..6 : Fires(Priority[i], pos, mid)}
<1>1. CASE hits = {}
  BY <1>1 DEF FirstMatch
<1>2. CASE hits # {}
  <2>1. \E i \in hits : \A j \in hits : i <= j
    BY <1>2, NaturalsHaveMin
  <2>2. PICK i : i = CHOOSE h \in hits : \A j \in hits : h <= j
    OBVIOUS
  <2>3. i \in hits /\ \A j \in hits : i <= j
    BY <2>1, <2>2
  <2>4. FirstMatch(pos, mid) = Priority[i]
    BY <1>2, <2>2 DEF FirstMatch
  <2> QED
    BY <2>3, <2>4
<1> QED
  BY <1>1, <1>2

Reason == ExitReasons \cup {NoExit}

LEMMA FirstMatchType ==
  ASSUME NEW pos, NEW mid
  PROVE  FirstMatch(pos, mid) \in Reason
  BY FirstMatchFires DEF Reason, ExitReasons

\* What the caller persists never moves backwards relative to what it loaded.
THEOREM EvaluateMonotone ==
  ASSUME NEW pos, NEW mid \in Nat,
         pos.peak \in Nat, pos.trailing \in BOOLEAN
  PROVE  /\ Evaluate(pos, mid).peak >= pos.peak
         /\ pos.trailing => Evaluate(pos, mid).trailing
  BY DEF Evaluate, RaisedPeak, Armed

\* A hold means that no rule fires; a stop loss is never masked by another rule.
THEOREM HoldMeansNoRuleFires ==
  ASSUME NEW pos, NEW mid, Evaluable(pos, mid)
  PROVE  /\ Evaluate(pos, mid).reason = NoExit
              => \A i \in 1..6 : ~Fires(Priority[i], pos, mid)
         /\ StopLossHit(pos.premium, mid)
              => Evaluate(pos, mid).reason = "PREMIUM_STOP_LOSS"
<1>1. Evaluate(pos, mid).reason = FirstMatch(pos, mid)
  BY DEF Evaluate
<1>2. \A i \in 1..6 : Priority[i] # NoExit
  BY DEF Priority, NoExit
<1>3. FirstMatch(pos, mid) = NoExit => \A i \in 1..6 : ~Fires(Priority[i], pos, mid)
  BY <1>2, FirstMatchFires
<1>4. StopLossHit(pos.premium, mid) => FirstMatch(pos, mid) = "PREMIUM_STOP_LOSS"
  <2> SUFFICES ASSUME StopLossHit(pos.premium, mid)
               PROVE  FirstMatch(pos, mid) = "PREMIUM_STOP_LOSS"
    OBVIOUS
  <2>1. Priority[1] = "PREMIUM_STOP_LOSS"
    BY DEF Priority
  <2>2. Fires(Priority[1], pos, mid)
    BY <2>1 DEF Fires
  <2>3. PICK i \in 1..6 : /\ FirstMatch(pos, mid) = Priority[i]
                          /\ \A j \in 1..6 : j < i => ~Fires(Priority[j], pos, mid)
    BY <2>2, FirstMatchFires
  <2>4. i = 1
    BY <2>2, <2>3
  <2> QED
    BY <2>1, <2>3, <2>4
<1> QED
  BY <1>1, <1>3, <1>4

-------------------------------------------------------------------------------
(* The checks of one caller.                                               *)

\* The inductive invariant: the type, the peak and the flag together.
PathInv ==
  /\ TypeOK
  /\ PeakIsHighestStored
  /\ ArmedIffFollowedThrough

LEMMA RiskPathInit == Init => PathInv
<1> SUFFICES ASSUME Init PROVE PathInv
  OBVIOUS
<1>1. TypeOK
  <2>1. 0 \in 0..LastDay
    BY RiskPathAssumption
  <2>2. NoCheck \in [mid : Mids \cup {0}, day : 0..LastDay,
                    reason : ExitReasons \cup {NoExit}]
    BY <2>1 DEF NoCheck
  <2> QED
    BY <2>1, <2>2 DEF Init, TypeOK
<1>2. PeakIsHighestStored /\ ArmedIffFollowedThrough
  BY DEF Init, PeakIsHighestStored, ArmedIffFollowedThrough
<1> QED
  BY <1>1, <1>2 DEF PathInv

\* What a check reads of the model's variables to get to its decision, and what
\* becomes of it: the row is brought up to date or left as it was.
LEMMA CheckDecision ==
  ASSUME PathInv, NEW mid \in Mids, NEW u \in Quotes, Check(mid, u)
  PROVE  /\ last' = [mid |-> mid, day |-> days, reason |-> FirstMatch(RiskState(u), mid)]
         /\ \/ /\ peak' = RaisedPeak(RiskState(u), mid)
               /\ trailing' = Armed(RiskState(u), mid)
               /\ stored' = stored \cup {mid} /\ lost' = lost
            \/ /\ peak' = peak /\ trailing' = trailing
               /\ stored' = stored /\ lost' = lost \cup {mid}
<1>1. Evaluable(RiskState(u), mid)
  BY RiskPathAssumption DEF Evaluable, RiskState, Check
<1> QED
  BY <1>1 DEF Check, Persist, Evaluate

LEMMA RiskPathNext == PathInv /\ [Next]_vars => PathInv'
<1> SUFFICES ASSUME PathInv, [Next]_vars PROVE PathInv'
  OBVIOUS
<1> USE DEF PathInv
<1>1. ASSUME NEW mid \in Mids, NEW u \in Quotes, Check(mid, u)
      PROVE  PathInv'
  <2>1. /\ last' = [mid |-> mid, day |-> days, reason |-> FirstMatch(RiskState(u), mid)]
        /\ \/ /\ peak' = (IF mid > peak THEN mid ELSE peak)
              /\ trailing' = (trailing \/ FollowedThrough(Premium, mid))
              /\ stored' = stored \cup {mid} /\ lost' = lost
           \/ /\ peak' = peak /\ trailing' = trailing
              /\ stored' = stored /\ lost' = lost \cup {mid}
    BY <1>1, CheckDecision DEF RaisedPeak, Armed, RiskState
  <2>2. FirstMatch(RiskState(u), mid) \in Reason
    BY FirstMatchType
  <2>3. FollowedThrough(Premium, mid) \in BOOLEAN
    BY DEF FollowedThrough
  <2>4. TypeOK'
    <3>1. last' \in [mid : Mids \cup {0}, day : 0..LastDay,
                    reason : ExitReasons \cup {NoExit}]
      BY <2>1, <2>2 DEF TypeOK, Reason
    <3>2. open' \in BOOLEAN
      BY <1>1 DEF Check
    <3>3. /\ trailing' \in BOOLEAN /\ peak' \in Mids \cup {0}
          /\ stored' \subseteq Mids /\ lost' \subseteq Mids
      BY <2>1, <2>3 DEF TypeOK
    <3>4. UNCHANGED <<days, direction, level>>
      BY <1>1 DEF Check
    <3> QED
      BY <3>1, <3>2, <3>3, <3>4 DEF TypeOK
  <2>5. PeakIsHighestStored'
    <3>1. /\ peak \in Nat /\ mid \in Nat /\ mid > 0
          /\ \A p \in stored \cup lost : p \in Nat
      BY RiskPathAssumption DEF TypeOK
    <3>2. CASE /\ peak' = (IF mid > peak THEN mid ELSE peak)
               /\ stored' = stored \cup {mid} /\ lost' = lost
      <4>1. stored = {} => peak = 0
        BY DEF PeakIsHighestStored
      <4>2. peak' \in stored'
        BY <3>1, <3>2, <4>1 DEF PeakIsHighestStored
      <4>3. ASSUME NEW p \in stored' \cup lost', p > peak'
            PROVE  p \in lost' \ stored'
        <5>1. p \in Nat /\ p # mid /\ p > peak
          BY <3>1, <3>2, <4>3
        <5>2. p \in lost \ stored
          BY <3>2, <5>1 DEF PeakIsHighestStored
        <5> QED
          BY <3>2, <5>1, <5>2
      <4> QED
        BY <4>2, <4>3 DEF PeakIsHighestStored
    <3>3. CASE /\ peak' = peak
               /\ stored' = stored /\ lost' = lost \cup {mid}
      <4>1. mid > peak => mid \notin stored
        BY DEF PeakIsHighestStored
      <4> QED
        BY <3>3, <4>1 DEF PeakIsHighestStored
    <3> QED
      BY <2>1, <3>2, <3>3
  <2>6. ArmedIffFollowedThrough'
    <3>1. CASE /\ trailing' = (trailing \/ FollowedThrough(Premium, mid))
               /\ stored' = stored \cup {mid}
      BY <3>1, Zenon DEF ArmedIffFollowedThrough
    <3>2. CASE trailing' = trailing /\ stored' = stored
      BY <3>2, Zenon DEF ArmedIffFollowedThrough
    <3> QED
      BY <2>1, <3>1, <3>2
  <2> QED
    BY <2>4, <2>5, <2>6
<1>2. CASE NextDay
  BY <1>2, RiskPathAssumption
     DEF NextDay, TypeOK, PeakIsHighestStored, ArmedIffFollowedThrough
<1>3. CASE UNCHANGED vars
  BY <1>3 DEF vars, TypeOK, PeakIsHighestStored, ArmedIffFollowedThrough
<1> QED
  BY <1>1, <1>2, <1>3 DEF Next

\* The position and the history variables keep their types.
THEOREM RiskPathTypeCorrect == Spec => []TypeOK
  BY RiskPathInit, RiskPathNext, PTL DEF Spec, PathInv

\* For every premium, price set and rule set, and whichever writes fail: the
\* stored peak is the highest price that was written.
THEOREM PeakCorrect == Spec => []PeakIsHighestStored
  BY RiskPathInit, RiskPathNext, PTL DEF Spec, PathInv

\* And the trailing stop is armed exactly when a check that saw the gain wrote it.
THEOREM TrailingCorrect == Spec => []ArmedIffFollowedThrough
  BY RiskPathInit, RiskPathNext, PTL DEF Spec, PathInv

\* The properties of the latest decision: each relates it to the history of
\* prices, through the peak and the trailing flag the check had in memory.
DecisionInv ==
  /\ HoldIsInsideEveryBand
  /\ TimeStopSparesFollowThrough
  /\ StopLossTakesPrecedence

LEMMA DecisionInit == Init => DecisionInv
  BY DEF Init, DecisionInv, NoCheck, NoExit, HoldIsInsideEveryBand,
         TimeStopSparesFollowThrough, StopLossTakesPrecedence

LEMMA DecisionNext == PathInv /\ PathInv' /\ DecisionInv /\ [Next]_vars => DecisionInv'
<1> SUFFICES ASSUME PathInv, PathInv', DecisionInv, [Next]_vars PROVE DecisionInv'
  OBVIOUS
<1>1. ASSUME NEW mid \in Mids, NEW u \in Quotes, Check(mid, u)
      PROVE  DecisionInv'
  <2> DEFINE rs   == RiskState(u)
             high == RaisedPeak(rs, mid)
             up   == Armed(rs, mid)
  <2>1. /\ last' = [mid |-> mid, day |-> days, reason |-> FirstMatch(rs, mid)]
        /\ \/ stored' = stored \cup {mid} /\ lost' = lost
           \/ stored' = stored /\ lost' = lost \cup {mid}
    BY <1>1, CheckDecision
  <2>2. Evaluable(rs, mid)
    BY <1>1, RiskPathAssumption DEF Evaluable, RiskState, Check
  <2>3. rs.premium = Premium /\ rs.days = days
    BY DEF RiskState
  <2>4. Evaluate(rs, mid).reason = FirstMatch(rs, mid)
    BY <2>2 DEF Evaluate
  <2>5. mid > 0
    BY RiskPathAssumption
  \* What the check has in memory sums up what it knows, written or not.
  <2>6. /\ Known' = stored \cup {mid}
        /\ up <=> \E p \in Known' : FollowedThrough(Premium, p)
    <3>1. Known' = stored \cup {mid}
      BY <2>1 DEF Known
    <3>2. up <=> trailing \/ FollowedThrough(Premium, mid)
      BY DEF Armed, RiskState
    <3> QED
      BY <3>1, <3>2 DEF PathInv, ArmedIffFollowedThrough
  <2>7. StopLossTakesPrecedence'
    BY <2>1, <2>2, <2>3, <2>4, HoldMeansNoRuleFires DEF StopLossTakesPrecedence
  <2>8. TimeStopSparesFollowThrough'
    <3> SUFFICES ASSUME FirstMatch(rs, mid) = "TIME_STOP_NO_FOLLOWTHROUGH",
                        NEW p \in stored' \cup lost', FollowedThrough(Premium, p)
                 PROVE  p \in lost' \ (stored' \cup {mid})
      BY <2>1 DEF TimeStopSparesFollowThrough
    <3>1. PICK i \in 1..6 : FirstMatch(rs, mid) = Priority[i] /\ Fires(Priority[i], rs, mid)
      BY FirstMatchFires DEF NoExit
    <3>2. Fires("TIME_STOP_NO_FOLLOWTHROUGH", rs, mid)
      BY <3>1
    <3>3. ~up
      BY <3>2 DEF Fires, TimeStopHit
    <3>4. p \notin stored \cup {mid}
      BY <2>6, <3>3
    <3> QED
      BY <2>1, <3>4
  <2>9. HoldIsInsideEveryBand'
    <3> SUFFICES ASSUME FirstMatch(rs, mid) = NoExit
                 PROVE  /\ ~StopLossHit(Premium, mid)
                        /\ ~TakeProfitHit(Premium, mid)
                        /\ up => \A p \in Known' : ~GivenBack(p, mid)
                        /\ MaxHoldDays > 0 => days < MaxHoldDays
      BY <2>1, <2>6 DEF HoldIsInsideEveryBand
    <3>1. \A i \in 1..6 : ~Fires(Priority[i], rs, mid)
      BY <2>2, <2>4, HoldMeansNoRuleFires
    <3>2. /\ ~Fires("PREMIUM_STOP_LOSS", rs, mid)
          /\ ~Fires("PREMIUM_TAKE_PROFIT", rs, mid)
          /\ ~Fires("PREMIUM_TRAILING_GIVEBACK", rs, mid)
          /\ ~Fires("MAX_HOLD_DAYS_REACHED", rs, mid)
      BY <3>1 DEF Priority
    <3>3. ~StopLossHit(Premium, mid) /\ ~TakeProfitHit(Premium, mid)
      BY <2>3, <3>2 DEF Fires
    <3>4. MaxHoldDays > 0 => days < MaxHoldDays
      BY <2>3, <3>2, ExitRulesAssumption DEF Fires, MaxHoldReached, PathInv, TypeOK
    <3>5. up => ~GivenBack(high, mid)
      BY <3>2 DEF Fires
    <3>6. ASSUME up, NEW p \in Known' PROVE ~GivenBack(p, mid)
      <4>0. high = IF mid > peak THEN mid ELSE peak
        BY DEF RaisedPeak, RiskState
      <4>1. p <= high /\ p \in Nat /\ high \in Nat /\ mid \in Nat
        <5>1. stored \subseteq Nat /\ peak \in Nat /\ mid \in Nat
          BY RiskPathAssumption DEF PathInv, TypeOK
        <5>2. \A q \in stored : q <= peak
          BY <5>1 DEF PathInv, PeakIsHighestStored
        <5> QED
          BY <2>6, <4>0, <5>1, <5>2
      <4>2. high > 0
        BY <4>0, <4>1, <2>5
      <4> HIDE DEF high, up
      <4>3. PICK g \in Nat : g = 100 - GivebackPct
        BY ExitRulesAssumption
      <4>4. \A a, b \in Nat : a <= b => a * g <= b * g /\ a * g \in Nat /\ b * g \in Nat
        BY SMT
      <4>5. p * g <= high * g /\ p * g \in Nat /\ high * g \in Nat
        BY <4>1, <4>4
      <4>6. ~(100 * mid <= high * g)
        BY <3>5, <3>6, <4>2, <4>3 DEF GivenBack
      <4>7. ~(100 * mid <= p * g)
        <5>1. \A x, y, z \in Nat : z <= y /\ ~(x <= y) => ~(x <= z)
          OBVIOUS
        <5>2. 100 * mid \in Nat
          BY <4>1
        <5> QED
          BY <4>5, <4>6, <5>1, <5>2, Zenon
      <4> QED
        BY <4>3, <4>7 DEF GivenBack
    <3> QED
      BY <3>3, <3>4, <3>5, <3>6
  <2> QED
    BY <2>7, <2>8, <2>9 DEF DecisionInv
<1>2. CASE NextDay
  BY <1>2 DEF NextDay, DecisionInv, Known, HoldIsInsideEveryBand,
              TimeStopSparesFollowThrough, StopLossTakesPrecedence
<1>3. CASE UNCHANGED vars
  BY <1>3 DEF vars, DecisionInv, Known, HoldIsInsideEveryBand,
              TimeStopSparesFollowThrough, StopLossTakesPrecedence
<1> QED
  BY <1>1, <1>2, <1>3 DEF Next

\* A check that holds leaves the premium inside every documented band of the prices
\* it knows of, for every rule set and whichever writes failed before or fail now.
THEOREM HoldCorrect == Spec => []HoldIsInsideEveryBand
  BY RiskPathInit, RiskPathNext, DecisionInit, DecisionNext, PTL DEF Spec, DecisionInv

\* A time stop of a position that followed through takes a failed write at every
\* check that saw it, for every rule set and every set of prices.
THEOREM TimeStopCorrect == Spec => []TimeStopSparesFollowThrough
  BY RiskPathInit, RiskPathNext, DecisionInit, DecisionNext, PTL DEF Spec, DecisionInv

\* Nothing masks a stop loss.
THEOREM StopLossCorrect == Spec => []StopLossTakesPrecedence
  BY RiskPathInit, RiskPathNext, DecisionInit, DecisionNext, PTL DEF Spec, DecisionInv
===============================================================================
