---------------------------- MODULE HotTierProofs ----------------------------
(***************************************************************************)
(* Proofs about the hot tier, for every set of payments, every amount and  *)
(* every policy dial.  The inductive invariant is IInv: the counter and    *)
(* the holds agree, and the two ceilings hold for every instant, not only  *)
(* for those the clock has reached (a tick must not need a new argument).  *)
(***************************************************************************)
EXTENDS HotTier, FiniteSetTheorems, TLAPS

-----------------------------------------------------------------------------
(* Facts about the measure and the window *)

\* Adding up fewer payments never gives more.
LEMMA TotalMonotone ==
    ASSUME NEW S \in SUBSET Payments, NEW T \in SUBSET Payments, S \subseteq T
    PROVE  Total[S] <= Total[T]
<1>1. T = S \cup (T \ S) /\ S \cap (T \ S) = {}
  OBVIOUS
<1>2. Total[T] = Total[S] + Total[T \ S]
  BY <1>1, MeasureAssumption
<1>3. Total[S] \in Nat /\ Total[T \ S] \in Nat
  BY MeasureAssumption
<1> QED
  BY <1>2, <1>3

\* Taking in one payment adds its amount.
LEMMA TotalAdd ==
    ASSUME NEW S \in SUBSET Payments, NEW p \in Payments, p \notin S
    PROVE  Total[S \cup {p}] = Total[S] + Amount[p]
<1>1. S \cap {p} = {} /\ {p} \in SUBSET Payments
  OBVIOUS
<1> QED
  BY <1>1, MeasureAssumption

\* Dropping one payment subtracts its amount, and the clamp of subtract_decimal is idle.
LEMMA TotalRemove ==
    ASSUME NEW S \in SUBSET Payments, NEW p \in S
    PROVE  Subtract(Total[S], Amount[p]) = Total[S \ {p}]
<1>1. S = (S \ {p}) \cup {p} /\ p \notin S \ {p}
  OBVIOUS
<1>2. Total[S] = Total[S \ {p}] + Amount[p]
  BY <1>1, TotalAdd
<1>3. Total[S] \in Nat /\ Total[S \ {p}] \in Nat /\ Amount[p] \in Nat
  BY MeasureAssumption
<1> QED
  BY <1>2, <1>3 DEF Subtract

\* A tumbling window never starts after an instant it contains.
LEMMA WindowStartBound ==
    ASSUME NEW t \in Nat
    PROVE  WindowStart(t) \in Int /\ WindowStart(t) <= t
BY DialAssumption DEF WindowStart

-----------------------------------------------------------------------------
(* Type correctness *)

\* The parts of the state a step can leave its type through are the counter and the scores.
LEMMA TypeStep == TypeOK /\ [Next]_vars => TypeOK'
<1> SUFFICES ASSUME TypeOK, [Next]_vars PROVE TypeOK'
  OBVIOUS
<1> USE DEF TypeOK, holdVars, floatVars
<1>0. \A p \in Payments : Amount[p] \in Nat
  BY MeasureAssumption
<1>1. ASSUME NEW p \in Payments, NEW t \in 0 .. hour, ReserveHoldWithinPolicy(p, t)
      PROVE  TypeOK'
  BY <1>0, <1>1 DEF ReserveHoldWithinPolicy
<1>2. ASSUME NEW p \in Payments, SettleHold(p) PROVE TypeOK'
  BY <1>0, <1>2 DEF SettleHold, Subtract
<1>3. ASSUME NEW p \in Payments, ReleaseHold(p) PROVE TypeOK'
  BY <1>0, <1>3 DEF ReleaseHold, Subtract
<1>4. ASSUME NEW n \in 1 .. MaxFloat, ConfirmFloat(n) PROVE TypeOK'
  BY <1>4, DialAssumption DEF ConfirmFloat
<1>5. ASSUME NEW t \in Teardowns, ReadFloat(t) \/ DecrFloat(t) PROVE TypeOK'
  BY <1>5 DEF ReadFloat, DecrFloat
<1>6. CASE Tick
  BY <1>6 DEF Tick
<1>7. CASE UNCHANGED vars
  BY <1>7 DEF vars
<1> QED
  BY <1>1, <1>2, <1>3, <1>4, <1>5, <1>6, <1>7 DEF Next

\* Every key of the hot tier always holds a value of its kind (the counter never goes
\* below zero and every id in a set belongs to a payment).
THEOREM TypeCorrect == Spec => []TypeOK
<1>1. Init => TypeOK
  BY DEF Init, TypeOK
<1> QED
  BY <1>1, TypeStep, PTL DEF Spec

-----------------------------------------------------------------------------
(* The inductive invariant *)

InWindow(t) == {p \in counted : WindowStart(score[p]) = WindowStart(t)}
InHour(t) == {p \in counted : score[p] = t}

CapAlways == \A t \in Nat : Total[InWindow(t)] <= SpendCap
VelocityAlways == \A t \in Nat : Cardinality(InHour(t)) <= VelocityLimit

IInv ==
    /\ TypeOK
    /\ HoldsAreCounted
    /\ CounterMatchesHolds
    /\ CapAlways
    /\ VelocityAlways
    /\ HoldsWithinFloat

\* Nothing is held or counted in a fresh hot tier.
LEMMA InitIInv == Init => IInv
<1> SUFFICES ASSUME Init PROVE IInv
  OBVIOUS
<1>1. counted = {} /\ reservedHolds = {} /\ settledHolds = {} /\ reserved = 0
  BY DEF Init
<1>2. \A t : InWindow(t) = {} /\ InHour(t) = {}
  BY <1>1 DEF InWindow, InHour
<1>3. Total[{}] = 0 /\ Cardinality({}) = 0
  BY MeasureAssumption, FS_EmptySet
<1>4. TypeOK
  BY DEF Init, TypeOK
<1>5. HoldsWithinFloat
  BY <1>1 DEF HoldsWithinFloat
<1>6. CapAlways /\ VelocityAlways
  BY <1>2, <1>3, DialAssumption DEF CapAlways, VelocityAlways
<1> QED
  BY <1>1, <1>3, <1>4, <1>5, <1>6 DEF IInv, HoldsAreCounted, CounterMatchesHolds

\* The script that writes: its three ceilings are checked against the very members it is
\* about to join.
LEMMA ReserveKeeps ==
    ASSUME IInv, NEW p \in Payments, NEW t \in 0 .. hour, ReserveHoldWithinPolicy(p, t)
    PROVE  IInv'
<1> USE DEF IInv
<1>1. p \notin counted /\ p \notin reservedHolds /\ p \notin settledHolds
  BY DEF ReserveHoldWithinPolicy, ReserveResult, HoldsAreCounted
<1>2. /\ HourCount(t) < VelocityLimit
      /\ WindowSum(t) + Amount[p] <= SpendCap
      /\ p \in FloatBacked => ~Insolvent(p)
  <2>1. ReserveResult(p, t) = "reserved" /\ p \notin counted
    BY <1>1 DEF ReserveHoldWithinPolicy
  <2>2. WindowSum(t) \in Nat /\ Amount[p] \in Nat
    BY MeasureAssumption DEF WindowSum, TypeOK
  <2>3. HourCount(t) \in Nat
    <3>1. {q \in counted : score[q] >= t} \subseteq Payments
      BY DEF TypeOK
    <3> QED
      BY <3>1, MeasureAssumption, FS_Subset, FS_CardinalityType DEF HourCount
  <2>4. ~(HourCount(t) >= VelocityLimit) /\ ~(WindowSum(t) + Amount[p] > SpendCap)
        /\ ~(p \in FloatBacked /\ Insolvent(p))
    BY <2>1 DEF ReserveResult
  <2> QED
    BY <2>2, <2>3, <2>4, DialAssumption
<1>3. /\ counted' = counted \cup {p}
      /\ reservedHolds' = reservedHolds \cup {p}
      /\ settledHolds' = settledHolds
      /\ reserved' = reserved + Amount[p]
      /\ floatConfirmed' = floatConfirmed
      /\ caught' = caught \ {p}
      /\ score' = [score EXCEPT ![p] = t]
  BY DEF ReserveHoldWithinPolicy, floatVars
<1>4. t \in Nat
  BY DEF TypeOK
<1>5. score' \in [Payments -> Nat] /\ score'[p] = t
      /\ \A q \in counted : q # p /\ q \in Payments /\ score'[q] = score[q]
  BY <1>1, <1>3, <1>4 DEF TypeOK
<1>6. TypeOK'
  <2>1. [Next]_vars
    BY DEF Next
  <2> QED
    BY <2>1, TypeStep
<1>7. HoldsAreCounted'
  BY <1>1, <1>3 DEF HoldsAreCounted
<1>8. CounterMatchesHolds'
  BY <1>1, <1>3, TotalAdd DEF CounterMatchesHolds, TypeOK
<1>9. CapAlways'
  <2> SUFFICES ASSUME NEW u \in Nat PROVE Total[InWindow(u)'] <= SpendCap
    BY DEF CapAlways, InWindow
  <2>1. CASE WindowStart(t) = WindowStart(u)
    <3>1. InWindow(u)' = InWindow(u) \cup {p}
      BY <2>1, <1>3, <1>5 DEF InWindow, WindowStart
    <3>2. InWindow(u) \subseteq {q \in counted : score[q] >= WindowStart(t)}
      BY <2>1, WindowStartBound DEF InWindow, TypeOK
    <3>3. {q \in counted : score[q] >= WindowStart(t)} \in SUBSET Payments
          /\ InWindow(u) \in SUBSET Payments /\ p \notin InWindow(u)
      BY <1>1 DEF TypeOK, InWindow
    <3>4. Total[InWindow(u)] <= WindowSum(t)
      BY <3>2, <3>3, TotalMonotone DEF WindowSum
    <3>5. Total[InWindow(u)'] = Total[InWindow(u)] + Amount[p]
      BY <3>1, <3>3, TotalAdd
    <3>6. /\ Total[InWindow(u)] \in Nat /\ Amount[p] \in Nat /\ WindowSum(t) \in Nat
      BY <3>3, MeasureAssumption DEF WindowSum
    <3> QED
      BY <3>4, <3>5, <3>6, <1>2, DialAssumption
  <2>2. CASE WindowStart(t) # WindowStart(u)
    <3>1. InWindow(u)' = InWindow(u)
      BY <2>2, <1>3, <1>5 DEF InWindow, WindowStart
    <3> QED
      BY <3>1 DEF CapAlways
  <2> QED
    BY <2>1, <2>2
<1>10. VelocityAlways'
  <2> SUFFICES ASSUME NEW u \in Nat PROVE Cardinality(InHour(u)') <= VelocityLimit
    BY DEF VelocityAlways, InHour
  <2>1. CASE u = t
    <3>1. InHour(u)' = InHour(u) \cup {p} /\ p \notin InHour(u)
      BY <2>1, <1>1, <1>3, <1>5 DEF InHour
    <3>2. InHour(u) \subseteq {q \in counted : score[q] >= t}
      BY <2>1 DEF InHour, TypeOK
    <3>3. IsFiniteSet({q \in counted : score[q] >= t})
      <4>1. {q \in counted : score[q] >= t} \subseteq Payments
        BY DEF TypeOK
      <4> QED
        BY <4>1, MeasureAssumption, FS_Subset
    <3>4. IsFiniteSet(InHour(u)) /\ Cardinality(InHour(u)) <= HourCount(t)
      BY <3>2, <3>3, FS_Subset DEF HourCount
    <3>5. Cardinality(InHour(u)') = Cardinality(InHour(u)) + 1
      BY <3>1, <3>4, FS_AddElement
    <3>6. Cardinality(InHour(u)) \in Nat /\ HourCount(t) \in Nat
      BY <3>3, <3>4, FS_CardinalityType DEF HourCount
    <3> QED
      BY <3>4, <3>5, <3>6, <1>2, DialAssumption
  <2>2. CASE u # t
    <3>1. InHour(u)' = InHour(u)
      BY <2>2, <1>3, <1>5 DEF InHour
    <3> QED
      BY <3>1 DEF VelocityAlways
  <2> QED
    BY <2>1, <2>2
<1>11. HoldsWithinFloat'
  <2>1. CASE p \in FloatBacked
    <3>1. (reservedHolds \cap FloatBacked) \cup {p} = reservedHolds' \cap FloatBacked
          /\ p \notin reservedHolds \cap FloatBacked
          /\ reservedHolds \cap FloatBacked \in SUBSET Payments
      BY <2>1, <1>1, <1>3 DEF TypeOK
    <3>2. Total[reservedHolds' \cap FloatBacked]
            = Total[reservedHolds \cap FloatBacked] + Amount[p]
      BY <3>1, TotalAdd
    <3>3. Total[reservedHolds \cap FloatBacked] <= reserved
      BY <3>1, TotalMonotone DEF CounterMatchesHolds, TypeOK
    <3>4. Total[reservedHolds \cap FloatBacked] \in Nat /\ Amount[p] \in Nat
      BY <3>1, MeasureAssumption
    <3>5. Amount[p] <= floatConfirmed - reserved
      BY <2>1, <1>2, <3>4 DEF Insolvent, Consumed, TypeOK
    <3> QED
      BY <3>2, <3>3, <3>4, <3>5, <1>3 DEF HoldsWithinFloat, TypeOK
  <2>2. CASE p \notin FloatBacked
    <3>1. /\ reservedHolds' \cap FloatBacked = reservedHolds \cap FloatBacked
          /\ (reservedHolds' \cap FloatBacked) \ caught'
               = (reservedHolds \cap FloatBacked) \ caught
      BY <2>2, <1>3
    <3> QED
      BY <3>1, <1>3 DEF HoldsWithinFloat
  <2> QED
    BY <2>1, <2>2
<1> QED
  BY <1>6, <1>7, <1>8, <1>9, <1>10, <1>11

\* Turning a hold into settled spend moves it between the two sets and out of the counter.
LEMMA SettleKeeps ==
    ASSUME IInv, NEW p \in Payments, SettleHold(p)
    PROVE  IInv'
<1> USE DEF IInv
<1>1. p \in counted /\ p \in reservedHolds /\ p \notin settledHolds
  BY DEF SettleHold, HoldsAreCounted
<1>2. /\ reservedHolds' = reservedHolds \ {p}
      /\ settledHolds' = settledHolds \cup {p}
      /\ reserved' = Subtract(reserved, Amount[p])
      /\ counted' = counted /\ score' = score
      /\ floatConfirmed' = floatConfirmed /\ caught' = caught
  BY <1>1 DEF SettleHold, floatVars
<1>3. TypeOK'
  <2>1. [Next]_vars
    BY DEF Next
  <2> QED
    BY <2>1, TypeStep
<1>4. HoldsAreCounted'
  BY <1>1, <1>2 DEF HoldsAreCounted
<1>5. CounterMatchesHolds'
  BY <1>1, <1>2, TotalRemove DEF CounterMatchesHolds, TypeOK
<1>6. CapAlways' /\ VelocityAlways'
  BY <1>2 DEF CapAlways, VelocityAlways, InWindow, InHour, WindowStart
<1>7. HoldsWithinFloat'
  <2>1. reservedHolds' \cap FloatBacked \subseteq reservedHolds \cap FloatBacked
        /\ reservedHolds \cap FloatBacked \in SUBSET Payments
        /\ reservedHolds' \cap FloatBacked \in SUBSET Payments
    BY <1>2 DEF TypeOK
  <2>2. Total[reservedHolds' \cap FloatBacked] <= Total[reservedHolds \cap FloatBacked]
    BY <2>1, TotalMonotone
  <2>3. /\ Total[reservedHolds' \cap FloatBacked] \in Nat
        /\ Total[reservedHolds \cap FloatBacked] \in Nat
    BY <2>1, MeasureAssumption
  <2> QED
    BY <2>2, <2>3, <1>2 DEF HoldsWithinFloat, TypeOK
<1> QED
  BY <1>3, <1>4, <1>5, <1>6, <1>7

\* A release takes an unsettled hold out of every window and out of the counter.
LEMMA ReleaseKeeps ==
    ASSUME IInv, NEW p \in Payments, ReleaseHold(p)
    PROVE  IInv'
<1> USE DEF IInv
<1>1. p \in counted /\ p \notin settledHolds /\ p \in reservedHolds
  BY DEF ReleaseHold, HoldsAreCounted
<1>2. /\ counted' = counted \ {p}
      /\ score' = [score EXCEPT ![p] = 0]
      /\ reservedHolds' = reservedHolds \ {p}
      /\ reserved' = Subtract(reserved, Amount[p])
      /\ settledHolds' = settledHolds
      /\ floatConfirmed' = floatConfirmed /\ caught' = caught
  BY <1>1 DEF ReleaseHold, floatVars
<1>3. TypeOK'
  <2>1. [Next]_vars
    BY DEF Next
  <2> QED
    BY <2>1, TypeStep
<1>4. HoldsAreCounted'
  BY <1>1, <1>2 DEF HoldsAreCounted
<1>5. CounterMatchesHolds'
  BY <1>1, <1>2, TotalRemove DEF CounterMatchesHolds, TypeOK
<1>6. \A q \in counted' : q \in counted /\ score'[q] = score[q]
  BY <1>2 DEF TypeOK
<1>7. CapAlways'
  <2> SUFFICES ASSUME NEW u \in Nat PROVE Total[InWindow(u)'] <= SpendCap
    BY DEF CapAlways, InWindow
  <2>1. InWindow(u)' \subseteq InWindow(u)
    BY <1>6 DEF InWindow, WindowStart
  <2>2. InWindow(u) \in SUBSET Payments /\ InWindow(u)' \in SUBSET Payments
    BY <2>1 DEF InWindow, TypeOK
  <2>3. Total[InWindow(u)'] <= Total[InWindow(u)]
    BY <2>1, <2>2, TotalMonotone
  <2>4. Total[InWindow(u)'] \in Nat /\ Total[InWindow(u)] \in Nat
    BY <2>2, MeasureAssumption
  <2> QED
    BY <2>3, <2>4, DialAssumption DEF CapAlways
<1>8. VelocityAlways'
  <2> SUFFICES ASSUME NEW u \in Nat PROVE Cardinality(InHour(u)') <= VelocityLimit
    BY DEF VelocityAlways, InHour
  <2>1. InHour(u)' \subseteq InHour(u)
    BY <1>6 DEF InHour
  <2>2. IsFiniteSet(InHour(u))
    <3>1. InHour(u) \subseteq Payments
      BY DEF InHour, TypeOK
    <3> QED
      BY <3>1, MeasureAssumption, FS_Subset
  <2>3. /\ IsFiniteSet(InHour(u)')
        /\ Cardinality(InHour(u)') <= Cardinality(InHour(u))
    BY <2>1, <2>2, FS_Subset
  <2>4. Cardinality(InHour(u)') \in Nat /\ Cardinality(InHour(u)) \in Nat
    BY <2>2, <2>3, FS_CardinalityType
  <2> QED
    BY <2>3, <2>4, DialAssumption DEF VelocityAlways
<1>9. HoldsWithinFloat'
  <2>1. reservedHolds' \cap FloatBacked \subseteq reservedHolds \cap FloatBacked
        /\ reservedHolds \cap FloatBacked \in SUBSET Payments
        /\ reservedHolds' \cap FloatBacked \in SUBSET Payments
    BY <1>2 DEF TypeOK
  <2>2. Total[reservedHolds' \cap FloatBacked] <= Total[reservedHolds \cap FloatBacked]
    BY <2>1, TotalMonotone
  <2>3. /\ Total[reservedHolds' \cap FloatBacked] \in Nat
        /\ Total[reservedHolds \cap FloatBacked] \in Nat
    BY <2>1, MeasureAssumption
  <2> QED
    BY <2>2, <2>3, <1>2 DEF HoldsWithinFloat, TypeOK
<1> QED
  BY <1>3, <1>4, <1>5, <1>7, <1>8, <1>9

\* Every step keeps the invariant.
LEMMA StepIInv == IInv /\ [Next]_vars => IInv'
<1> SUFFICES ASSUME IInv, [Next]_vars PROVE IInv'
  OBVIOUS
<1>0. TypeOK'
  BY TypeStep DEF IInv
<1>1. ASSUME NEW p \in Payments, NEW t \in 0 .. hour, ReserveHoldWithinPolicy(p, t)
      PROVE  IInv'
  BY <1>1, ReserveKeeps
<1>2. ASSUME NEW p \in Payments, SettleHold(p) PROVE IInv'
  BY <1>2, SettleKeeps
<1>3. ASSUME NEW p \in Payments, ReleaseHold(p) PROVE IInv'
  BY <1>3, ReleaseKeeps
<1>4. ASSUME NEW n \in 1 .. MaxFloat, ConfirmFloat(n) PROVE IInv'
  <2>1. /\ floatConfirmed' = floatConfirmed + n
        /\ UNCHANGED <<counted, score, reserved, reservedHolds, settledHolds, caught>>
    BY <1>4 DEF ConfirmFloat, holdVars
  <2>2. PICK total \in Nat : total = Total[reservedHolds \cap FloatBacked]
    BY MeasureAssumption DEF IInv, TypeOK
  <2>3. floatConfirmed \in Int /\ n \in Nat /\ HoldsWithinFloat
    BY DialAssumption DEF IInv, TypeOK
  <2>4. total <= floatConfirmed => total <= floatConfirmed'
    BY <2>1, <2>3
  <2>5. HoldsWithinFloat'
    BY <2>1, <2>2, <2>3, <2>4 DEF HoldsWithinFloat
  <2> QED
    BY <1>0, <2>1, <2>5 DEF IInv, HoldsAreCounted, CounterMatchesHolds, CapAlways,
       VelocityAlways, InWindow, InHour, WindowStart
<1>5. ASSUME NEW t \in Teardowns, DecrFloat(t) PROVE IInv'
  <2>1. UNCHANGED holdVars /\ caught' = reservedHolds
    BY <1>5 DEF DecrFloat
  <2>2. HoldsWithinFloat'
    BY <2>1 DEF holdVars, HoldsWithinFloat
  <2> QED
    BY <1>0, <2>1, <2>2 DEF holdVars, IInv, HoldsAreCounted, CounterMatchesHolds,
       CapAlways, VelocityAlways, InWindow, InHour, WindowStart
<1>6. CASE (\E t \in Teardowns : ReadFloat(t)) \/ Tick \/ UNCHANGED vars
  <2>1. UNCHANGED holdVars /\ UNCHANGED <<floatConfirmed, caught>>
    BY <1>6 DEF ReadFloat, Tick, vars, floatVars
  <2> QED
    BY <1>0, <2>1 DEF holdVars, IInv, HoldsAreCounted, CounterMatchesHolds, CapAlways,
       VelocityAlways, InWindow, InHour, WindowStart, HoldsWithinFloat
<1> QED
  BY <1>1, <1>2, <1>3, <1>4, <1>5, <1>6 DEF Next

\* The invariant holds in every reachable state.
LEMMA InvariantHolds == Spec => []IInv
  BY InitIInv, StepIInv, PTL DEF Spec

-----------------------------------------------------------------------------
(* The results *)

\* However often settle and release are replayed, the reserved counter is the sum of the
\* outstanding holds.
THEOREM CounterCorrect == Spec => []CounterMatchesHolds
<1>1. IInv => CounterMatchesHolds
  BY DEF IInv
<1> QED
  BY <1>1, InvariantHolds, PTL

\* A payment is outstanding or settled, never both, and both are counted.
THEOREM HoldsCorrect == Spec => []HoldsAreCounted
<1>1. IInv => HoldsAreCounted
  BY DEF IInv
<1> QED
  BY <1>1, InvariantHolds, PTL

\* No schedule of reserving calls, late timestamps included, overspends a window.
THEOREM CapHolds == Spec => []CapPerWindow
<1>1. IInv => CapPerWindow
  BY DEF IInv, CapAlways, CapPerWindow, InWindow, TypeOK
<1> QED
  BY <1>1, InvariantHolds, PTL

\* No schedule puts more holds in one hour than the velocity dial.
THEOREM VelocityHolds == Spec => []VelocityPerHour
<1>1. IInv => VelocityPerHour
  BY DEF IInv, VelocityAlways, VelocityPerHour, InHour, TypeOK
<1> QED
  BY <1>1, InvariantHolds, PTL

\* Beside what a teardown took the float from under, the outstanding float-backed holds are
\* covered by confirmed float, however deposits and teardowns move it.
THEOREM FloatHolds == Spec => []HoldsWithinFloat
<1>1. IInv => HoldsWithinFloat
  BY DEF IInv
<1> QED
  BY <1>1, InvariantHolds, PTL

\* No replay takes settled spend out of its window.
THEOREM SettledIsFinal == Spec => SettledStaysCounted
<1> DEFINE Kept == \A p \in settledHolds : /\ p \in settledHolds'
                                           /\ p \in counted'
                                           /\ score'[p] = score[p]
<1>1. IInv /\ [Next]_vars => [Kept]_vars
  <2> SUFFICES ASSUME IInv, [Next]_vars PROVE Kept
    OBVIOUS
  <2>0. /\ settledHolds \subseteq counted /\ settledHolds \subseteq Payments
        /\ score \in [Payments -> Nat]
    BY DEF IInv, HoldsAreCounted, TypeOK
  <2>1. ASSUME NEW p \in Payments, NEW t \in 0 .. hour, ReserveHoldWithinPolicy(p, t)
        PROVE  Kept
    BY <2>0, <2>1 DEF ReserveHoldWithinPolicy, ReserveResult
  <2>2. ASSUME NEW p \in Payments, SettleHold(p) PROVE Kept
    BY <2>0, <2>2 DEF SettleHold
  <2>3. ASSUME NEW p \in Payments, ReleaseHold(p) PROVE Kept
    BY <2>0, <2>3 DEF ReleaseHold
  <2>4. ASSUME NEW n \in 1 .. MaxFloat, ConfirmFloat(n) PROVE Kept
    BY <2>0, <2>4 DEF ConfirmFloat, holdVars
  <2>5. CASE (\E t \in Teardowns : ReadFloat(t) \/ DecrFloat(t)) \/ Tick \/ UNCHANGED vars
    BY <2>0, <2>5 DEF ReadFloat, DecrFloat, Tick, vars, holdVars
  <2> QED
    BY <2>1, <2>2, <2>3, <2>4, <2>5 DEF Next
<1>2. (Spec => []IInv) => (Spec => [][Kept]_vars)
  BY <1>1, PTL DEF Spec
<1> QED
  BY <1>2, InvariantHolds DEF SettledStaysCounted
=============================================================================
