------------------------------- MODULE HotTier -------------------------------
(***************************************************************************)
(* The Redis hot tier of one agent: the hold-inclusive spend windows, the  *)
(* reserved counter and the float counters, as the atomic Lua scripts of   *)
(* src/src/redis/lua change them through engines/ledger/window.ts.         *)
(*                                                                         *)
(* The module puts no order on its callers: any payment may be reserved,   *)
(* settled or released at any time and any number of times, because the    *)
(* scripts claim to be safe under replay whatever the decision state       *)
(* machine above them does.  Module CasperGuard takes its steps from here. *)
(*                                                                         *)
(* Time is counted in 1h buckets, so the 1h window of a call starts at the *)
(* call's own timestamp; the 30d window is WindowHours of them.  A call's  *)
(* timestamp is captured before the script runs (routes.ts, `now`), hence  *)
(* any timestamp up to the current hour may reach the script.              *)
(***************************************************************************)
EXTENDS Integers, FiniteSets

CONSTANTS
    Payments,       \* payment ids (= decision ids)
    Amount,         \* Amount[p]: base units the payment asks for
    Total,          \* Total[S]: sum of Amount over the set S of payments
    FloatBacked,    \* payments whose call passes enforce_solvency = '1'
    Teardowns,      \* teardown requests of the agent, which may overlap
    SpendCap,       \* policy dial: cap of a 30d window, base units
    VelocityLimit,  \* policy dial: holds per 1h window
    WindowHours,    \* 1h buckets in the long window (720 in the code)
    MaxHour,        \* bound: last hour of the clock
    MaxFloat        \* bound: largest confirmed float

\* Total is an additive measure: the sum the scripts accumulate member by member.
ASSUME MeasureAssumption ==
    /\ IsFiniteSet(Payments)
    /\ Amount \in [Payments -> Nat]
    /\ Total \in [SUBSET Payments -> Nat]
    /\ Total[{}] = 0
    /\ \A p \in Payments : Total[{p}] = Amount[p]
    /\ \A S, T \in SUBSET Payments :
          S \cap T = {} => Total[S \cup T] = Total[S] + Total[T]

ASSUME DialAssumption ==
    /\ FloatBacked \subseteq Payments
    /\ SpendCap \in Nat
    /\ VelocityLimit \in Nat
    /\ WindowHours \in Nat \ {0}
    /\ MaxHour \in Nat
    /\ MaxFloat \in Nat

VARIABLES
    counted,        \* members of the spend-window ZSETs and of the amounts hash
    score,          \* the enforcement timestamp each member was written with
    reserved,       \* the reserved counter
    reservedHolds,  \* SET of payments contributing to `reserved`
    settledHolds,   \* SET of settled payments
    floatConfirmed, \* the agent's confirmed float
    toReclaim,      \* toReclaim[t]: the float teardown t has read and not yet taken
    hour,           \* the wall clock
    caught          \* history: holds that were outstanding when float was last taken

holdVars == <<counted, score, reserved, reservedHolds, settledHolds>>
floatVars == <<floatConfirmed, toReclaim>>
vars == <<holdVars, floatVars, hour, caught>>

\* The `consumed` counter is read by the scripts and written by no code in src/:
\* its key is always absent, which normalize_decimal turns into zero.
Consumed == 0

Init ==
    /\ counted = {}
    /\ score = [p \in Payments |-> 0]
    /\ reserved = 0
    /\ reservedHolds = {}
    /\ settledHolds = {}
    /\ floatConfirmed = 0
    /\ toReclaim = [t \in Teardowns |-> 0]
    /\ hour = 0
    /\ caught = {}

-----------------------------------------------------------------------------
(* Reading the windows *)

\* snapshotWindows: floor(now / width) * width.
WindowStart(t) == t - (t % WindowHours)

\* Mutant of HourCount: the window's lower bound is exclusive.
HourCountExclusive(t) == Cardinality({q \in counted : score[q] > t})

\* ZCOUNT 1h-window lower-bound +inf.
HourCount(t) == Cardinality({q \in counted : score[q] >= t})

\* Mutant of WindowSum: the amounts are summed over the velocity window.
WindowSumOfHour(t) == Total[{q \in counted : score[q] >= t}]

\* windowSum over the 30d window: ZRANGEBYSCORE lower-bound +inf, amounts added.
WindowSum(t) == Total[{q \in counted : score[q] >= WindowStart(t)}]

\* Mutant of Insolvent: outstanding holds are not drawn from the float.
InsolventIgnoringHolds(p) == Amount[p] > floatConfirmed

\* drawn = consumed + reserved, both ceilings of the solvency gate.  Two teardowns may
\* leave a negative float, which denies, or makes the decimal arithmetic throw: either
\* way the script writes nothing.
Insolvent(p) ==
    LET drawn == Consumed + reserved
    IN  \/ drawn >= floatConfirmed
        \/ Amount[p] > floatConfirmed - drawn

\* The script's verdict, in the order of its early returns.
ReserveResult(p, t) ==
    IF p \in counted THEN "duplicate"
    ELSE IF HourCount(t) >= VelocityLimit THEN "velocity_exceeded"
    ELSE IF WindowSum(t) + Amount[p] > SpendCap THEN "cap_exceeded"
    ELSE IF p \in FloatBacked /\ Insolvent(p) THEN "insufficient_float"
    ELSE "reserved"

\* subtract_decimal clamps at zero.
Subtract(a, b) == IF a <= b THEN 0 ELSE a - b

-----------------------------------------------------------------------------
(* The scripts.  Each is one atomic step; the guarded form takes the step   *)
(* only when the script writes, a refusal leaves every key alone.           *)

ReserveHoldWithinPolicy(p, t) ==
    /\ ReserveResult(p, t) = "reserved"
    /\ counted' = counted \cup {p}
    /\ score' = [score EXCEPT ![p] = t]
    /\ reserved' = reserved + Amount[p]
    /\ reservedHolds' = reservedHolds \cup {p}
    /\ caught' = caught \ {p}
    /\ UNCHANGED <<settledHolds, floatVars, hour>>

\* Mutant of SettleHold: the hold leaves the set, the counter keeps its amount.
SettleKeepsCounter(p) ==
    /\ p \in reservedHolds \cap counted
    /\ reservedHolds' = reservedHolds \ {p}
    /\ settledHolds' = settledHolds \cup {p}
    /\ UNCHANGED <<counted, score, reserved, floatVars, hour, caught>>

\* An id in reserved_holds with no amount (the defensive branch of settle.lua) is
\* dropped from the set without touching the counter.
SettleHold(p) ==
    /\ p \in reservedHolds
    /\ reservedHolds' = reservedHolds \ {p}
    /\ reserved' = IF p \in counted THEN Subtract(reserved, Amount[p]) ELSE reserved
    /\ settledHolds' = IF p \in counted THEN settledHolds \cup {p} ELSE settledHolds
    /\ UNCHANGED <<counted, score, floatVars, hour, caught>>

\* Mutants of ReleaseHold: the settled guard is missing; the hold stays in the set.
ReleaseSettled(p) ==
    /\ p \in counted
    /\ counted' = counted \ {p}
    /\ score' = [score EXCEPT ![p] = 0]
    /\ reservedHolds' = reservedHolds \ {p}
    /\ reserved' = IF p \in reservedHolds THEN Subtract(reserved, Amount[p]) ELSE reserved
    /\ UNCHANGED <<settledHolds, floatVars, hour, caught>>

ReleaseKeepsHold(p) ==
    /\ p \in counted \ settledHolds
    /\ counted' = counted \ {p}
    /\ score' = [score EXCEPT ![p] = 0]
    /\ reserved' = IF p \in reservedHolds THEN Subtract(reserved, Amount[p]) ELSE reserved
    /\ UNCHANGED <<reservedHolds, settledHolds, floatVars, hour, caught>>

ReleaseHold(p) ==
    /\ p \in counted \ settledHolds
    /\ counted' = counted \ {p}
    /\ score' = [score EXCEPT ![p] = 0]
    /\ reservedHolds' = reservedHolds \ {p}
    /\ reserved' = IF p \in reservedHolds THEN Subtract(reserved, Amount[p]) ELSE reserved
    /\ UNCHANGED <<settledHolds, floatVars, hour, caught>>

-----------------------------------------------------------------------------
(* The float: promoted by confirmDeposit, taken back by teardownAgent,      *)
(* neither of which looks at the holds.  Module Provisioning has the rest   *)
(* of both.                                                                 *)

ConfirmFloat(n) ==
    /\ floatConfirmed + n <= MaxFloat
    /\ floatConfirmed' = floatConfirmed + n
    /\ UNCHANGED <<holdVars, toReclaim, hour, caught>>

\* A teardown, begun or begun again: it reads the float that it will reclaim.
ReadFloat(t) ==
    /\ floatConfirmed > 0
    /\ toReclaim' = [toReclaim EXCEPT ![t] = floatConfirmed]
    /\ UNCHANGED <<holdVars, floatConfirmed, hour, caught>>

\* DECRBY the value that was read, whatever was held, promoted or reclaimed since.
DecrFloat(t) ==
    /\ toReclaim[t] > 0
    /\ floatConfirmed' = floatConfirmed - toReclaim[t]
    /\ toReclaim' = [toReclaim EXCEPT ![t] = 0]
    /\ caught' = reservedHolds
    /\ UNCHANGED <<holdVars, hour>>

Tick ==
    /\ hour < MaxHour
    /\ hour' = hour + 1
    /\ UNCHANGED <<holdVars, floatVars, caught>>

Next ==
    \/ \E p \in Payments, t \in 0 .. hour : ReserveHoldWithinPolicy(p, t)
    \/ \E p \in Payments : SettleHold(p)
    \/ \E p \in Payments : ReleaseHold(p)
    \/ \E n \in 1 .. MaxFloat : ConfirmFloat(n)
    \/ \E t \in Teardowns : ReadFloat(t) \/ DecrFloat(t)
    \/ Tick

Spec == Init /\ [][Next]_vars

-----------------------------------------------------------------------------
(* Properties *)

\* Every key holds a value of its kind.
TypeOK ==
    /\ counted \in SUBSET Payments
    /\ score \in [Payments -> Nat]
    /\ reserved \in Nat
    /\ reservedHolds \in SUBSET Payments
    /\ settledHolds \in SUBSET Payments
    /\ floatConfirmed \in Int
    /\ toReclaim \in [Teardowns -> Nat]
    /\ hour \in Nat
    /\ caught \in SUBSET Payments

\* The reserved counter is exactly the sum of the outstanding holds: however often and
\* in whatever order settle and release are replayed, each hold leaves the counter once
\* and the zero clamp of subtract_decimal never hides a double decrement.
CounterMatchesHolds == reserved = Total[reservedHolds]

\* A payment is outstanding or settled, never both, and both kinds stay counted in the
\* spend windows (hold-inclusive windows).
HoldsAreCounted ==
    /\ reservedHolds \cap settledHolds = {}
    /\ reservedHolds \cup settledHolds = counted

\* Holds and settled spend of one 30d window never exceed the cap, even when calls that
\* captured their timestamp before a window boundary run after calls of the next window.
CapPerWindow ==
    \A t \in 0 .. hour :
        Total[{p \in counted : WindowStart(score[p]) = WindowStart(t)}] <= SpendCap

\* No 1h bucket ever holds more payments than the velocity dial, whatever the order in
\* which late calls arrive.
VelocityPerHour ==
    \A t \in 0 .. hour :
        Cardinality({p \in counted : score[p] = t}) <= VelocityLimit

\* Outstanding holds of float-backed payments never exceed the confirmed float, although
\* holds that skip the gate share the same counter, unless each of them was outstanding when
\* a teardown took float from under it (teardown.ts:26-30 does not wait for those): beside
\* what a teardown caught, no new hold is taken that the float left does not cover.
HoldsWithinFloat ==
    \A p \in (reservedHolds \cap FloatBacked) \ caught :
        Total[reservedHolds \cap FloatBacked] <= floatConfirmed

\* A settled spend never leaves its window again: no replayed release un-counts it.
SettledStaysCounted ==
    [][\A p \in settledHolds : /\ p \in settledHolds'
                               /\ p \in counted'
                               /\ score'[p] = score[p]]_vars
=============================================================================
