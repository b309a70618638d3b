-------------------------- MODULE ProvisioningProofs --------------------------
(***************************************************************************)
(* Proofs about treasury allocations, for any number of deposits, agents,  *)
(* confirmation workers and teardowns, every amount and every choice of    *)
(* the faults.  The counters are integers: that they never go below zero   *)
(* is a consequence, not an assumption.                                    *)
(***************************************************************************)
EXTENDS Provisioning, FiniteSetTheorems, TLAPS

-----------------------------------------------------------------------------
(* Facts about the measure *)

\* Taking in one allocation adds its amount.
LEMMA TotalAdd ==
    ASSUME NEW S \in SUBSET Allocations, NEW a \in Allocations, a \notin S
    PROVE  Total[S \cup {a}] = Total[S] + Amount[a]
<1>1. S \cap {a} = {} /\ {a} \in SUBSET Allocations
  OBVIOUS
<1>2. Total[S \cup {a}] = Total[S] + Total[{a}] /\ Total[{a}] = Amount[a]
  BY <1>1, AllocationAssumption
<1> QED
  BY <1>2

\* Dropping one subtracts it.
LEMMA TotalRemove ==
    ASSUME NEW S \in SUBSET Allocations, NEW a \in S
    PROVE  Total[S \ {a}] = Total[S] - Amount[a]
<1>1. S = (S \ {a}) \cup {a} /\ a \notin S \ {a} /\ S \ {a} \in SUBSET Allocations
  OBVIOUS
<1>2. Total[S] = Total[S \ {a}] + Amount[a]
  BY <1>1, TotalAdd
<1> QED
  BY <1>1, <1>2, AllocationAssumption

\* Fewer allocations never ask for more.
LEMMA TotalMonotone ==
    ASSUME NEW S \in SUBSET Allocations, NEW T \in SUBSET S
    PROVE  Total[T] <= Total[S]
<1>1. S = T \cup (S \ T) /\ T \cap (S \ T) = {} /\ T \in SUBSET Allocations
      /\ S \ T \in SUBSET Allocations
  OBVIOUS
<1>2. Total[S] = Total[T] + Total[S \ T]
  BY <1>1, AllocationAssumption
<1> QED
  BY <1>1, <1>2, AllocationAssumption

-----------------------------------------------------------------------------
(* Type correctness *)

\* Nothing is allocated at first.
LEMMA InitTypes == Init => TypeOK
<1> SUFFICES ASSUME Init PROVE TypeOK
  OBVIOUS
<1>1. /\ allocReserved \in Int /\ allocCommitted \in Int
      /\ floatPending \in [Agents -> Int] /\ floatConfirmed \in [Agents -> Int]
      /\ reclaimed \in [Agents -> Int] /\ coins \in [Agents -> Nat]
      /\ fundedSeen \in [Allocations -> Nat] /\ funded \in Nat
  BY DEF Init
<1>2. /\ ledger \in [Allocations \cup Teardowns -> Nat] /\ took \in [Requests -> Int]
      /\ target \in [Requests -> Allocations \cup {NoAllocation}]
      /\ listed \in [Requests -> SUBSET Allocations]
  BY DEF Init
<1> QED
  BY <1>1, <1>2 DEF Init, TypeOK

\* A step of depositFor and of its transfer.
LEMMA DepositTypes ==
    ASSUME TypeOK, NEW a \in Allocations,
           ReadFunded(a) \/ DepositStep(a) \/ Finalize(a) \/ HaltDeposit(a)
    PROVE  TypeOK'
<1> USE AllocationAssumption
    DEF TypeOK, Goto, Running, counters, cold, chain, depositVars, requestVars
<1>1. CASE ReadFunded(a) \/ Gate(a) \/ Submit(a)
  BY <1>1 DEF ReadFunded, Gate, Submit
<1>2. CASE FundOnChain(a)
  <2>1. /\ coins' \in {coins, [coins EXCEPT ![AgentOf[a]] = @ + Amount[a]]}
        /\ deposit' \in {[deposit EXCEPT ![a] = "pend"], [deposit EXCEPT ![a] = "undo"]}
        /\ UNCHANGED <<counters, record, index, cold, final, reclaimed, fundedSeen, halted,
                       requestVars>>
    BY <1>2 DEF FundOnChain, FundAgentOnChain
  <2>2. coins' \in [Agents -> Nat]
    BY <2>1
  <2> QED
    BY <2>1, <2>2
<1>3. CASE UndoReserve(a)
  BY <1>3 DEF UndoReserve
<1>4. CASE IncrPending(a)
  BY <1>4 DEF IncrPending
<1>5. CASE StoreRecord(a) \/ AddToIndex(a)
  BY <1>5 DEF StoreRecord, AddToIndex
<1>6. CASE Finalize(a) \/ HaltDeposit(a)
  BY <1>6 DEF Finalize, HaltDeposit
<1> QED
  BY <1>1, <1>2, <1>3, <1>4, <1>5, <1>6 DEF DepositStep

\* Where a request stands, and who is behind it.
Confirming == {"confirm", "promote", "deindex", "ledger", "delete", "cancel"}
Finishing == {"deindex", "ledger", "delete"}
Retiring == {"readFloat", "reclaim", "decrFloat", "decrCommitted", "recordTeardown", "sweep"}

Placed(p) ==
    /\ at[p] \in Confirming => target[p] \in Allocations
    /\ at[p] \in Retiring => p \in Teardowns

\* A step of a sweep or a teardown.
LEMMA RequestTypes ==
    ASSUME TypeOK, NEW p \in Requests, Placed(p),
           ConfirmStep(p) \/ SweepStep(p) \/ StartTeardown(p) \/ TeardownStep(p)
              \/ HaltRequest(p)
    PROVE  TypeOK'
<1> USE AllocationAssumption
    DEF TypeOK, Move, Resume, Placed, Confirming, Retiring, counters, cold, chain, depositVars,
        requestVars
<1>1. CASE ReadFinality(p) \/ Deindex(p) \/ WriteLedger(p) \/ DeleteRecord(p)
  BY <1>1 DEF ReadFinality, Deindex, WriteLedger, DeleteRecord
<1>2. CASE Promote(p)
  <2>1. CASE record[target[p]] # "PENDING"
    <3>1. /\ at' = [at EXCEPT ![p] = "next"]
          /\ UNCHANGED <<counters, record, index, cold, chain, depositVars, target, listed, took>>
      BY <1>2, <2>1 DEF Promote
    <3> QED
      BY <3>1
  <2>2. CASE record[target[p]] = "PENDING"
    <3> DEFINE g == AgentOf[target[p]]  n == Amount[target[p]]
    <3>1. /\ target[p] \in Allocations /\ n \in Int
          /\ floatPending' = [floatPending EXCEPT ![g] = @ - n]
          /\ floatConfirmed' = [floatConfirmed EXCEPT ![g] = @ + n]
          /\ allocReserved' = allocReserved - n /\ allocCommitted' = allocCommitted + n
      BY <1>2, <2>2 DEF Promote
    <3>2. /\ floatPending' \in [Agents -> Int] /\ floatConfirmed' \in [Agents -> Int]
          /\ allocReserved' \in Int /\ allocCommitted' \in Int
      BY <3>1
    <3>3. /\ record' = [record EXCEPT ![target[p]] = "CONFIRMED"]
          /\ at' = [at EXCEPT ![p] = "deindex"]
          /\ UNCHANGED <<index, funded, ledger, final, reclaimed, coins, deposit, fundedSeen,
                         halted, target, listed, took>>
      BY <1>2, <2>2 DEF Promote
    <3> HIDE DEF g, n
    <3> QED
      BY <3>2, <3>3
  <2> QED
    BY <2>1, <2>2
<1>3. CASE StartTick(p) \/ SweepNext(p)
  BY <1>3 DEF StartTick, SweepNext
<1>4. CASE StartTeardown(p) \/ TeardownNext(p)
  <2>1. CASE StartTeardown(p)
    BY <2>1 DEF StartTeardown
  <2>2. CASE TeardownNext(p)
    <3>1. CASE listed[p] = {}
      BY <2>2, <3>1 DEF TeardownNext
    <3>2. ASSUME NEW a \in listed[p],
                 listed' = [listed EXCEPT ![p] = @ \ {a}],
                 target' = [target EXCEPT ![p] = a],
                 \/ record[a] = "PENDING" /\ Move(p, "confirm") /\ UNCHANGED index
                 \/ index' = index \ {a} /\ UNCHANGED at,
                 UNCHANGED <<counters, record, cold, chain, depositVars, took>>
          PROVE  TypeOK'
      BY <3>2
    <3> QED
      BY <2>2, <3>1, <3>2 DEF TeardownNext
  <2> QED
    BY <1>4, <2>1, <2>2
<1>5. CASE Cancel(p)
  BY <1>5 DEF Cancel
<1>6. CASE ReadFloat(p)
  BY <1>6 DEF ReadFloat
<1>7. CASE Reclaim(p)
  BY <1>7 DEF Reclaim
<1>8. CASE DecrFloat(p) \/ DecrCommitted(p)
  BY <1>8 DEF DecrFloat, DecrCommitted
<1>9. CASE RecordTeardown(p) \/ SweepAgentWcspr(p)
  BY <1>9 DEF RecordTeardown, SweepAgentWcspr
<1>10. CASE HaltRequest(p)
  BY <1>10 DEF HaltRequest
<1> QED
  BY <1>1, <1>2, <1>3, <1>4, <1>5, <1>6, <1>7, <1>8, <1>9, <1>10
  DEF ConfirmStep, SweepStep, TeardownStep

-----------------------------------------------------------------------------
(* The inductive invariant *)

\* The record of an allocation exists from the end of its depositFor call on, its pair is
\* written after its promotion, and the balance the call saw was a real one.
RecordMatches(a) ==
    /\ record[a] = "none" <=> deposit[a] \notin {"index", "done"}
    /\ a \in index => record[a] # "none"
    /\ ledger[a] <= IF a \in Promoted THEN 1 ELSE 0
    /\ fundedSeen[a] <= funded

\* A request visits allocations that have a record, and after a promotion of its own the
\* record is confirmed and not in the ledger until the request has written it.
RequestMatches(p) ==
    /\ Placed(p)
    /\ at[p] \in Confirming => record[target[p]] # "none"
    /\ \A a \in listed[p] : record[a] # "none"
    /\ at[p] \in Finishing => record[target[p]] = "CONFIRMED"
    /\ at[p] \in {"deindex", "ledger"} => ledger[target[p]] = 0
    /\ at[p] \in {"reclaim", "decrFloat", "decrCommitted"} => took[p] > 0

\* The promotion script has one winner per allocation.
OneFinisher ==
    \A p, q \in Requests :
        at[p] \in Finishing /\ at[q] \in Finishing /\ target[p] = target[q] => p = q

IInv ==
    /\ WithinCeilings
    /\ \A a \in Allocations : RecordMatches(a)
    /\ \A p \in Requests : RequestMatches(p)
    /\ OneFinisher

-----------------------------------------------------------------------------
(* Every step preserves it *)

\* The ceilings hold on as long as the phases and their counters do.
LEMMA CeilingsUntouched ==
    ASSUME WithinCeilings, TypeOK', UNCHANGED <<allocReserved, allocCommitted, floatPending>>,
           Reserving' = Reserving, \A g \in Agents : Pending(g)' = Pending(g), funded <= funded'
    PROVE  WithinCeilings'
BY DEF WithinCeilings, CountersMatchAllocations, TypeOK

\* An allocation that leaves both phases gives back its amount once.
LEMMA PhaseLeft ==
    ASSUME IInv, TypeOK', NEW a \in Allocations, record[a] = "PENDING",
           NEW st \in {"CONFIRMED", "cancelled"},
           record' = [record EXCEPT ![a] = st], UNCHANGED deposit,
           allocReserved' = allocReserved - Amount[a],
           floatPending' = [floatPending EXCEPT ![AgentOf[a]] = @ - Amount[a]]
    PROVE  CountersMatchAllocations'
<1> USE AllocationAssumption DEF IInv, WithinCeilings, CountersMatchAllocations
<1>1. deposit[a] \in {"index", "done"}
  BY DEF RecordMatches
<1>2. a \in Reserving /\ Reserving \in SUBSET Allocations /\ Reserving' = Reserving \ {a}
  BY <1>1 DEF Reserving, TypeOK
<1>3. allocReserved' = Total[Reserving']
  BY <1>2, TotalRemove
<1>4. ASSUME NEW g \in Agents PROVE floatPending'[g] = Total[Pending(g)']
  <2>1. CASE g = AgentOf[a]
    <3>1. a \in Pending(g) /\ Pending(g) \in SUBSET Allocations /\ Pending(g)' = Pending(g) \ {a}
      BY <1>1, <2>1 DEF Pending, Of, TypeOK
    <3>2. Total[Pending(g)'] = Total[Pending(g)] - Amount[a]
      BY <3>1, TotalRemove
    <3> QED
      BY <2>1, <3>2 DEF TypeOK
  <2>2. CASE g # AgentOf[a]
    <3>1. Pending(g)' = Pending(g)
      BY <2>2 DEF Pending, Of, TypeOK
    <3> QED
      BY <2>2, <3>1 DEF TypeOK
  <2> QED
    BY <2>1, <2>2
<1> QED
  BY <1>3, <1>4

\* A step of depositFor and of its transfer keeps the ceilings.
LEMMA DepositCeilings ==
    ASSUME IInv, TypeOK', NEW a \in Allocations,
           ReadFunded(a) \/ DepositStep(a) \/ Finalize(a) \/ HaltDeposit(a)
    PROVE  WithinCeilings'
<1> USE AllocationAssumption
    DEF Goto, Running, counters, cold, chain, depositVars, requestVars
<1>0. /\ WithinCeilings /\ CountersMatchAllocations /\ TypeOK /\ RecordMatches(a)
      /\ Amount[a] \in Nat /\ funded \in Nat
  BY DEF IInv, WithinCeilings, CountersMatchAllocations, TypeOK
<1>1. CASE ReadFunded(a) \/ Submit(a) \/ FundOnChain(a) \/ AddToIndex(a) \/ Finalize(a)
           \/ HaltDeposit(a)
  <2>1. /\ UNCHANGED record
        /\ \/ UNCHANGED deposit
           \/ deposit[a] = "idle" /\ Goto(a, "gate")
           \/ deposit[a] = "submit" /\ Goto(a, "fund")
           \/ deposit[a] = "submit" /\ Goto(a, "undo")
           \/ deposit[a] = "fund" /\ Goto(a, "pend")
           \/ deposit[a] = "fund" /\ Goto(a, "undo")
           \/ deposit[a] = "index" /\ Goto(a, "done")
    BY <1>1 DEF ReadFunded, Submit, FundOnChain, AddToIndex, Finalize, HaltDeposit
  <2>3. Reserving' = Reserving
    BY <1>0, <2>1 DEF TypeOK, Reserving
  <2>4. ASSUME NEW g \in Agents PROVE Pending(g)' = Pending(g)
    <3>1. \A e \in Allocations : deposit'[e] = "store" <=> deposit[e] = "store"
      BY <1>0, <2>1 DEF TypeOK
    <3> QED
      BY <2>1, <3>1 DEF Pending, Of
  <2>2. UNCHANGED <<allocReserved, allocCommitted, floatPending, funded>>
    BY <1>1 DEF ReadFunded, Submit, FundOnChain, AddToIndex, Finalize, HaltDeposit
  <2> QED
    BY <1>0, <2>2, <2>3, <2>4, CeilingsUntouched
<1>2. CASE Gate(a)
  <2>1. CASE FitsBudget(a) /\ allocReserved' = allocReserved + Amount[a] /\ Goto(a, "submit")
    <3>1. a \notin Reserving /\ Reserving \in SUBSET Allocations
          /\ Reserving' = Reserving \cup {a}
          /\ \A g \in Agents : Pending(g)' = Pending(g)
      BY <1>0, <1>2, <2>1 DEF TypeOK, Gate, Reserving, Pending, RecordMatches
    <3>2. allocReserved' = Total[Reserving']
      BY <1>0, <2>1, <3>1, TotalAdd DEF CountersMatchAllocations
    <3>3. /\ allocReserved' + allocCommitted' <= TotalBudget
          /\ allocReserved' + allocCommitted' <= funded'
      BY <1>0, <1>2, <2>1 DEF Gate, FitsBudget, RecordMatches, TypeOK
    <3> QED
      BY <1>0, <1>2, <3>1, <3>2, <3>3 DEF Gate, WithinCeilings, CountersMatchAllocations
  <2>2. CASE Goto(a, "denied") /\ UNCHANGED allocReserved
    <3>1. Reserving' = Reserving /\ \A g \in Agents : Pending(g)' = Pending(g)
      BY <1>0, <1>2, <2>2 DEF TypeOK, Gate, Reserving, Pending
    <3> QED
      BY <1>0, <1>2, <2>2, <3>1, CeilingsUntouched DEF Gate
  <2> QED
    BY <1>2, <2>1, <2>2 DEF Gate
<1>3. CASE UndoReserve(a)
  <2>1. a \in Reserving /\ Reserving \in SUBSET Allocations
        /\ Reserving' = Reserving \ {a}
        /\ \A g \in Agents : Pending(g)' = Pending(g)
    BY <1>0, <1>3 DEF TypeOK, UndoReserve, Reserving, Pending, RecordMatches
  <2>2. allocReserved' = Total[Reserving']
    BY <1>0, <1>3, <2>1, TotalRemove DEF UndoReserve, CountersMatchAllocations
  <2>3. allocReserved' + allocCommitted' <= allocReserved + allocCommitted
    BY <1>0, <1>3 DEF UndoReserve, TypeOK
  <2>4. CountersMatchAllocations'
    BY <1>0, <1>3, <2>1, <2>2 DEF UndoReserve, CountersMatchAllocations
  <2> QED
    BY <1>0, <1>3, <2>3, <2>4 DEF UndoReserve, WithinCeilings, TypeOK
<1>4. CASE IncrPending(a)
  <2>1. Reserving' = Reserving
    BY <1>0, <1>4 DEF TypeOK, IncrPending, Reserving
  <2>3. ASSUME NEW g \in Agents PROVE floatPending'[g] = Total[Pending(g)']
    <3>1. CASE g = AgentOf[a]
      <4>1. a \notin Pending(g) /\ Pending(g) \in SUBSET Allocations
            /\ Pending(g)' = Pending(g) \cup {a}
        BY <1>0, <1>4, <3>1 DEF TypeOK, IncrPending, Pending, Of, RecordMatches
      <4>2. Total[Pending(g)'] = Total[Pending(g)] + Amount[a]
        BY <4>1, TotalAdd
      <4> QED
        BY <1>0, <1>4, <3>1, <4>2 DEF IncrPending, CountersMatchAllocations, TypeOK
    <3>2. CASE g # AgentOf[a]
      <4>1. Pending(g)' = Pending(g)
        BY <1>0, <1>4, <3>2 DEF TypeOK, IncrPending, Pending, Of
      <4> QED
        BY <1>0, <1>4, <3>2, <4>1 DEF IncrPending, CountersMatchAllocations, TypeOK
    <3> QED
      BY <3>1, <3>2
  <2> QED
    BY <1>0, <1>4, <2>1, <2>3 DEF IncrPending, WithinCeilings, CountersMatchAllocations
<1>5. CASE StoreRecord(a)
  <2>1. Reserving' = Reserving /\ \A g \in Agents : Pending(g)' = Pending(g)
    BY <1>0, <1>5 DEF TypeOK, StoreRecord, Reserving, Pending, RecordMatches
  <2> QED
    BY <1>0, <1>5, <2>1, CeilingsUntouched DEF StoreRecord
<1> QED
  BY <1>1, <1>2, <1>3, <1>4, <1>5 DEF DepositStep

\* A step of a sweep or a teardown keeps the ceilings.
LEMMA RequestCeilings ==
    ASSUME IInv, TypeOK', NEW p \in Requests,
           ConfirmStep(p) \/ SweepStep(p) \/ StartTeardown(p) \/ TeardownStep(p)
              \/ HaltRequest(p)
    PROVE  WithinCeilings'
<1> DEFINE a == target[p]
<1> USE AllocationAssumption
    DEF Move, Resume, counters, cold, chain, depositVars, requestVars
<1>0. /\ WithinCeilings /\ CountersMatchAllocations /\ TypeOK /\ RequestMatches(p)
      /\ at[p] \in Confirming => a \in Allocations /\ RecordMatches(a) /\ Amount[a] \in Nat
  BY DEF IInv, WithinCeilings, CountersMatchAllocations, RequestMatches, Placed
<1>1. ASSUME UNCHANGED <<allocReserved, allocCommitted, floatPending, record, deposit, funded>>
      PROVE  WithinCeilings'
  <2>1. Reserving' = Reserving /\ \A g \in Agents : Pending(g)' = Pending(g)
    BY <1>1 DEF Reserving, Pending
  <2> QED
    BY <1>0, <1>1, <2>1, CeilingsUntouched DEF TypeOK
<1>2. CASE ReadFinality(p) \/ Deindex(p) \/ WriteLedger(p) \/ SweepStep(p)
  BY <1>1, <1>2 DEF ReadFinality, Deindex, WriteLedger, SweepStep, StartTick, SweepNext
<1>3. CASE StartTeardown(p) \/ TeardownNext(p) \/ ReadFloat(p) \/ Reclaim(p) \/ DecrFloat(p)
  BY <1>1, <1>3 DEF StartTeardown, TeardownNext, ReadFloat, Reclaim, DecrFloat
<1>4. CASE RecordTeardown(p) \/ SweepAgentWcspr(p) \/ HaltRequest(p)
  BY <1>1, <1>4 DEF RecordTeardown, SweepAgentWcspr, HaltRequest
<1>5. CASE DeleteRecord(p)
  <2>1. Reserving' = Reserving /\ \A g \in Agents : Pending(g)' = Pending(g)
    BY <1>0, <1>5 DEF TypeOK, DeleteRecord, Reserving, Pending, RequestMatches, RecordMatches,
                      Finishing, Confirming
  <2> QED
    BY <1>0, <1>5, <2>1, CeilingsUntouched DEF DeleteRecord, TypeOK
<1>6. CASE Promote(p)
  <2>1. CASE record[a] # "PENDING"
    BY <1>1, <1>6, <2>1 DEF Promote
  <2>2. CASE record[a] = "PENDING"
    <3>1. /\ record' = [record EXCEPT ![a] = "CONFIRMED"] /\ UNCHANGED <<deposit, funded>>
          /\ floatPending' = [floatPending EXCEPT ![AgentOf[a]] = @ - Amount[a]]
          /\ allocReserved' = allocReserved - Amount[a]
          /\ allocCommitted' = allocCommitted + Amount[a]
          /\ at[p] = "promote"
      BY <1>6, <2>2 DEF Promote
    <3>2. a \in Allocations
      BY <1>0, <3>1 DEF Confirming
    <3>3. CountersMatchAllocations'
      BY <2>2, <3>1, <3>2, PhaseLeft
    <3>4. allocReserved' + allocCommitted' = allocReserved + allocCommitted
      BY <1>0, <3>1 DEF TypeOK, Confirming
    <3> QED
      BY <1>0, <3>1, <3>3, <3>4 DEF WithinCeilings
  <2> QED
    BY <2>1, <2>2
<1>7. CASE Cancel(p)
  <2>1. CASE record[a] # "PENDING"
    BY <1>1, <1>7, <2>1 DEF Cancel
  <2>2. CASE record[a] = "PENDING"
    <3>1. /\ record' = [record EXCEPT ![a] = "cancelled"]
          /\ UNCHANGED <<deposit, funded, allocCommitted>>
          /\ floatPending' = [floatPending EXCEPT ![AgentOf[a]] = @ - Amount[a]]
          /\ allocReserved' = allocReserved - Amount[a]
          /\ at[p] = "cancel"
      BY <1>7, <2>2 DEF Cancel
    <3>2. a \in Allocations
      BY <1>0, <3>1 DEF Confirming
    <3>3. CountersMatchAllocations'
      BY <2>2, <3>1, <3>2, PhaseLeft
    <3>4. allocReserved' + allocCommitted' <= allocReserved + allocCommitted
      BY <1>0, <3>1 DEF TypeOK, Confirming
    <3> QED
      BY <1>0, <3>1, <3>3, <3>4 DEF WithinCeilings, TypeOK
  <2> QED
    BY <2>1, <2>2
<1>8. CASE DecrCommitted(p)
  <2>1. /\ UNCHANGED <<allocReserved, floatPending, record, deposit, funded>>
        /\ allocCommitted' = allocCommitted - took[p] /\ took[p] > 0 /\ took[p] \in Int
    BY <1>0, <1>8 DEF DecrCommitted, RequestMatches, TypeOK
  <2>2. Reserving' = Reserving /\ \A g \in Agents : Pending(g)' = Pending(g)
    BY <2>1 DEF Reserving, Pending
  <2>3. CountersMatchAllocations'
    BY <1>0, <2>1, <2>2 DEF CountersMatchAllocations
  <2>4. allocReserved' + allocCommitted' <= allocReserved + allocCommitted
    BY <1>0, <2>1 DEF TypeOK
  <2> QED
    BY <1>0, <2>1, <2>3, <2>4 DEF WithinCeilings, TypeOK
<1> QED
  BY <1>2, <1>3, <1>4, <1>5, <1>6, <1>7, <1>8 DEF ConfirmStep, TeardownStep

\* A step of depositFor writes the record of its own allocation, once.
LEMMA DepositMatches ==
    ASSUME IInv, TypeOK', NEW a \in Allocations,
           ReadFunded(a) \/ DepositStep(a) \/ Finalize(a) \/ HaltDeposit(a)
    PROVE  /\ \A b \in Allocations : RecordMatches(b)'
           /\ \A p \in Requests : RequestMatches(p)'
           /\ OneFinisher'
<1> USE DEF Goto, Running, counters, cold, chain, depositVars, requestVars
<1>0. TypeOK /\ \A b \in Allocations : RecordMatches(b)
  BY DEF IInv, WithinCeilings, CountersMatchAllocations
<1>1. UNCHANGED <<at, target, listed, took, ledger, funded>>
  BY DEF ReadFunded, DepositStep, Gate, Submit, FundOnChain, UndoReserve, IncrPending,
         StoreRecord, AddToIndex, Finalize, HaltDeposit
<1>2. record' = record \/ (deposit[a] = "store" /\ record' = [record EXCEPT ![a] = "PENDING"])
  BY DEF ReadFunded, DepositStep, Gate, Submit, FundOnChain, UndoReserve, IncrPending,
         StoreRecord, AddToIndex, Finalize, HaltDeposit
<1>3. ASSUME NEW b \in Allocations PROVE RecordMatches(b)'
  <2>1. CASE ReadFunded(a)
    BY <1>0, <2>1 DEF ReadFunded, RecordMatches, Promoted, TypeOK
  <2>2. CASE Gate(a) \/ Submit(a) \/ FundOnChain(a)
    <3>1. /\ UNCHANGED <<record, index, ledger, fundedSeen, funded>>
          /\ \E step : Goto(a, step) /\ step \notin {"index", "done"}
          /\ deposit[a] \notin {"index", "done"}
      BY <2>2 DEF Gate, Submit, FundOnChain
    <3> QED
      BY <1>0, <3>1 DEF RecordMatches, Promoted, TypeOK
  <2>3. CASE UndoReserve(a) \/ IncrPending(a)
    BY <1>0, <2>3 DEF UndoReserve, IncrPending, RecordMatches, Promoted, TypeOK
  <2>4. CASE StoreRecord(a)
    BY <1>0, <2>4 DEF StoreRecord, RecordMatches, Promoted, TypeOK
  <2>5. CASE AddToIndex(a) \/ Finalize(a) \/ HaltDeposit(a)
    BY <1>0, <2>5 DEF AddToIndex, Finalize, HaltDeposit, RecordMatches, Promoted, TypeOK
  <2> QED
    BY <2>1, <2>2, <2>3, <2>4, <2>5 DEF DepositStep
<1>4. ASSUME NEW p \in Requests PROVE RequestMatches(p)'
  <2>1. \A b \in Allocations : record[b] # "none" => record'[b] = record[b]
    BY <1>0, <1>2 DEF RecordMatches, TypeOK
  <2>2. RequestMatches(p) /\ listed[p] \subseteq Allocations
    BY <1>0 DEF IInv, TypeOK
  <2> QED
    BY <1>1, <2>1, <2>2 DEF RequestMatches, Placed, Confirming, Finishing
<1>5. OneFinisher'
  BY <1>1 DEF IInv, OneFinisher
<1> QED
  BY <1>3, <1>4, <1>5

\* A step of a sweep or a teardown moves one record on; a record that another request has
\* promoted stays with that request.
LEMMA RequestStepMatches ==
    ASSUME IInv, TypeOK', NEW p \in Requests,
           ConfirmStep(p) \/ SweepStep(p) \/ StartTeardown(p) \/ TeardownStep(p)
              \/ HaltRequest(p)
    PROVE  /\ \A b \in Allocations : RecordMatches(b)'
           /\ \A q \in Requests : RequestMatches(q)'
           /\ OneFinisher'
<1> USE AllocationAssumption
    DEF Move, Resume, counters, cold, chain, depositVars, requestVars, Requests
<1>0. /\ TypeOK /\ RequestMatches(p) /\ Placed(p) /\ OneFinisher
      /\ \A b \in Allocations : RecordMatches(b)
  BY DEF IInv, WithinCeilings, CountersMatchAllocations, RequestMatches
<1>1. ASSUME UNCHANGED <<record, deposit, fundedSeen, funded>>, index' \subseteq index,
             \A b \in Allocations : ledger'[b] = ledger[b],
             \A q \in Requests \ {p} :
                /\ at'[q] = at[q] /\ target'[q] = target[q]
                /\ listed'[q] = listed[q] /\ took'[q] = took[q],
             RequestMatches(p)',
             at'[p] \in Finishing => at[p] \in Finishing /\ target'[p] = target[p]
      PROVE  /\ \A b \in Allocations : RecordMatches(b)'
             /\ \A q \in Requests : RequestMatches(q)'
             /\ OneFinisher'
  <2>1. \A b \in Allocations : RecordMatches(b)'
    BY <1>0, <1>1 DEF RecordMatches, Promoted
  <2>2. ASSUME NEW q \in Requests \ {p} PROVE RequestMatches(q)'
    BY <1>1, <2>2 DEF IInv, RequestMatches, Placed, Finishing, Confirming
  <2>3. OneFinisher'
    BY <1>0, <1>1 DEF OneFinisher
  <2> QED
    BY <1>1, <2>1, <2>2, <2>3
<1>2. CASE ReadFinality(p)
  <2>1. RequestMatches(p)'
    BY <1>0, <1>2 DEF ReadFinality, RequestMatches, Placed, Confirming, Finishing, Retiring, TypeOK
  <2> QED
    BY <1>0, <1>1, <1>2, <2>1 DEF ReadFinality, Finishing, TypeOK
<1>3. CASE Deindex(p)
  <2>1. RequestMatches(p)'
    BY <1>0, <1>3 DEF Deindex, RequestMatches, Placed, Confirming, Finishing, Retiring, TypeOK
  <2> QED
    BY <1>0, <1>1, <1>3, <2>1 DEF Deindex, Finishing, TypeOK
<1>4. CASE StartTick(p) \/ StartTeardown(p)
  <2>1. RequestMatches(p)'
    BY <1>0, <1>4 DEF StartTick, StartTeardown, RequestMatches, RecordMatches, Placed,
                      Confirming, Finishing, Retiring, TypeOK
  <2> QED
    BY <1>0, <1>1, <1>4, <2>1 DEF StartTick, StartTeardown, Finishing, TypeOK
<1>5. CASE SweepNext(p)
  <2>1. RequestMatches(p)'
    BY <1>0, <1>5 DEF SweepNext, RequestMatches, Placed, Confirming, Finishing, Retiring, TypeOK
  <2> QED
    BY <1>0, <1>1, <1>5, <2>1 DEF SweepNext, Finishing, TypeOK
<1>6. CASE TeardownNext(p)
  <2>1. RequestMatches(p)'
    BY <1>0, <1>6
       DEF TeardownNext, RequestMatches, Placed, Confirming, Finishing, Retiring, TypeOK
  <2> QED
    BY <1>0, <1>1, <1>6, <2>1 DEF TeardownNext, Finishing, TypeOK
<1>7. CASE ReadFloat(p) \/ Reclaim(p) \/ DecrFloat(p) \/ DecrCommitted(p)
  <2>1. RequestMatches(p)'
    BY <1>0, <1>7 DEF ReadFloat, Reclaim, DecrFloat, DecrCommitted, RequestMatches, Placed,
                      Confirming, Finishing, Retiring, TypeOK
  <2> QED
    BY <1>0, <1>1, <1>7, <2>1
       DEF ReadFloat, Reclaim, DecrFloat, DecrCommitted, Finishing, TypeOK
<1>8. CASE RecordTeardown(p)
  <2>1. p \in Teardowns /\ \A b \in Allocations : ledger'[b] = ledger[b]
    BY <1>0, <1>8 DEF RecordTeardown, Placed, Retiring, TypeOK
  <2>2. RequestMatches(p)'
    BY <1>0, <1>8, <2>1
       DEF RecordTeardown, RequestMatches, Placed, Confirming, Finishing, Retiring, TypeOK
  <2> QED
    BY <1>0, <1>1, <1>8, <2>1, <2>2 DEF RecordTeardown, Finishing, TypeOK
<1>9. CASE SweepAgentWcspr(p) \/ HaltRequest(p)
  <2>1. RequestMatches(p)'
    BY <1>0, <1>9 DEF SweepAgentWcspr, HaltRequest, RequestMatches, Placed, Confirming,
                      Finishing, Retiring, TypeOK
  <2> QED
    BY <1>0, <1>1, <1>9, <2>1 DEF SweepAgentWcspr, HaltRequest, Finishing, TypeOK
<1>10. CASE Promote(p) \/ Cancel(p)
  <2> DEFINE a == target[p]
  <2>1. /\ a \in Allocations /\ record[a] # "none" /\ ~ (at[p] \in Finishing)
        /\ UNCHANGED <<ledger, deposit, fundedSeen, funded, target, listed, took>>
        /\ index' \subseteq index
    BY <1>0, <1>10 DEF Promote, Cancel, RequestMatches, Placed, Confirming, Finishing
  <2>2. CASE record[a] # "PENDING"
    <3>1. UNCHANGED record /\ Move(p, "next")
      BY <1>10, <2>2 DEF Promote, Cancel
    <3>2. RequestMatches(p)'
      BY <1>0, <2>1, <3>1 DEF RequestMatches, Placed, Confirming, Finishing, Retiring, TypeOK
    <3> QED
      BY <1>0, <1>1, <2>1, <3>1, <3>2 DEF Finishing, TypeOK
  <2>3. CASE record[a] = "PENDING"
    <3>1. \/ record' = [record EXCEPT ![a] = "CONFIRMED"] /\ Move(p, "deindex")
          \/ record' = [record EXCEPT ![a] = "cancelled"] /\ Move(p, "next")
      BY <1>10, <2>3 DEF Promote, Cancel
    <3>2. ledger[a] = 0
      BY <1>0, <2>1, <2>3 DEF RecordMatches, Promoted, TypeOK
    <3>3. \A b \in Allocations : RecordMatches(b)'
      BY <1>0, <2>1, <2>3, <3>1, <3>2 DEF RecordMatches, Promoted, TypeOK
    <3>4. ASSUME NEW q \in Requests PROVE RequestMatches(q)'
      <4>1. CASE q = p
        BY <1>0, <2>1, <3>1, <3>2, <4>1
           DEF RequestMatches, Placed, Confirming, Finishing, Retiring, TypeOK
      <4>2. CASE q # p
        <5>1. RequestMatches(q)
          BY DEF IInv
        <5>2. at'[q] = at[q]
          BY <1>0, <3>1, <4>2 DEF TypeOK
        <5>3. \A b \in Allocations : /\ record[b] # "none" => record'[b] # "none"
                                     /\ record[b] = "CONFIRMED" => record'[b] = "CONFIRMED"
          BY <1>0, <2>1, <2>3, <3>1 DEF TypeOK
        <5>4. listed[q] \subseteq Allocations
          BY <1>0 DEF TypeOK
        <5> QED
          BY <2>1, <5>1, <5>2, <5>3, <5>4 DEF RequestMatches, Placed, Confirming, Finishing
      <4> QED
        BY <4>1, <4>2
    <3>5. \A q \in Requests \ {p} : at[q] \in Finishing => target[q] # a
      BY <2>3 DEF IInv, RequestMatches
    <3>6. \A q \in Requests \ {p} : at'[q] = at[q] /\ target'[q] = target[q]
      BY <1>0, <2>1, <3>1 DEF TypeOK
    <3>7. OneFinisher'
      BY <1>0, <2>1, <3>5, <3>6 DEF OneFinisher
    <3> QED
      BY <3>3, <3>4, <3>7
  <2> QED
    BY <2>2, <2>3
<1>11. CASE WriteLedger(p)
  <2> DEFINE a == target[p]
  <2>1. /\ a \in Allocations /\ record[a] = "CONFIRMED" /\ ledger[a] = 0
        /\ ledger' = [ledger EXCEPT ![a] = @ + 1] /\ Move(p, "delete") /\ at[p] = "ledger"
        /\ UNCHANGED <<record, index, deposit, fundedSeen, funded, target, listed, took>>
    BY <1>0, <1>11 DEF WriteLedger, RequestMatches, Placed, Confirming, Finishing
  <2>2. \A b \in Allocations : RecordMatches(b)'
    BY <1>0, <2>1 DEF RecordMatches, Promoted, TypeOK
  <2>3. ASSUME NEW q \in Requests PROVE RequestMatches(q)'
    <3>1. CASE q = p
      BY <1>0, <2>1, <3>1 DEF RequestMatches, Placed, Confirming, Finishing, Retiring, TypeOK
    <3>2. CASE q # p
      <4>1. RequestMatches(q) /\ at'[q] = at[q]
        BY <1>0, <2>1, <3>2 DEF IInv, TypeOK
      <4>2. at[q] \in Finishing => target[q] # a
        BY <1>0, <2>1, <3>2 DEF OneFinisher, Finishing
      <4>3. at[q] \in Finishing => ledger'[target[q]] = ledger[target[q]]
        BY <1>0, <2>1, <4>1, <4>2 DEF RequestMatches, Placed, Confirming, Finishing, TypeOK
      <4> QED
        BY <2>1, <4>1, <4>3 DEF RequestMatches, Placed, Finishing
    <3> QED
      BY <3>1, <3>2
  <2>4. OneFinisher'
    BY <1>0, <2>1 DEF OneFinisher, Finishing, TypeOK
  <2> QED
    BY <2>2, <2>3, <2>4
<1>12. CASE DeleteRecord(p)
  <2> DEFINE a == target[p]
  <2>1. /\ a \in Allocations /\ record[a] = "CONFIRMED" /\ at[p] = "delete"
        /\ record' = [record EXCEPT ![a] = "deleted"] /\ Move(p, "next")
        /\ UNCHANGED <<ledger, index, deposit, fundedSeen, funded, target, listed, took>>
    BY <1>0, <1>12 DEF DeleteRecord, RequestMatches, Placed, Confirming, Finishing
  <2>2. \A b \in Allocations : RecordMatches(b)'
    BY <1>0, <2>1 DEF RecordMatches, Promoted, TypeOK
  <2>3. ASSUME NEW q \in Requests PROVE RequestMatches(q)'
    <3>1. CASE q = p
      BY <1>0, <2>1, <3>1 DEF RequestMatches, Placed, Confirming, Finishing, Retiring, TypeOK
    <3>2. CASE q # p
      <4>1. RequestMatches(q) /\ at'[q] = at[q] /\ listed[q] \subseteq Allocations
        BY <1>0, <2>1, <3>2 DEF IInv, TypeOK
      <4>2. at[q] \in Finishing => target[q] # a
        BY <1>0, <2>1, <3>2 DEF OneFinisher, Finishing
      <4>3. \A b \in Allocations : /\ record[b] # "none" => record'[b] # "none"
                                   /\ b # a => record'[b] = record[b]
        BY <1>0, <2>1 DEF TypeOK
      <4> QED
        BY <2>1, <4>1, <4>2, <4>3 DEF RequestMatches, Placed, Confirming, Finishing
    <3> QED
      BY <3>1, <3>2
  <2>4. OneFinisher'
    BY <1>0, <2>1 DEF OneFinisher, Finishing, TypeOK
  <2> QED
    BY <2>2, <2>3, <2>4
<1> QED
  BY <1>2, <1>3, <1>4, <1>5, <1>6, <1>7, <1>8, <1>9, <1>10, <1>11, <1>12
  DEF ConfirmStep, SweepStep, TeardownStep

\* Every step preserves the inductive invariant.
LEMMA IInvStep == IInv /\ [Next]_vars => IInv'
<1> SUFFICES ASSUME IInv, [Next]_vars PROVE IInv'
  OBVIOUS
<1>0. TypeOK
  BY DEF IInv, WithinCeilings, CountersMatchAllocations
<1>1. ASSUME NEW a \in Allocations,
             ReadFunded(a) \/ DepositStep(a) \/ Finalize(a) \/ HaltDeposit(a)
      PROVE  IInv'
  <2>1. TypeOK'
    BY <1>0, <1>1, DepositTypes
  <2> QED
    BY <1>1, <2>1, DepositCeilings, DepositMatches DEF IInv
<1>2. ASSUME NEW p \in Requests,
             ConfirmStep(p) \/ SweepStep(p) \/ StartTeardown(p) \/ TeardownStep(p)
                \/ HaltRequest(p)
      PROVE  IInv'
  <2>1. TypeOK'
    BY <1>0, <1>2, RequestTypes DEF IInv, RequestMatches
  <2> QED
    BY <1>2, <2>1, RequestCeilings, RequestStepMatches DEF IInv
<1>3. ASSUME NEW n \in 1 .. MaxFunded, CreditTreasury(n) PROVE IInv'
  <2> USE <1>3, AllocationAssumption
      DEF CreditTreasury, counters, chain, depositVars, requestVars
  <2>1. TypeOK' /\ funded <= funded'
    BY <1>0 DEF TypeOK
  <2>2. Reserving' = Reserving /\ \A g \in Agents : Pending(g)' = Pending(g)
    BY DEF Reserving, Pending
  <2>3. WithinCeilings'
    BY <2>1, <2>2, CeilingsUntouched DEF IInv
  <2>4. \A a \in Allocations : RecordMatches(a)'
    BY <1>0, <2>1 DEF IInv, RecordMatches, Promoted, TypeOK
  <2>5. (\A p \in Requests : RequestMatches(p)') /\ OneFinisher'
    BY DEF IInv, RequestMatches, Placed, OneFinisher
  <2> QED
    BY <2>3, <2>4, <2>5 DEF IInv
<1>4. CASE UNCHANGED vars
  <2> USE <1>4 DEF vars, counters, cold, chain, depositVars, requestVars
  <2>1. TypeOK' /\ funded <= funded'
    BY <1>0 DEF TypeOK
  <2>2. Reserving' = Reserving /\ \A g \in Agents : Pending(g)' = Pending(g)
    BY DEF Reserving, Pending
  <2>3. WithinCeilings'
    BY <2>1, <2>2, CeilingsUntouched DEF IInv
  <2>4. \A a \in Allocations : RecordMatches(a)'
    BY DEF IInv, RecordMatches, Promoted
  <2>5. (\A p \in Requests : RequestMatches(p)') /\ OneFinisher'
    BY DEF IInv, RequestMatches, Placed, OneFinisher
  <2> QED
    BY <2>3, <2>4, <2>5 DEF IInv
<1> QED
  BY <1>1, <1>2, <1>3, <1>4 DEF Next

\* Nothing is reserved, nothing recorded and nobody runs at first.
LEMMA InitIInv == Init => IInv
<1> SUFFICES ASSUME Init PROVE IInv
  OBVIOUS
<1>1. TypeOK
  BY InitTypes
<1>2. Reserving = {} /\ \A g \in Agents : Pending(g) = {}
  BY DEF Init, Reserving, Pending, Of
<1>3. WithinCeilings
  BY <1>1, <1>2, AllocationAssumption DEF Init, WithinCeilings, CountersMatchAllocations
<1>4. \A a \in Allocations : RecordMatches(a)
  BY DEF Init, RecordMatches, Promoted
<1>5. (\A p \in Requests : RequestMatches(p)) /\ OneFinisher
  BY DEF Init, RequestMatches, Placed, OneFinisher, Confirming, Finishing, Retiring
<1> QED
  BY <1>3, <1>4, <1>5 DEF IInv

-----------------------------------------------------------------------------
(* What the treasury may rely on *)

\* The two phases and their counters, the ceilings, the records and the requests agree in
\* every behaviour.
THEOREM Invariance == Spec => []IInv
BY InitIInv, IInvStep, PTL DEF Spec

\* Both two-phase counters are exactly the allocations in the phase.
THEOREM CountersAreExact == Spec => []CountersMatchAllocations
<1>1. IInv => CountersMatchAllocations
  BY DEF IInv, WithinCeilings
<1> QED
  BY <1>1, Invariance, PTL

\* Outstanding allocations stay within the policy budget and the treasury's deposits.
THEOREM CeilingsHold == Spec => []WithinCeilings
<1>1. IInv => WithinCeilings
  BY DEF IInv
<1> QED
  BY <1>1, Invariance, PTL

\* A deposit is promoted and written to the ledger at most once.
THEOREM OnePromotion == Spec => []PromotedOnce
<1>1. IInv => PromotedOnce
  <2> SUFFICES ASSUME IInv, NEW a \in Allocations
               PROVE  /\ ledger[a] <= IF a \in Promoted THEN 1 ELSE 0
                      /\ a \in Promoted => deposit[a] \in {"index", "done"}
    BY DEF PromotedOnce
  <2> QED
    BY DEF IInv, RecordMatches, Promoted
<1> QED
  BY <1>1, Invariance, PTL

-----------------------------------------------------------------------------
(* What is left behind when no instance stops *)

\* No instance stops between two steps of an allocation.
NoHalt == "halt" \notin Faults

\* A pending record is on its way into the index or in it, and a request is about to take a
\* confirmed one out of the index, to write its pair and to delete it.
RecordSettles(a) ==
    /\ a \in index => deposit[a] = "done"
    /\ deposit[a] = "index" => record[a] = "PENDING"
    /\ record[a] = "PENDING" => deposit[a] = "index" \/ a \in index
    /\ a \in index /\ record[a] # "PENDING" =>
          \E p \in Requests : at[p] = "deindex" /\ target[p] = a
    /\ record[a] = "CONFIRMED" => \E p \in Requests : at[p] \in Finishing /\ target[p] = a
    /\ record[a] = "deleted" => ledger[a] = 1

\* Requests visit deposits that are through, and a teardown writes its own pair once, after
\* it took float back.
RequestSettles(p) ==
    /\ at[p] \in Confirming => deposit[target[p]] = "done"
    /\ \A a \in listed[p] : deposit[a] = "done"
    /\ at[p] = "delete" => ledger[target[p]] = 1
    /\ p \in Teardowns =>
          IF at[p] \in {"sweep", "ended"} THEN ledger[p] = IF took[p] > 0 THEN 1 ELSE 0
          ELSE /\ ledger[p] = 0
               /\ took[p] > 0 <=> at[p] \in {"reclaim", "decrFloat", "decrCommitted",
                                              "recordTeardown"}

SettleInv ==
    /\ IInv
    /\ \A a \in Allocations : RecordSettles(a)
    /\ \A p \in Requests : RequestSettles(p)

\* A step of depositFor moves its own deposit on, whose record nobody else can reach before
\* it is in the index.
LEMMA DepositSettles ==
    ASSUME SettleInv, NEW a \in Allocations,
           ReadFunded(a) \/ DepositStep(a) \/ Finalize(a) \/ HaltDeposit(a)
    PROVE  /\ \A b \in Allocations : RecordSettles(b)'
           /\ \A p \in Requests : RequestSettles(p)'
<1> USE DEF Goto, Running, counters, cold, chain, depositVars, requestVars
<1>0. /\ TypeOK /\ \A b \in Allocations : RecordSettles(b) /\ RecordMatches(b)
      /\ \A p \in Requests : RequestSettles(p) /\ RequestMatches(p)
  BY DEF SettleInv, IInv, WithinCeilings, CountersMatchAllocations
<1>1. UNCHANGED <<at, target, listed, took, ledger>>
  BY DEF ReadFunded, DepositStep, Gate, Submit, FundOnChain, UndoReserve, IncrPending,
         StoreRecord, AddToIndex, Finalize, HaltDeposit
<1>2. \/ UNCHANGED <<deposit, record, index>>
      \/ /\ UNCHANGED <<record, index>> /\ deposit[a] \notin {"index", "done"}
         /\ \E step : Goto(a, step) /\ step \notin {"index", "done"}
      \/ /\ deposit[a] = "store" /\ Goto(a, "index")
         /\ record' = [record EXCEPT ![a] = "PENDING"] /\ UNCHANGED index
      \/ /\ deposit[a] = "index" /\ Goto(a, "done")
         /\ index' = index \cup {a} /\ UNCHANGED record
  BY DEF ReadFunded, DepositStep, Gate, Submit, FundOnChain, UndoReserve, IncrPending,
         StoreRecord, AddToIndex, Finalize, HaltDeposit
<1>3. ASSUME NEW b \in Allocations PROVE RecordSettles(b)'
  <2>1. RecordSettles(b) /\ RecordMatches(b)
    BY <1>0
  <2>2. CASE b # a
    <3>1. deposit'[b] = deposit[b] /\ record'[b] = record[b] /\ (b \in index' <=> b \in index)
      BY <1>0, <1>2, <2>2 DEF TypeOK
    <3> QED
      BY <1>1, <2>1, <3>1 DEF RecordSettles
  <2>3. CASE b = a
    <3>1. CASE UNCHANGED <<deposit, record, index>>
      BY <1>1, <2>1, <3>1 DEF RecordSettles
    <3>2. CASE UNCHANGED <<record, index>> /\ deposit[a] \notin {"index", "done"}
               /\ \E step : Goto(a, step) /\ step \notin {"index", "done"}
      BY <1>0, <1>1, <2>1, <2>3, <3>2 DEF RecordSettles, RecordMatches, TypeOK
    <3>3. CASE deposit[a] = "store" /\ Goto(a, "index")
               /\ record' = [record EXCEPT ![a] = "PENDING"] /\ UNCHANGED index
      BY <1>0, <1>1, <2>1, <2>3, <3>3 DEF RecordSettles, RecordMatches, TypeOK
    <3>4. CASE deposit[a] = "index" /\ Goto(a, "done")
               /\ index' = index \cup {a} /\ UNCHANGED record
      BY <1>0, <1>1, <2>1, <2>3, <3>4 DEF RecordSettles, TypeOK
    <3> QED
      BY <1>2, <3>1, <3>2, <3>3, <3>4
  <2> QED
    BY <2>2, <2>3
<1>4. ASSUME NEW p \in Requests PROVE RequestSettles(p)'
  <2>1. RequestSettles(p) /\ RequestMatches(p) /\ listed[p] \subseteq Allocations
    BY <1>0 DEF TypeOK
  <2>2. \A b \in Allocations : deposit[b] = "done" => deposit'[b] = "done"
    BY <1>0, <1>2 DEF TypeOK
  <2> QED
    BY <1>1, <2>1, <2>2 DEF RequestSettles, RequestMatches, Placed
<1> QED
  BY <1>3, <1>4

\* A step of a sweep or a teardown.
LEMMA RequestStepSettles ==
    ASSUME NoHalt, SettleInv, NEW p \in Requests,
           ConfirmStep(p) \/ SweepStep(p) \/ StartTeardown(p) \/ TeardownStep(p)
              \/ HaltRequest(p)
    PROVE  /\ \A b \in Allocations : RecordSettles(b)'
           /\ \A q \in Requests : RequestSettles(q)'
<1> USE AllocationAssumption
    DEF Move, Resume, counters, cold, chain, depositVars, requestVars
<1>0. /\ TypeOK /\ RequestMatches(p) /\ Placed(p) /\ RequestSettles(p) /\ OneFinisher
      /\ \A b \in Allocations : RecordSettles(b) /\ RecordMatches(b)
  BY DEF SettleInv, IInv, WithinCeilings, CountersMatchAllocations, RequestMatches
<1>1. ASSUME UNCHANGED <<record, deposit>>, at[p] \notin Finishing,
             \A b \in Allocations :
                /\ ledger'[b] = ledger[b]
                /\ b \in index' => b \in index
                /\ b \in index /\ record[b] = "PENDING" => b \in index',
             \A q \in Requests \ {p} : at'[q] = at[q] /\ target'[q] = target[q]
      PROVE  \A b \in Allocations : RecordSettles(b)'
  <2> SUFFICES ASSUME NEW b \in Allocations PROVE RecordSettles(b)'
    OBVIOUS
  <2>1. \A q \in Requests : at[q] \in Finishing => q # p
    BY <1>1
  <2>2. \A q \in Requests : at[q] = "deindex" => q # p
    BY <2>1 DEF Finishing
  <2> QED
    BY <1>0, <1>1, <2>1, <2>2 DEF RecordSettles
<1>2. ASSUME UNCHANGED deposit,
             \A q \in Requests \ {p} :
                /\ at'[q] = at[q] /\ target'[q] = target[q]
                /\ listed'[q] = listed[q] /\ took'[q] = took[q]
                /\ at[q] = "delete" => ledger'[target[q]] = ledger[target[q]],
             \A q \in Teardowns \ {p} : ledger'[q] = ledger[q],
             RequestSettles(p)'
      PROVE  \A q \in Requests : RequestSettles(q)'
  <2> SUFFICES ASSUME NEW q \in Requests \ {p} PROVE RequestSettles(q)'
    BY <1>2
  <2>1. RequestSettles(q)
    BY DEF SettleInv
  <2> QED
    BY <1>2, <2>1 DEF RequestSettles
<1>3. ASSUME UNCHANGED <<record, deposit, ledger>>, at[p] \notin Finishing,
             index' = index \/ \E a \in index : record[a] # "PENDING" /\ index' = index \ {a},
             \A q \in Requests \ {p} :
                /\ at'[q] = at[q] /\ target'[q] = target[q]
                /\ listed'[q] = listed[q] /\ took'[q] = took[q],
             RequestSettles(p)'
      PROVE  /\ \A b \in Allocations : RecordSettles(b)'
             /\ \A q \in Requests : RequestSettles(q)'
  BY <1>1, <1>2, <1>3
<1>4. CASE ReadFinality(p)
  <2>1. RequestSettles(p)'
    BY <1>0, <1>4 DEF ReadFinality, RequestSettles, Confirming, TypeOK
  <2> QED
    BY <1>0, <1>3, <1>4, <2>1 DEF ReadFinality, Finishing, TypeOK
<1>5. CASE StartTick(p) \/ StartTeardown(p)
  <2>1. RequestSettles(p)'
    BY <1>0, <1>5
       DEF StartTick, StartTeardown, RequestSettles, RecordSettles, Confirming, TypeOK
  <2> QED
    BY <1>0, <1>3, <1>5, <2>1 DEF StartTick, StartTeardown, Finishing, TypeOK
<1>6. CASE SweepNext(p)
  <2>1. RequestSettles(p)'
    BY <1>0, <1>6 DEF SweepNext, RequestSettles, Confirming, TypeOK
  <2> QED
    BY <1>0, <1>3, <1>6, <2>1 DEF SweepNext, Finishing, TypeOK
<1>7. CASE TeardownNext(p)
  <2>1. RequestSettles(p)'
    BY <1>0, <1>7 DEF TeardownNext, RequestSettles, Confirming, TypeOK
  <2>2. index' = index \/ \E a \in index : record[a] # "PENDING" /\ index' = index \ {a}
    <3>1. CASE UNCHANGED index
      BY <3>1
    <3>2. CASE \E a \in listed[p] : record[a] # "PENDING" /\ index' = index \ {a}
      <4>1. PICK a \in listed[p] : record[a] # "PENDING" /\ index' = index \ {a}
        BY <3>2
      <4>2. a \notin index => index' = index
        BY <4>1
      <4> QED
        BY <4>1, <4>2
    <3> QED
      BY <1>7, <3>1, <3>2 DEF TeardownNext
  <2> QED
    BY <1>0, <1>3, <1>7, <2>1, <2>2 DEF TeardownNext, Finishing, TypeOK
<1>8. CASE ReadFloat(p) \/ Reclaim(p)
  <2>1. RequestSettles(p)'
    BY <1>0, <1>8 DEF ReadFloat, Reclaim, RequestSettles, Confirming, TypeOK
  <2> QED
    BY <1>0, <1>3, <1>8, <2>1 DEF ReadFloat, Reclaim, Finishing, TypeOK
<1>9. CASE DecrFloat(p) \/ DecrCommitted(p)
  <2>1. RequestSettles(p)'
    BY <1>0, <1>9 DEF DecrFloat, DecrCommitted, RequestSettles, Confirming, TypeOK
  <2> QED
    BY <1>0, <1>3, <1>9, <2>1 DEF DecrFloat, DecrCommitted, Finishing, TypeOK
<1>10. CASE SweepAgentWcspr(p) \/ HaltRequest(p)
  <2>1. RequestSettles(p)'
    BY <1>0, <1>10 DEF SweepAgentWcspr, HaltRequest, NoHalt, RequestSettles, Confirming, TypeOK
  <2> QED
    BY <1>0, <1>3, <1>10, <2>1 DEF SweepAgentWcspr, HaltRequest, NoHalt, Finishing, TypeOK
<1>11. CASE RecordTeardown(p)
  <2>1. p \in Teardowns /\ at[p] \notin Finishing
        /\ ledger' = [ledger EXCEPT ![p] = @ + 1] /\ Move(p, "sweep")
        /\ UNCHANGED <<record, index, deposit, target, listed, took>>
    BY <1>0, <1>11 DEF RecordTeardown, Placed, Retiring, Finishing
  <2>2. \A x \in (Allocations \cup Teardowns) \ {p} : ledger'[x] = ledger[x]
    BY <1>0, <2>1 DEF TypeOK
  <2>3. RequestSettles(p)'
    BY <1>0, <1>11, <2>1 DEF RecordTeardown, RequestSettles, Confirming, TypeOK
  <2>4. \A b \in Allocations : RecordSettles(b)'
    BY <1>0, <1>1, <2>1, <2>2 DEF TypeOK
  <2>5. \A q \in Requests \ {p} : at[q] = "delete" => target[q] \in Allocations
    BY DEF SettleInv, IInv, RequestMatches, Placed, Confirming
  <2>6. \A q \in Requests : RequestSettles(q)'
    BY <1>0, <1>2, <2>1, <2>2, <2>3, <2>5 DEF TypeOK
  <2> QED
    BY <2>4, <2>6
<1>12. CASE (Promote(p) \/ Cancel(p)) /\ record[target[p]] # "PENDING"
  <2>1. RequestSettles(p)'
    BY <1>0, <1>12 DEF Promote, Cancel, RequestSettles, Confirming, TypeOK
  <2> QED
    BY <1>0, <1>3, <1>12, <2>1 DEF Promote, Cancel, Finishing, TypeOK
<1>13. CASE (Promote(p) \/ Cancel(p)) /\ record[target[p]] = "PENDING"
  <2>0. PICK a \in Allocations : a = target[p]
    BY <1>0, <1>13 DEF Promote, Cancel, Placed, Confirming
  <2>1. /\ UNCHANGED <<ledger, deposit, target, listed, took>>
        /\ at[p] \in Confirming \ Finishing
        /\ \/ record' = [record EXCEPT ![a] = "CONFIRMED"] /\ Move(p, "deindex")
              /\ UNCHANGED index
           \/ record' = [record EXCEPT ![a] = "cancelled"] /\ Move(p, "next")
              /\ index' = index \ {a}
    BY <1>13, <2>0 DEF Promote, Cancel, Confirming, Finishing
  <2>2. RequestSettles(p)'
    BY <1>0, <2>0, <2>1 DEF RequestSettles, Confirming, Finishing, TypeOK
  <2>3. ASSUME NEW b \in Allocations PROVE RecordSettles(b)'
    <3>1. CASE b = a
      <4>1. record[a] = "PENDING" /\ deposit'[a] = "done"
        BY <1>0, <1>13, <2>0, <2>1 DEF RequestSettles
      <4>2. record'[a] = "CONFIRMED" =>
               at'[p] = "deindex" /\ target'[p] = a /\ at'[p] \in Finishing
        BY <1>0, <2>0, <2>1 DEF TypeOK, Finishing
      <4>3. record'[a] \in {"CONFIRMED", "cancelled"}
            /\ (record'[a] = "cancelled" => a \notin index')
        BY <1>0, <2>1 DEF TypeOK
      <4> QED
        BY <3>1, <4>1, <4>2, <4>3 DEF RecordSettles
    <3>2. CASE b # a
      <4>1. record'[b] = record[b] /\ (b \in index' <=> b \in index)
        BY <1>0, <2>1, <3>2 DEF TypeOK
      <4>2. \A q \in Requests : at[q] \in Finishing => at'[q] = at[q]
        BY <1>0, <2>1 DEF TypeOK
      <4>3. \A q \in Requests : at[q] = "deindex" => at'[q] = at[q]
        BY <4>2 DEF Finishing
      <4> QED
        BY <1>0, <2>1, <4>1, <4>2, <4>3 DEF RecordSettles
    <3> QED
      BY <3>1, <3>2
  <2>4. \A q \in Requests : RequestSettles(q)'
    BY <1>0, <1>2, <2>1, <2>2 DEF TypeOK
  <2> QED
    BY <2>3, <2>4
<1>14. CASE Deindex(p) \/ WriteLedger(p) \/ DeleteRecord(p)
  <2>0. PICK a \in Allocations : a = target[p]
    BY <1>0, <1>14 DEF Deindex, WriteLedger, DeleteRecord, Placed, Confirming
  <2>1. /\ at[p] \in Finishing /\ record[a] = "CONFIRMED" /\ deposit[a] = "done"
        /\ UNCHANGED <<deposit, target, listed, took>>
    BY <1>0, <1>14, <2>0 DEF Deindex, WriteLedger, DeleteRecord, RequestMatches, RequestSettles,
                             Confirming, Finishing
  <2>2. \/ /\ at[p] = "deindex" /\ index' = index \ {a} /\ Move(p, "ledger")
           /\ UNCHANGED <<record, ledger>>
        \/ /\ at[p] = "ledger" /\ ledger' = [ledger EXCEPT ![a] = @ + 1] /\ Move(p, "delete")
           /\ UNCHANGED <<record, index>>
        \/ /\ at[p] = "delete" /\ record' = [record EXCEPT ![a] = "deleted"] /\ Move(p, "next")
           /\ UNCHANGED <<ledger, index>>
    BY <1>14, <2>0 DEF Deindex, WriteLedger, DeleteRecord
  <2>3. \A q \in Requests \ {p} :
           /\ at'[q] = at[q]
           /\ at[q] \in Finishing => target[q] # a
           /\ at[q] = "deindex" => target[q] # a
    BY <1>0, <2>0, <2>1, <2>2 DEF OneFinisher, Finishing, TypeOK
  <2>4. at[p] \in {"deindex", "ledger"} => ledger[a] = 0
    BY <1>0, <2>0 DEF RequestMatches
  <2>5. RequestSettles(p)'
    BY <1>0, <2>0, <2>1, <2>2, <2>4 DEF RequestSettles, Confirming, TypeOK
  <2>6. ASSUME NEW b \in Allocations PROVE RecordSettles(b)'
    <3>1. CASE b # a
      <4>1. record'[b] = record[b] /\ (b \in index' <=> b \in index) /\ ledger'[b] = ledger[b]
        BY <1>0, <2>2, <3>1 DEF TypeOK
      <4>2. \A q \in Requests : target[q] = b => at'[q] = at[q]
        BY <2>0, <2>3, <3>1
      <4> QED
        BY <1>0, <2>1, <4>1, <4>2 DEF RecordSettles
    <3>2. CASE b = a
      <4>1. CASE at[p] = "deindex"
        <5>1. /\ a \notin index' /\ record'[a] = "CONFIRMED" /\ target'[p] = a
              /\ at'[p] \in Finishing
          BY <1>0, <2>0, <2>1, <2>2, <4>1 DEF Finishing, TypeOK
        <5> QED
          BY <2>1, <3>2, <5>1 DEF RecordSettles
      <4>2. CASE at[p] \in {"ledger", "delete"}
        <5>1. a \notin index
          BY <1>0, <2>1, <2>3, <4>2 DEF RecordSettles
        <5>2. \/ record'[a] = "CONFIRMED" /\ target'[p] = a /\ at'[p] \in Finishing
              \/ record'[a] = "deleted" /\ ledger'[a] = 1
          BY <1>0, <2>0, <2>1, <2>2, <4>2 DEF Finishing, RequestSettles, TypeOK
        <5>3. a \notin index'
          BY <2>2, <4>2, <5>1
        <5> QED
          BY <2>1, <3>2, <5>2, <5>3 DEF RecordSettles
      <4> QED
        BY <2>1, <4>1, <4>2 DEF Finishing
    <3> QED
      BY <3>1, <3>2
  <2>7. \A q \in Requests \ {p} : at[q] = "delete" => ledger'[target[q]] = ledger[target[q]]
    <3> SUFFICES ASSUME NEW q \in Requests \ {p}, at[q] = "delete"
                 PROVE  ledger'[target[q]] = ledger[target[q]]
      OBVIOUS
    <3>1. target[q] # a /\ target[q] \in Allocations
      BY <2>3 DEF SettleInv, IInv, RequestMatches, Placed, Confirming, Finishing
    <3> QED
      BY <1>0, <2>2, <3>1 DEF TypeOK
  <2>8. \A q \in Teardowns : ledger'[q] = ledger[q]
    BY <1>0, <2>2 DEF TypeOK
  <2>9. \A q \in Requests : RequestSettles(q)'
    BY <1>2, <2>1, <2>3, <2>5, <2>7, <2>8
  <2> QED
    BY <2>6, <2>9
<1> QED
  BY <1>4, <1>5, <1>6, <1>7, <1>8, <1>9, <1>10, <1>11, <1>12, <1>13, <1>14
  DEF ConfirmStep, SweepStep, TeardownStep

\* Without halts every step preserves SettleInv.
LEMMA SettleStep == NoHalt /\ SettleInv /\ [Next]_vars => SettleInv'
<1> SUFFICES ASSUME NoHalt, SettleInv, [Next]_vars PROVE SettleInv'
  OBVIOUS
<1>0. IInv'
  BY IInvStep DEF SettleInv
<1>1. ASSUME NEW a \in Allocations,
             ReadFunded(a) \/ DepositStep(a) \/ Finalize(a) \/ HaltDeposit(a)
      PROVE  SettleInv'
  BY <1>0, <1>1, DepositSettles DEF SettleInv
<1>2. ASSUME NEW p \in Requests,
             ConfirmStep(p) \/ SweepStep(p) \/ StartTeardown(p) \/ TeardownStep(p)
                \/ HaltRequest(p)
      PROVE  SettleInv'
  BY <1>0, <1>2, RequestStepSettles DEF SettleInv
<1>3. ASSUME UNCHANGED <<record, index, ledger, deposit, requestVars>> PROVE SettleInv'
  BY <1>0, <1>3 DEF SettleInv, RecordSettles, RequestSettles, requestVars
<1>4. ASSUME NEW n \in 1 .. MaxFunded, CreditTreasury(n) PROVE SettleInv'
  BY <1>3, <1>4 DEF CreditTreasury, depositVars
<1>5. CASE UNCHANGED vars
  BY <1>3, <1>5 DEF vars, cold, depositVars
<1> QED
  BY <1>1, <1>2, <1>4, <1>5 DEF Next

\* Without halts, once every request has ended, the sweep can find each pending deposit, and
\* each promotion and each reclaim is in the ledger exactly once.
THEOREM SettledWhenQuiet == NoHalt => (Spec => []QuietIsSettled)
<1>1. Init => SettleInv
  <2> SUFFICES ASSUME Init PROVE SettleInv
    OBVIOUS
  <2>1. \A a \in Allocations : RecordSettles(a)
    BY DEF Init, RecordSettles
  <2>2. \A p \in Requests : RequestSettles(p)
    BY DEF Init, RequestSettles, Confirming
  <2> QED
    BY <2>1, <2>2, InitIInv DEF SettleInv
<1>2. SettleInv => QuietIsSettled
  <2> SUFFICES ASSUME SettleInv, Quiet
               PROVE  /\ index = {a \in Allocations : record[a] = "PENDING"}
                      /\ \A a \in Promoted : record[a] = "deleted" /\ ledger[a] = 1
                      /\ \A p \in Teardowns : ledger[p] = IF took[p] > 0 THEN 1 ELSE 0
    BY DEF QuietIsSettled
  <2>1. \A p \in Requests : at[p] \notin Finishing /\ at[p] # "deindex"
    BY DEF Quiet, Finishing
  <2>2. \A a \in Allocations :
           /\ a \in index <=> record[a] = "PENDING"
           /\ record[a] # "CONFIRMED"
           /\ record[a] = "deleted" => ledger[a] = 1
    BY <2>1 DEF SettleInv, RecordSettles, Quiet
  <2>3. index \subseteq Allocations
    BY DEF SettleInv, IInv, WithinCeilings, CountersMatchAllocations, TypeOK
  <2>4. ASSUME NEW p \in Teardowns PROVE ledger[p] = IF took[p] > 0 THEN 1 ELSE 0
    BY DEF SettleInv, RequestSettles, Quiet, Requests
  <2> QED
    BY <2>2, <2>3, <2>4 DEF Promoted
<1>3. ASSUME NoHalt PROVE Spec => []QuietIsSettled
  BY <1>1, <1>2, <1>3, SettleStep, PTL DEF Spec
<1> QED
  BY <1>3

-----------------------------------------------------------------------------
(* Coins and finality *)

\* The deposits of an agent that went past its funding: until the coins are swept they cover
\* them.
Sent(g) == {a \in Of(g) : deposit[a] \in {"pend", "store", "index", "done"}}

CoinsSuffice(g) ==
    \/ \E p \in Teardowns : TornDown[p] = g /\ at[p] = "ended"
    \/ ~(Of(g) \subseteq FundedOnChain)
    \/ Total[Sent(g)] <= coins[g]

\* A request that is about to promote has read finality.
PromotesFinal ==
    /\ AssumesFinality \/ Promoted \subseteq final
    /\ \A p \in Requests : at[p] = "promote" => AssumesFinality \/ target[p] \in final

FloatInv ==
    /\ IInv
    /\ PromotesFinal
    /\ \A g \in Agents : floatConfirmed[g] <= Total[Promoted \cap Of(g)] /\ CoinsSuffice(g)

\* The invariant covers the float: pending and promoted deposits are different ones and
\* were all sent.
LEMMA FloatInvCovers == FloatInv => FloatIsCovered
<1> SUFFICES ASSUME FloatInv, NEW g \in Agents PROVE FloatHasCoins(g)
  BY DEF FloatIsCovered, FloatInv, PromotesFinal
<1> USE AllocationAssumption
<1>1. TypeOK /\ CountersMatchAllocations /\ \A a \in Allocations : RecordMatches(a)
  BY DEF FloatInv, IInv, WithinCeilings, CountersMatchAllocations
<1>2. CASE Total[Sent(g)] <= coins[g]
  <2> DEFINE T == Promoted \cap Of(g)
  <2>1. /\ Pending(g) \in SUBSET Allocations /\ T \in SUBSET Allocations
        /\ Sent(g) \in SUBSET Allocations
    BY DEF Pending, Of, Sent
  <2>2. Pending(g) \cap T = {} /\ Pending(g) \cup T \in SUBSET Sent(g)
    BY <1>1 DEF Pending, Promoted, Of, Sent, RecordMatches, TypeOK
  <2>3. Total[Pending(g) \cup T] = Total[Pending(g)] + Total[T]
    BY <2>1, <2>2
  <2>4. Total[Pending(g) \cup T] <= Total[Sent(g)]
    BY <2>1, <2>2, TotalMonotone
  <2>5. floatPending[g] = Total[Pending(g)] /\ floatConfirmed[g] <= Total[T]
    BY <1>1 DEF FloatInv, CountersMatchAllocations
  <2>6. /\ Total[Pending(g)] \in Int /\ Total[T] \in Int /\ Total[Sent(g)] \in Int
        /\ coins[g] \in Int /\ floatConfirmed[g] \in Int
    BY <1>1, <2>1 DEF TypeOK
  <2> HIDE DEF T
  <2>7. floatPending[g] + floatConfirmed[g] <= coins[g]
    BY <1>2, <2>3, <2>4, <2>5, <2>6
  <2> QED
    BY <2>7 DEF FloatHasCoins
<1> QED
  BY <1>2 DEF FloatInv, CoinsSuffice, FloatHasCoins

\* A step of depositFor and of its transfer.
LEMMA DepositCovers ==
    ASSUME FloatInv, TypeOK', NEW a \in Allocations,
           ReadFunded(a) \/ DepositStep(a) \/ Finalize(a) \/ HaltDeposit(a)
    PROVE  /\ PromotesFinal'
           /\ \A g \in Agents : floatConfirmed'[g] <= Total[Promoted' \cap Of(g)]
                                /\ CoinsSuffice(g)'
<1> USE AllocationAssumption
    DEF Goto, Running, counters, cold, chain, depositVars, requestVars
<1>0. TypeOK /\ RecordMatches(a)
  BY DEF FloatInv, IInv, WithinCeilings, CountersMatchAllocations
<1>1. /\ UNCHANGED <<at, target, floatConfirmed>> /\ final \subseteq final'
      /\ \/ record' = record
         \/ deposit[a] = "store" /\ record' = [record EXCEPT ![a] = "PENDING"]
  BY DEF ReadFunded, DepositStep, Gate, Submit, FundOnChain, UndoReserve, IncrPending,
         StoreRecord, AddToIndex, Finalize, HaltDeposit
<1>2. Promoted' = Promoted
  BY <1>0, <1>1 DEF Promoted, RecordMatches, TypeOK
<1>3. PromotesFinal'
  BY <1>1, <1>2 DEF FloatInv, PromotesFinal
<1>4. ASSUME NEW g \in Agents PROVE CoinsSuffice(g)'
  <2>0. CoinsSuffice(g) /\ coins[g] \in Nat /\ Sent(g) \in SUBSET Allocations
    BY <1>0 DEF FloatInv, TypeOK, Sent, Of
  <2>1. ASSUME Sent(g)' = Sent(g), coins'[g] >= coins[g], coins'[g] \in Nat
        PROVE  CoinsSuffice(g)'
    BY <1>1, <2>0, <2>1 DEF CoinsSuffice
  <2>2. CASE ~ FundOnChain(a)
    <3>1. /\ UNCHANGED coins
          /\ \/ UNCHANGED deposit
             \/ \E step : Goto(a, step) /\ step \notin {"pend", "store", "index", "done"}
                   /\ deposit[a] \notin {"pend", "store", "index", "done"}
             \/ \E step : Goto(a, step) /\ step \in {"pend", "store", "index", "done"}
                   /\ deposit[a] \in {"pend", "store", "index", "done"}
      BY <2>2 DEF ReadFunded, DepositStep, Gate, Submit, UndoReserve, IncrPending,
                  StoreRecord, AddToIndex, Finalize, HaltDeposit
    <3>2. Sent(g)' = Sent(g)
      BY <1>0, <3>1 DEF Sent, Of, TypeOK
    <3> QED
      BY <2>0, <2>1, <3>1, <3>2
  <2>3. CASE FundOnChain(a)
    <3>1. deposit[a] = "fund" /\ a \notin Sent(g)
      BY <2>3 DEF FundOnChain, Sent
    <3>2. coins'[g] \in Nat
      BY DEF TypeOK
    <3>3. CASE g # AgentOf[a] \/ Goto(a, "undo")
      <4>1. Sent(g)' = Sent(g)
        BY <1>0, <2>3, <3>1, <3>3 DEF FundOnChain, Sent, Of, TypeOK
      <4>2. coins'[g] >= coins[g]
        <5>1. coins \in [Agents -> Nat] /\ Amount[a] \in Nat
          BY <1>0, AllocationAssumption DEF TypeOK
        <5>2. coins' = coins \/ coins' = [coins EXCEPT ![AgentOf[a]] = @ + Amount[a]]
          BY <2>3 DEF FundOnChain, FundAgentOnChain
        <5> QED
          BY <5>1, <5>2
      <4> QED
        BY <2>1, <3>2, <4>1, <4>2
    <3>4. CASE g = AgentOf[a] /\ Goto(a, "pend") /\ ~WillFund(a)
      BY <3>4 DEF CoinsSuffice, WillFund, Of
    <3>5. CASE g = AgentOf[a] /\ Goto(a, "pend") /\ FundAgentOnChain(a, TRUE)
      <4>1. Sent(g)' = Sent(g) \cup {a}
        BY <1>0, <3>1, <3>5 DEF Sent, Of, TypeOK
      <4>2. Total[Sent(g)'] = Total[Sent(g)] + Amount[a]
        BY <2>0, <3>1, <4>1, TotalAdd
      <4>3. coins'[g] = coins[g] + Amount[a]
        BY <1>0, <3>5 DEF FundAgentOnChain, TypeOK
      <4> QED
        BY <1>1, <2>0, <4>2, <4>3 DEF CoinsSuffice
    <3> QED
      BY <2>3, <3>3, <3>4, <3>5 DEF FundOnChain
  <2> QED
    BY <2>2, <2>3
<1> QED
  BY <1>1, <1>2, <1>3, <1>4 DEF FloatInv

\* A step of a sweep or a teardown.
LEMMA RequestCovers ==
    ASSUME FloatInv, TypeOK', NEW p \in Requests,
           ConfirmStep(p) \/ SweepStep(p) \/ StartTeardown(p) \/ TeardownStep(p)
              \/ HaltRequest(p)
    PROVE  /\ PromotesFinal'
           /\ \A g \in Agents : floatConfirmed'[g] <= Total[Promoted' \cap Of(g)]
                                /\ CoinsSuffice(g)'
<1> USE AllocationAssumption
    DEF Move, Resume, counters, cold, chain, depositVars, requestVars
<1>0. TypeOK /\ RequestMatches(p) /\ Placed(p) /\ PromotesFinal
  BY DEF FloatInv, IInv, WithinCeilings, CountersMatchAllocations, RequestMatches
<1>1. UNCHANGED <<deposit, final>> /\ \A q \in Requests \ {p} : at'[q] = at[q]
  BY <1>0 DEF ConfirmStep, SweepStep, TeardownStep, ReadFinality, Promote, Deindex,
       WriteLedger, DeleteRecord, StartTick, SweepNext, StartTeardown, TeardownNext, Cancel,
       ReadFloat, Reclaim, DecrFloat, DecrCommitted, RecordTeardown, SweepAgentWcspr,
       HaltRequest, TypeOK
<1>2. ASSUME NEW g \in Agents PROVE CoinsSuffice(g)'
  <2>1. CoinsSuffice(g) /\ Sent(g)' = Sent(g)
    BY <1>1 DEF FloatInv, Sent
  <2>2. p \in Teardowns /\ at[p] = "ended" => at'[p] = "ended"
    BY <1>0, AllocationAssumption
    DEF ConfirmStep, SweepStep, TeardownStep, ReadFinality, Promote, Deindex,
        WriteLedger, DeleteRecord, StartTick, SweepNext, StartTeardown, TeardownNext, Cancel,
        ReadFloat, Reclaim, DecrFloat, DecrCommitted, RecordTeardown, SweepAgentWcspr,
        HaltRequest, TypeOK
  <2>3. \A q \in Teardowns : at[q] = "ended" => at'[q] = "ended"
    BY <1>1, <2>2 DEF Requests
  <2>4. CASE UNCHANGED coins
    BY <2>1, <2>3, <2>4 DEF CoinsSuffice
  <2>5. CASE SweepAgentWcspr(p)
    <3>1. p \in Teardowns /\ at'[p] = "ended"
      BY <1>0, <2>5 DEF SweepAgentWcspr, Placed, Retiring, TypeOK
    <3>2. CASE g = TornDown[p]
      BY <3>1, <3>2 DEF CoinsSuffice
    <3>3. CASE g # TornDown[p]
      <4>1. coins'[g] = coins[g]
        BY <1>0, <2>5, <3>3 DEF SweepAgentWcspr, TypeOK
      <4> QED
        BY <2>1, <2>3, <4>1 DEF CoinsSuffice
    <3> QED
      BY <3>2, <3>3
  <2> QED
    BY <2>4, <2>5
    DEF ConfirmStep, SweepStep, TeardownStep, ReadFinality, Promote, Deindex,
        WriteLedger, DeleteRecord, StartTick, SweepNext, StartTeardown, TeardownNext, Cancel,
        ReadFloat, Reclaim, DecrFloat, DecrCommitted, RecordTeardown, HaltRequest
<1>3. ASSUME Promoted' = Promoted, UNCHANGED floatConfirmed
      PROVE  \A g \in Agents : floatConfirmed'[g] <= Total[Promoted' \cap Of(g)]
  BY <1>3 DEF FloatInv
<1>4. ASSUME UNCHANGED <<record, target>>,
             at'[p] = "promote" => AssumesFinality \/ target[p] \in final
      PROVE  PromotesFinal' /\ Promoted' = Promoted
  BY <1>0, <1>1, <1>4 DEF PromotesFinal, Promoted
<1>5. ASSUME UNCHANGED record, \A q \in Requests \ {p} : target'[q] = target[q],
             at'[p] # "promote"
      PROVE  PromotesFinal' /\ Promoted' = Promoted
  BY <1>0, <1>1, <1>5 DEF PromotesFinal, Promoted
<1>6. CASE ReadFinality(p)
  <2>1. at'[p] = "promote" => AssumesFinality \/ target[p] \in final
    BY <1>0, <1>6 DEF ReadFinality, SeesFinal, TypeOK
  <2> QED
    BY <1>2, <1>3, <1>4, <1>6, <2>1 DEF ReadFinality
<1>7. CASE Deindex(p) \/ WriteLedger(p) \/ ReadFloat(p) \/ Reclaim(p) \/ DecrCommitted(p)
           \/ RecordTeardown(p) \/ SweepAgentWcspr(p)
  <2>1. /\ at'[p] # "promote" /\ UNCHANGED <<record, target, floatConfirmed>>
    BY <1>0, <1>7 DEF Deindex, WriteLedger, ReadFloat, Reclaim, DecrCommitted,
                      RecordTeardown, SweepAgentWcspr, TypeOK
  <2> QED
    BY <1>2, <1>3, <1>4, <2>1
<1>8. CASE SweepStep(p) \/ StartTeardown(p) \/ TeardownNext(p) \/ HaltRequest(p)
  <2>1. /\ at'[p] # "promote" /\ UNCHANGED <<record, floatConfirmed>>
        /\ \A q \in Requests \ {p} : target'[q] = target[q]
    BY <1>0, <1>8 DEF SweepStep, StartTick, SweepNext, StartTeardown, TeardownNext,
                      HaltRequest, TypeOK
  <2> QED
    BY <1>2, <1>3, <1>5, <2>1
<1>9. CASE DecrFloat(p)
  <2>1. /\ at'[p] # "promote" /\ UNCHANGED <<record, target>> /\ took[p] > 0
        /\ floatConfirmed' = [floatConfirmed EXCEPT ![TornDown[p]] = @ - took[p]]
    BY <1>0, <1>9 DEF DecrFloat, RequestMatches, TypeOK
  <2>2. PromotesFinal' /\ Promoted' = Promoted
    BY <1>4, <2>1
  <2>3. ASSUME NEW g \in Agents PROVE floatConfirmed'[g] <= Total[Promoted' \cap Of(g)]
    <3>1. floatConfirmed'[g] <= floatConfirmed[g] /\ floatConfirmed[g] \in Int
          /\ floatConfirmed'[g] \in Int
      BY <1>0, <2>1 DEF TypeOK
    <3>2. PICK S \in SUBSET Allocations : S = Promoted \cap Of(g)
      BY DEF Of
    <3>3. floatConfirmed[g] <= Total[S] /\ Total[S] \in Int
      BY <3>2 DEF FloatInv
    <3>4. floatConfirmed'[g] <= Total[S]
      BY <3>1, <3>3
    <3> QED
      BY <2>2, <3>2, <3>4
  <2> QED
    BY <1>2, <2>2, <2>3
<1>10. CASE (Promote(p) \/ Cancel(p)) /\ record[target[p]] # "PENDING"
  <2>1. at'[p] # "promote" /\ UNCHANGED <<record, target, floatConfirmed>>
    BY <1>0, <1>10 DEF Promote, Cancel, TypeOK
  <2> QED
    BY <1>2, <1>3, <1>4, <2>1
<1>11. CASE (Cancel(p) /\ record[target[p]] = "PENDING") \/ DeleteRecord(p)
  <2>1. /\ target[p] \in Allocations /\ UNCHANGED <<target, floatConfirmed>>
        /\ at'[p] # "promote"
        /\ \/ record[target[p]] = "PENDING"
              /\ record' = [record EXCEPT ![target[p]] = "cancelled"]
           \/ record[target[p]] = "CONFIRMED"
              /\ record' = [record EXCEPT ![target[p]] = "deleted"]
    BY <1>0, <1>11 DEF Cancel, DeleteRecord, RequestMatches, Placed, Confirming, Finishing,
                       TypeOK
  <2>2. Promoted' = Promoted
    BY <1>0, <2>1 DEF Promoted, TypeOK
  <2>3. PromotesFinal'
    BY <1>0, <1>1, <2>1, <2>2 DEF PromotesFinal
  <2> QED
    BY <1>2, <1>3, <2>1, <2>2, <2>3
<1>12. CASE Promote(p) /\ record[target[p]] = "PENDING"
  <2>0. PICK a \in Allocations : a = target[p]
    BY <1>0, <1>12 DEF Promote, Placed, Confirming
  <2>1. /\ record[a] = "PENDING" /\ record' = [record EXCEPT ![a] = "CONFIRMED"]
        /\ floatConfirmed' = [floatConfirmed EXCEPT ![AgentOf[a]] = @ + Amount[a]]
        /\ UNCHANGED target /\ at[p] = "promote" /\ at'[p] # "promote"
    BY <1>0, <1>12, <2>0 DEF Promote, TypeOK
  <2>2. Promoted' = Promoted \cup {a} /\ a \notin Promoted
    BY <1>0, <2>1 DEF Promoted, TypeOK
  <2>3. PromotesFinal'
    BY <1>0, <1>1, <2>0, <2>1, <2>2 DEF PromotesFinal
  <2>4. ASSUME NEW g \in Agents PROVE floatConfirmed'[g] <= Total[Promoted' \cap Of(g)]
    <3>0. PICK S \in SUBSET Allocations : S = Promoted \cap Of(g)
      BY DEF Of
    <3>1. floatConfirmed[g] <= Total[S] /\ floatConfirmed[g] \in Int /\ Total[S] \in Int
      BY <1>0, <3>0 DEF FloatInv, TypeOK
    <3>2. CASE g = AgentOf[a]
      <4>1. Promoted' \cap Of(g) = S \cup {a} /\ a \notin S
        BY <2>2, <3>0, <3>2 DEF Of
      <4>2. Total[S \cup {a}] = Total[S] + Amount[a]
        BY <4>1, TotalAdd
      <4>3. floatConfirmed'[g] = floatConfirmed[g] + Amount[a] /\ Amount[a] \in Int
        BY <1>0, <2>1, <3>2 DEF TypeOK
      <4> QED
        BY <3>1, <4>1, <4>2, <4>3
    <3>3. CASE g # AgentOf[a]
      <4>1. Promoted' \cap Of(g) = S /\ floatConfirmed'[g] = floatConfirmed[g]
        BY <1>0, <2>1, <2>2, <3>0, <3>3 DEF Of, TypeOK
      <4> QED
        BY <3>1, <4>1
    <3> QED
      BY <3>2, <3>3
  <2> QED
    BY <1>2, <2>3, <2>4
<1> QED
  BY <1>6, <1>7, <1>8, <1>9, <1>10, <1>11, <1>12 DEF ConfirmStep, TeardownStep

\* Every step preserves the coverage.
LEMMA FloatStep == FloatInv /\ [Next]_vars => FloatInv'
<1> SUFFICES ASSUME FloatInv, [Next]_vars PROVE FloatInv'
  OBVIOUS
<1>1. IInv' /\ TypeOK'
  BY IInvStep DEF FloatInv, IInv, WithinCeilings, CountersMatchAllocations
<1>2. ASSUME NEW a \in Allocations,
             ReadFunded(a) \/ DepositStep(a) \/ Finalize(a) \/ HaltDeposit(a)
      PROVE  FloatInv'
  BY <1>1, <1>2, DepositCovers DEF FloatInv, Of
<1>3. ASSUME NEW p \in Requests,
             ConfirmStep(p) \/ SweepStep(p) \/ StartTeardown(p) \/ TeardownStep(p)
                \/ HaltRequest(p)
      PROVE  FloatInv'
  BY <1>1, <1>3, RequestCovers DEF FloatInv, Of
<1>4. CASE UNCHANGED vars \/ \E n \in 1 .. MaxFunded : CreditTreasury(n)
  BY <1>1, <1>4 DEF FloatInv, PromotesFinal, Promoted, CoinsSuffice, Sent, Of, CreditTreasury,
                    vars, counters, chain, depositVars, requestVars
<1> QED
  BY <1>2, <1>3, <1>4 DEF Next

\* Whatever is refused, lost or stopped, and however many teardowns an agent gets, float is
\* covered by coins of the agent until they are swept, and a promotion by a final transfer.
THEOREM FloatHasCover == Spec => []FloatIsCovered
<1>1. Init => FloatInv
  <2> SUFFICES ASSUME Init PROVE FloatInv
    OBVIOUS
  <2>1. Promoted = {} /\ \A g \in Agents : Sent(g) = {}
    BY DEF Init, Promoted, Sent, Of
  <2> QED
    BY <2>1, InitIInv, AllocationAssumption DEF Init, FloatInv, PromotesFinal, CoinsSuffice, Of
<1> QED
  BY <1>1, FloatStep, FloatInvCovers, PTL DEF Spec

-----------------------------------------------------------------------------
(* What teardowns take back *)

\* The hypothesis: an agent is torn down by one request.  The code does not refuse a second
\* one, and one that overlaps the first reclaims what the first has read as well.
OneTeardown == \A p, q \in Teardowns : TornDown[p] = TornDown[q] => p = q

Reclaimed == {"decrFloat", "decrCommitted", "recordTeardown", "sweep", "ended"}

\* Before its reclaim a teardown has taken nothing, and what it is about to take was
\* confirmed when it read.
ReclaimMatches(p) ==
    /\ at[p] = "reclaim" => took[p] <= Total[Promoted \cap Of(TornDown[p])]
    /\ at[p] \notin Reclaimed => reclaimed[TornDown[p]] = 0

ReclaimInv ==
    /\ FloatInv
    /\ \A p \in Teardowns : ReclaimMatches(p)
    /\ \A g \in Agents : ReclaimWasConfirmed(g)

\* A promotion is not taken back.
LEMMA PromotedGrows == IInv /\ TypeOK' /\ [Next]_vars => Promoted \subseteq Promoted'
<1> SUFFICES ASSUME IInv, TypeOK', [Next]_vars PROVE Promoted \subseteq Promoted'
  OBVIOUS
<1> USE AllocationAssumption
<1>0. TypeOK
  BY DEF IInv, WithinCeilings, CountersMatchAllocations
<1>1. ASSUME NEW a \in Allocations,
             ReadFunded(a) \/ DepositStep(a) \/ Finalize(a) \/ HaltDeposit(a)
      PROVE  Promoted \subseteq Promoted'
  <2>1. \/ record' = record
        \/ deposit[a] = "store" /\ record' = [record EXCEPT ![a] = "PENDING"]
    BY <1>1 DEF ReadFunded, DepositStep, Gate, Submit, FundOnChain, UndoReserve, IncrPending,
                StoreRecord, AddToIndex, Finalize, HaltDeposit, Running
  <2>2. RecordMatches(a)
    BY DEF IInv
  <2> QED
    BY <1>0, <2>1, <2>2 DEF Promoted, RecordMatches, TypeOK
<1>2. ASSUME NEW p \in Requests,
             ConfirmStep(p) \/ SweepStep(p) \/ StartTeardown(p) \/ TeardownStep(p)
                \/ HaltRequest(p)
      PROVE  Promoted \subseteq Promoted'
  <2>1. \/ record' = record
        \/ \E a \in Allocations : record[a] = "PENDING"
              /\ \E st \in {"CONFIRMED", "cancelled"} : record' = [record EXCEPT ![a] = st]
        \/ \E a \in Allocations : record' = [record EXCEPT ![a] = "deleted"]
    <3>1. RequestMatches(p) /\ Placed(p)
      BY DEF IInv, RequestMatches
    <3>2. CASE Promote(p) \/ Cancel(p) \/ DeleteRecord(p)
      <4>1. target[p] \in Allocations
        BY <3>1, <3>2 DEF Promote, Cancel, DeleteRecord, Placed, Confirming
      <4> QED
        BY <3>2, <4>1 DEF Promote, Cancel, DeleteRecord
    <3> QED
      BY <1>2, <3>2
      DEF ConfirmStep, SweepStep, TeardownStep, ReadFinality, Deindex,
          WriteLedger, StartTick, SweepNext, StartTeardown, TeardownNext,
          ReadFloat, Reclaim, DecrFloat, DecrCommitted, RecordTeardown, SweepAgentWcspr,
          HaltRequest
  <2>2. ASSUME NEW b \in Promoted PROVE b \in Promoted'
    BY <1>0, <2>1, <2>2 DEF Promoted, TypeOK
  <2> QED
    BY <2>2
<1>3. CASE UNCHANGED vars \/ \E n \in 1 .. MaxFunded : CreditTreasury(n)
  BY <1>3 DEF Promoted, CreditTreasury, vars
<1> QED
  BY <1>1, <1>2, <1>3 DEF Next

\* A reclaim is the only step that takes back.
LEMMA ReclaimStep == OneTeardown /\ ReclaimInv /\ [Next]_vars => ReclaimInv'
<1> SUFFICES ASSUME OneTeardown, ReclaimInv, [Next]_vars PROVE ReclaimInv'
  OBVIOUS
<1> USE AllocationAssumption
<1>0. TypeOK /\ TypeOK' /\ IInv /\ FloatInv /\ FloatInv'
      /\ \A p \in Requests : RequestMatches(p) /\ Placed(p)
  BY FloatStep
     DEF ReclaimInv, FloatInv, IInv, WithinCeilings, CountersMatchAllocations, RequestMatches
<1>1. \A g \in Agents : Total[Promoted \cap Of(g)] <= Total[Promoted' \cap Of(g)]
  <2> SUFFICES ASSUME NEW g \in Agents
               PROVE  Total[Promoted \cap Of(g)] <= Total[Promoted' \cap Of(g)]
    OBVIOUS
  <2>1. /\ Promoted' \cap Of(g) \in SUBSET Allocations
        /\ Promoted \cap Of(g) \in SUBSET (Promoted' \cap Of(g))
    BY <1>0, PromotedGrows DEF Of
  <2> QED
    BY <2>1, TotalMonotone
<1>2. \A g \in Agents : /\ Total[Promoted \cap Of(g)] \in Nat
                        /\ Total[Promoted' \cap Of(g)] \in Nat
  BY DEF Of
<1>3. ASSUME UNCHANGED reclaimed,
             \A p \in Teardowns :
                /\ at[p] \in Reclaimed => at'[p] \in Reclaimed
                /\ at'[p] = "reclaim" => \/ at[p] = "reclaim" /\ took'[p] = took[p]
                                         \/ took'[p] <= floatConfirmed[TornDown[p]]
      PROVE  ReclaimInv'
  <2>1. ASSUME NEW g \in Agents PROVE ReclaimWasConfirmed(g)'
    <3>1. reclaimed[g] \in Int /\ reclaimed[g] <= Total[Promoted \cap Of(g)]
      BY <1>0 DEF ReclaimInv, ReclaimWasConfirmed, TypeOK
    <3>2. PICK m \in Nat, n \in Nat :
             m = Total[Promoted \cap Of(g)] /\ n = Total[Promoted' \cap Of(g)]
      BY <1>2
    <3>3. m <= n /\ reclaimed'[g] = reclaimed[g]
      BY <1>1, <1>3, <3>2
    <3>4. reclaimed'[g] <= n
      BY <3>1, <3>2, <3>3
    <3> QED
      BY <3>2, <3>4 DEF ReclaimWasConfirmed, Of
  <2>2. ASSUME NEW p \in Teardowns PROVE ReclaimMatches(p)'
    <3>0. PICK g \in Agents : g = TornDown[p]
      OBVIOUS
    <3>1. ReclaimMatches(p) /\ floatConfirmed[g] <= Total[Promoted \cap Of(g)]
      BY <1>0 DEF ReclaimInv, FloatInv
    <3>2. took'[p] \in Int /\ took[p] \in Int /\ floatConfirmed[g] \in Int
      BY <1>0 DEF TypeOK, Requests
    <3>3. PICK m \in Nat, n \in Nat :
             /\ m = Total[Promoted \cap Of(g)] /\ n = Total[Promoted' \cap Of(g)]
             /\ m <= n
      BY <1>1, <1>2
    <3>4. ASSUME at'[p] = "reclaim" PROVE took'[p] <= m
      <4>1. CASE at[p] = "reclaim" /\ took'[p] = took[p]
        BY <3>0, <3>1, <3>3, <4>1 DEF ReclaimMatches
      <4>2. CASE took'[p] <= floatConfirmed[TornDown[p]]
        <5>1. took'[p] <= floatConfirmed[g] /\ floatConfirmed[g] <= m
          BY <3>0, <3>1, <3>3, <4>2
        <5> QED
          BY <3>2, <5>1
      <4> QED
        BY <1>3, <3>4, <4>1, <4>2
    <3>5. at'[p] = "reclaim" => took'[p] <= n
      BY <3>2, <3>3, <3>4
    <3> QED
      BY <1>3, <3>0, <3>1, <3>3, <3>5 DEF ReclaimMatches, Of
  <2> QED
    BY <1>0, <2>1, <2>2 DEF ReclaimInv
<1>4. CASE UNCHANGED <<at, reclaimed, took>>
  BY <1>3, <1>4
<1>5. ASSUME NEW p \in Requests,
             ConfirmStep(p) \/ SweepStep(p) \/ StartTeardown(p) \/ TeardownStep(p)
                \/ HaltRequest(p)
      PROVE  ReclaimInv'
  <2>1. \A q \in Requests \ {p} : at'[q] = at[q] /\ took'[q] = took[q]
    BY <1>0, <1>5
    DEF ConfirmStep, SweepStep, TeardownStep, ReadFinality, Promote, Deindex,
        WriteLedger, DeleteRecord, StartTick, SweepNext, StartTeardown, TeardownNext, Cancel,
        ReadFloat, Reclaim, DecrFloat, DecrCommitted, RecordTeardown, SweepAgentWcspr,
        HaltRequest, Move, Resume, TypeOK
  <2>2. CASE Reclaim(p)
    <3>1. p \in Teardowns /\ at[p] = "reclaim" /\ at'[p] = "decrFloat"
      BY <1>0, <2>2 DEF Reclaim, Placed, Retiring, Move, TypeOK
    <3>2. PICK g \in Agents : g = TornDown[p]
      BY <3>1
    <3>3. /\ reclaimed' = [reclaimed EXCEPT ![g] = @ + took[p]]
          /\ UNCHANGED <<record, took>>
      BY <2>2, <3>2 DEF Reclaim
    <3>4. reclaimed[g] = 0 /\ took[p] <= Total[Promoted \cap Of(g)] /\ took[p] \in Int
      BY <1>0, <3>1, <3>2 DEF ReclaimInv, ReclaimMatches, Reclaimed, TypeOK
    <3>5. Promoted' = Promoted
      BY <3>3 DEF Promoted
    <3>6. ASSUME NEW h \in Agents PROVE ReclaimWasConfirmed(h)'
      <4>1. reclaimed'[h] = IF h = g THEN took[p] ELSE reclaimed[h]
        BY <1>0, <3>3, <3>4 DEF TypeOK
      <4>2. reclaimed[h] <= Total[Promoted \cap Of(h)]
        BY DEF ReclaimInv, ReclaimWasConfirmed
      <4>3. reclaimed'[h] <= Total[Promoted' \cap Of(h)]
        BY <3>4, <3>5, <4>1, <4>2
      <4> QED
        BY <4>3 DEF ReclaimWasConfirmed, Of
    <3>7. ASSUME NEW q \in Teardowns PROVE ReclaimMatches(q)'
      <4>1. CASE q = p
        BY <3>1, <4>1 DEF ReclaimMatches, Reclaimed
      <4>2. CASE q # p
        <5>1. TornDown[q] # g /\ TornDown[q] \in Agents
          BY <3>1, <3>2, <4>2 DEF OneTeardown
        <5>2. reclaimed'[TornDown[q]] = reclaimed[TornDown[q]]
          BY <1>0, <3>3, <5>1 DEF TypeOK
        <5> QED
          BY <2>1, <3>5, <4>2, <5>2 DEF ReclaimInv, ReclaimMatches, Of, Requests
      <4> QED
        BY <4>1, <4>2
    <3> QED
      BY <1>0, <3>6, <3>7 DEF ReclaimInv
  <2>3. CASE ReadFloat(p)
    <3>1. UNCHANGED reclaimed /\ p \in Teardowns /\ at[p] = "readFloat"
          /\ took'[p] = floatConfirmed[TornDown[p]] /\ floatConfirmed[TornDown[p]] \in Int
      BY <1>0, <2>3 DEF ReadFloat, Placed, Retiring, TypeOK, chain
    <3> QED
      BY <1>3, <2>1, <3>1 DEF Reclaimed, Requests
  <2>4. CASE ~Reclaim(p) /\ ~ReadFloat(p)
    <3>1. UNCHANGED <<reclaimed, took>> /\ (at'[p] # "reclaim" \/ p \notin Teardowns)
      BY <1>0, <1>5, <2>4
      DEF ConfirmStep, SweepStep, TeardownStep, ReadFinality, Promote, Deindex,
          WriteLedger, DeleteRecord, StartTick, SweepNext, StartTeardown, TeardownNext, Cancel,
          DecrFloat, DecrCommitted, RecordTeardown, SweepAgentWcspr,
          HaltRequest, Move, Resume, TypeOK, chain
    <3>2. p \in Teardowns /\ at[p] \in Reclaimed => at'[p] \in Reclaimed
      BY <1>0, <1>5, <2>4
      DEF ConfirmStep, SweepStep, TeardownStep, ReadFinality, Promote, Deindex,
          WriteLedger, DeleteRecord, StartTick, SweepNext, StartTeardown, TeardownNext, Cancel,
          DecrFloat, DecrCommitted, RecordTeardown, SweepAgentWcspr,
          HaltRequest, Move, Resume, TypeOK, Reclaimed
    <3>3. \A q \in Teardowns :
             /\ at[q] \in Reclaimed => at'[q] \in Reclaimed
             /\ at'[q] = "reclaim" => at[q] = "reclaim" /\ took'[q] = took[q]
      BY <2>1, <3>1, <3>2 DEF Requests
    <3> QED
      BY <1>3, <3>1, <3>3
  <2> QED
    BY <2>2, <2>3, <2>4
<1>6. ASSUME NEW a \in Allocations,
             ReadFunded(a) \/ DepositStep(a) \/ Finalize(a) \/ HaltDeposit(a)
      PROVE  ReclaimInv'
  BY <1>4, <1>6
  DEF ReadFunded, DepositStep, Gate, Submit, FundOnChain, UndoReserve, IncrPending,
      StoreRecord, AddToIndex, Finalize, HaltDeposit, chain, requestVars
<1>7. CASE UNCHANGED vars \/ \E n \in 1 .. MaxFunded : CreditTreasury(n)
  BY <1>4, <1>7 DEF CreditTreasury, vars, chain, requestVars
<1> QED
  BY <1>5, <1>6, <1>7 DEF Next

\* A teardown that is alone with its agent takes back no more than was confirmed, whatever is
\* promoted between its read and its reclaim.
THEOREM ReclaimIsBounded ==
    OneTeardown => (Spec => [](\A g \in Agents : ReclaimWasConfirmed(g)))
<1> SUFFICES ASSUME OneTeardown PROVE Spec => [](\A g \in Agents : ReclaimWasConfirmed(g))
  OBVIOUS
<1>1. Init => ReclaimInv
  <2> SUFFICES ASSUME Init PROVE ReclaimInv
    OBVIOUS
  <2>0. FloatInv
    <3>1. Promoted = {} /\ \A g \in Agents : Sent(g) = {}
      BY DEF Init, Promoted, Sent, Of
    <3> QED
      BY <3>1, InitIInv, AllocationAssumption
         DEF Init, FloatInv, PromotesFinal, CoinsSuffice, Of
  <2>1. \A g \in Agents : Promoted \cap Of(g) = {}
    BY DEF Init, Promoted, Of
  <2> QED
    BY <2>0, <2>1, AllocationAssumption
       DEF Init, ReclaimInv, ReclaimMatches, ReclaimWasConfirmed, Requests
<1>2. ReclaimInv => \A g \in Agents : ReclaimWasConfirmed(g)
  BY DEF ReclaimInv
<1> QED
  BY <1>1, <1>2, ReclaimStep, PTL DEF Spec

-----------------------------------------------------------------------------
(* Sums over finite sets: what FoldFunction(+, 0, f) is                    *)

Some(S) == CHOOSE x \in S : TRUE
Rest(S) == S \ {Some(S)}

\* h adds up f over the subsets of S, one element at a time.
AddsUp(h, f, S) ==
    h = [T \in SUBSET S |-> IF T = {} THEN 0 ELSE f[Some(T)] + h[Rest(T)]]

PartSums(f) == CHOOSE h : AddsUp(h, f, DOMAIN f)
Sum(f) == FoldFunction(+, 0, f)

\* The fold of the community modules adds up all of the function.
LEMMA SumIsPartSum ==
    ASSUME NEW f
    PROVE  Sum(f) = PartSums(f)[DOMAIN f]
  BY DEF Sum, FoldFunction, FoldFunctionOnSet, MapThenFoldSet, PartSums, AddsUp, Some, Rest

\* A set that is not empty has an element to take out, and is smaller without it.
LEMMA SomeIn ==
    ASSUME NEW S, S # {}
    PROVE  Some(S) \in S /\ Rest(S) \subseteq S /\ Rest(S) # S
  BY DEF Some, Rest

\* A property of some subset of a finite set is one of a smallest such subset.
LEMMA Smallest ==
    ASSUME NEW D, IsFiniteSet(D), NEW Bad \in SUBSET SUBSET D, Bad # {}
    PROVE  \E S \in Bad : \A T \in SUBSET S : T # S => T \notin Bad
<1>1. Bad \subseteq FiniteSubsetsOf(D)
  BY FS_FiniteSubsetsOfFinite
<1>2. IsWellFoundedOn(StrictSubsetOrdering(D), FiniteSubsetsOf(D))
  BY FS_StrictSubsetOrderingWellFounded
<1>3. PICK S \in Bad : \A T \in Bad : ~(<<T, S>> \in StrictSubsetOrdering(D))
  BY <1>1, <1>2, WFMin
<1>4. ASSUME NEW T \in SUBSET S, T # S, T \in Bad
      PROVE  FALSE
  <2>1. <<T, S>> \in StrictSubsetOrdering(D)
    BY <1>4 DEF StrictSubsetOrdering
  <2> QED
    BY <1>3, <1>4, <2>1
<1> QED
  BY <1>4

\* One step of adding up.
LEMMA AddsUpTo ==
    ASSUME NEW h, NEW f, NEW S, AddsUp(h, f, S), NEW T \in SUBSET S
    PROVE  h[T] = IF T = {} THEN 0 ELSE f[Some(T)] + h[Rest(T)]
  BY DEF AddsUp

\* Two ways of adding up agree where both do.
LEMMA OneSum ==
    ASSUME NEW f, NEW g, NEW h, NEW k, NEW S, NEW U, AddsUp(h, f, S), AddsUp(k, g, U),
           NEW V, IsFiniteSet(V), V \subseteq S, V \subseteq U, \A x \in V : f[x] = g[x]
    PROVE  h[V] = k[V]
<1> DEFINE Bad == {T \in SUBSET V : h[T] # k[T]}
<1>1. ASSUME Bad # {}
      PROVE  FALSE
  <2>0. Bad \in SUBSET SUBSET V
    OBVIOUS
  <2>1. PICK T \in Bad : \A R \in SUBSET T : R # T => R \notin Bad
    <3> HIDE DEF Bad
    <3> QED
      BY <1>1, <2>0, Smallest
  <2>2. T \subseteq V /\ T \subseteq S /\ T \subseteq U /\ h[T] # k[T]
    OBVIOUS
  <2>3. /\ h[T] = IF T = {} THEN 0 ELSE f[Some(T)] + h[Rest(T)]
        /\ k[T] = IF T = {} THEN 0 ELSE g[Some(T)] + k[Rest(T)]
    BY <2>2, AddsUpTo
  <2>4. T # {}
    BY <2>2, <2>3
  <2>5. Some(T) \in T /\ Rest(T) \subseteq T /\ Rest(T) # T
    BY <2>4, SomeIn
  <2>6. h[Rest(T)] = k[Rest(T)] /\ f[Some(T)] = g[Some(T)]
    BY <2>1, <2>2, <2>5
  <2> QED
    BY <2>2, <2>3, <2>4, <2>6
<1> QED
  BY <1>1

\* There is a way of adding up.
LEMMA SumExists ==
    ASSUME NEW D, IsFiniteSet(D), NEW f
    PROVE  \E h : AddsUp(h, f, D)
<1> DEFINE Bad == {S \in SUBSET D : ~ \E h : AddsUp(h, f, S)}
<1>1. ASSUME Bad # {}
      PROVE  FALSE
  <2>0. Bad \in SUBSET SUBSET D
    OBVIOUS
  <2>1. PICK S \in Bad : \A T \in SUBSET S : T # S => T \notin Bad
    <3> HIDE DEF Bad
    <3> QED
      BY <1>1, <2>0, Smallest
  <2> DEFINE H(T) == CHOOSE h : AddsUp(h, f, T)
  <2>2. \A T \in SUBSET S : T # S => AddsUp(H(T), f, T)
    <3>1. \A T \in SUBSET S : T # S => \E h : AddsUp(h, f, T)
      BY <2>1
    <3> QED
      BY <3>1
  <2> HIDE DEF H
  <2> DEFINE k == [T \in SUBSET S |-> IF T = {} THEN 0 ELSE f[Some(T)] + H(Rest(T))[Rest(T)]]
  <2>3. ASSUME NEW T \in SUBSET S, T # S
        PROVE  k[T] = H(T)[T]
    <3>1. k[T] = IF T = {} THEN 0 ELSE f[Some(T)] + H(Rest(T))[Rest(T)]
      OBVIOUS
    <3>2. H(T)[T] = IF T = {} THEN 0 ELSE f[Some(T)] + H(T)[Rest(T)]
      BY <2>2, <2>3, AddsUpTo
    <3>3. CASE T = {}
      BY <3>1, <3>2, <3>3
    <3>4. CASE T # {}
      <4>1. Rest(T) \subseteq T /\ Rest(T) # S /\ Rest(T) \subseteq S
        BY <2>3, <3>4, SomeIn
      <4>2. AddsUp(H(T), f, T) /\ AddsUp(H(Rest(T)), f, Rest(T))
        BY <2>2, <2>3, <4>1
      <4>3. H(T)[Rest(T)] = H(Rest(T))[Rest(T)]
        <5>1. Rest(T) \subseteq T /\ IsFiniteSet(Rest(T))
          <6>1. Rest(T) \subseteq D
            BY <4>1
          <6> QED
            BY <4>1, <6>1, FS_Subset
        <5>2. PICK a, b : a = H(T) /\ b = H(Rest(T)) /\ AddsUp(a, f, T) /\ AddsUp(b, f, Rest(T))
          BY <4>2
        <5>3. a[Rest(T)] = b[Rest(T)]
          <6>1. PICK V : V = Rest(T)
            OBVIOUS
          <6>2. /\ AddsUp(a, f, T) /\ AddsUp(b, f, V)
                /\ IsFiniteSet(V) /\ V \subseteq T /\ V \subseteq V
            BY <5>1, <5>2, <6>1
          <6>3. a[V] = b[V]
            BY <6>2, OneSum
          <6> QED
            BY <6>1, <6>3
        <5> QED
          BY <5>2, <5>3
      <4> QED
        BY <3>1, <3>2, <3>4, <4>3
    <3> QED
      BY <3>3, <3>4
  <2>4. AddsUp(k, f, S)
    <3>1. ASSUME NEW T \in SUBSET S, T # {}
          PROVE  k[Rest(T)] = H(Rest(T))[Rest(T)]
      <4>1. Rest(T) \subseteq S /\ Rest(T) # S
        BY <3>1, SomeIn
      <4> QED
        BY <2>3, <4>1
    <3>2. \A T \in SUBSET S : k[T] = IF T = {} THEN 0 ELSE f[Some(T)] + k[Rest(T)]
      BY <3>1
    <3> HIDE DEF k
    <3>3. k = [T \in SUBSET S |-> k[T]]
      BY DEF k
    <3> QED
      BY <3>2, <3>3 DEF AddsUp
  <2> QED
    BY <2>4
<1> QED
  BY <1>1

\* The partial sums of a function on a finite set are the ones the fold picks.
LEMMA PartSumsAddUp ==
    ASSUME NEW f, IsFiniteSet(DOMAIN f)
    PROVE  AddsUp(PartSums(f), f, DOMAIN f)
<1>1. \E h : AddsUp(h, f, DOMAIN f)
  BY SumExists
<1> QED
  BY <1>1 DEF PartSums

\* Partial sums of integers are integers.
LEMMA PartSumsType ==
    ASSUME NEW D, IsFiniteSet(D), NEW f \in [D -> Int]
    PROVE  \A S \in SUBSET D : PartSums(f)[S] \in Int
<1> DEFINE Bad == {S \in SUBSET D : PartSums(f)[S] \notin Int}
<1>1. ASSUME Bad # {}
      PROVE  FALSE
  <2>0. Bad \in SUBSET SUBSET D
    OBVIOUS
  <2>1. PICK S \in Bad : \A T \in SUBSET S : T # S => T \notin Bad
    <3> HIDE DEF Bad
    <3> QED
      BY <1>1, <2>0, Smallest
  <2>2. PartSums(f)[S] = IF S = {} THEN 0 ELSE f[Some(S)] + PartSums(f)[Rest(S)]
    BY PartSumsAddUp, AddsUpTo
  <2>3. CASE S # {}
    <3>1. Some(S) \in D /\ Rest(S) \subseteq S /\ Rest(S) # S /\ Rest(S) \in SUBSET D
      BY <2>3, SomeIn
    <3>2. PartSums(f)[Rest(S)] \in Int /\ f[Some(S)] \in Int
      BY <2>1, <3>1
    <3>3. PartSums(f)[S] \in Int
      BY <2>2, <2>3, <3>2
    <3> QED
      BY <3>3
  <2> QED
    BY <2>2, <2>3
<1> QED
  BY <1>1

\* The order of adding does not matter.
LEMMA TakeOut ==
    ASSUME NEW D, IsFiniteSet(D), NEW f \in [D -> Int], NEW V \in SUBSET D, NEW z \in V
    PROVE  PartSums(f)[V] = f[z] + PartSums(f)[V \ {z}]
<1> DEFINE P == PartSums(f)
           Bad == {S \in SUBSET D : \E y \in S : P[S] # f[y] + P[S \ {y}]}
<1>1. ASSUME Bad # {}
      PROVE  FALSE
  <2>0. Bad \in SUBSET SUBSET D
    OBVIOUS
  <2>1. PICK S \in Bad : \A T \in SUBSET S : T # S => T \notin Bad
    <3> HIDE DEF Bad
    <3> QED
      BY <1>1, <2>0, Smallest
  <2>2. PICK y \in S : P[S] # f[y] + P[S \ {y}]
    OBVIOUS
  <2>3. PICK x \in S : x = Some(S)
    BY SomeIn
  <2>4. P[S] = f[x] + P[S \ {x}]
    BY <2>3, PartSumsAddUp, AddsUpTo DEF Rest
  <2>5. x # y
    BY <2>2, <2>4
  <2> DEFINE A == S \ {x}  B == S \ {y}  C == S \ {x, y}
  <2>6. /\ A \in SUBSET S /\ B \in SUBSET S /\ C \in SUBSET S /\ S \in SUBSET D
        /\ C = A \ {y} /\ C = B \ {x} /\ y \in A /\ x \in B /\ A # S /\ B # S
    BY <2>5
  <2>7. A \notin Bad /\ B \notin Bad /\ A \in SUBSET D /\ B \in SUBSET D /\ C \in SUBSET D
    BY <2>1, <2>6
  <2>8. P[A] = f[y] + P[C] /\ P[B] = f[x] + P[C]
    BY <2>6, <2>7
  <2>9. P[A] \in Int /\ P[B] \in Int /\ P[C] \in Int /\ f[x] \in Int /\ f[y] \in Int
    BY <2>6, <2>7, PartSumsType
  <2>10. P[S] = f[x] + P[A] /\ P[S] # f[y] + P[B]
    BY <2>2, <2>4
  <2> HIDE DEF A, B, C, P, Bad
  <2> QED
    BY <2>8, <2>9, <2>10
<1>2. V \notin Bad
  BY <1>1
<1> QED
  BY <1>2

\* A sum is a number, and it follows a change of one of its terms.
LEMMA SumExcept ==
    ASSUME NEW D, IsFiniteSet(D), NEW f \in [D -> Int], NEW y \in D, NEW v \in Int
    PROVE  Sum(f) \in Int /\ Sum([f EXCEPT ![y] = v]) = Sum(f) - f[y] + v
<1> DEFINE g0 == [f EXCEPT ![y] = v]
<1>1. PICK g \in [D -> Int] : g = g0 /\ g[y] = v /\ \A x \in D \ {y} : f[x] = g[x]
  <2>1. g0 \in [D -> Int] /\ g0[y] = v /\ \A x \in D \ {y} : f[x] = g0[x]
    OBVIOUS
  <2> HIDE DEF g0
  <2> QED
    BY <2>1
<1>2. DOMAIN f = D /\ DOMAIN g = D /\ D \in SUBSET D /\ D \ {y} \in SUBSET D
  OBVIOUS
<1>3. /\ PartSums(f)[D] = f[y] + PartSums(f)[D \ {y}]
      /\ PartSums(g)[D] = g[y] + PartSums(g)[D \ {y}]
  BY <1>2, TakeOut
<1>4. PartSums(f)[D \ {y}] = PartSums(g)[D \ {y}]
  <2>1. AddsUp(PartSums(f), f, D) /\ AddsUp(PartSums(g), g, D)
    BY <1>2, PartSumsAddUp
  <2>2. PICK h, k : h = PartSums(f) /\ k = PartSums(g)
    OBVIOUS
  <2>3. PICK V : V = D \ {y}
    OBVIOUS
  <2>4. /\ AddsUp(h, f, D) /\ AddsUp(k, g, D) /\ IsFiniteSet(V) /\ V \subseteq D
        /\ \A x \in V : f[x] = g[x]
    BY <1>1, <2>1, <2>2, <2>3, FS_Subset
  <2>5. h[V] = k[V]
    BY <2>4, OneSum
  <2> QED
    BY <2>2, <2>3, <2>5
<1>5. PartSums(f)[D \ {y}] \in Int /\ f[y] \in Int /\ g[y] \in Int
  BY <1>2, PartSumsType
<1>6. Sum(f) = PartSums(f)[D] /\ Sum(g) = PartSums(g)[D]
  BY <1>2, SumIsPartSum
<1>7. Sum(f) \in Int /\ Sum(g) = Sum(f) - f[y] + v
  BY <1>1, <1>3, <1>4, <1>5, <1>6
<1> QED
  BY <1>1, <1>7

\* The same, for two functions of which one differs in a place.
LEMMA SumUpdate ==
    ASSUME NEW D, IsFiniteSet(D), NEW f \in [D -> Int], NEW y \in D, NEW g \in [D -> Int],
           \A x \in D \ {y} : g[x] = f[x]
    PROVE  Sum(g) = Sum(f) - f[y] + g[y]
<1>1. g = [f EXCEPT ![y] = g[y]] /\ g[y] \in Int
  OBVIOUS
<1> QED
  BY <1>1, SumExcept

\* Sums of integers are integers.
LEMMA SumType ==
    ASSUME NEW D, IsFiniteSet(D), NEW f \in [D -> Int]
    PROVE  Sum(f) \in Int
<1>1. DOMAIN f = D /\ D \in SUBSET D
  OBVIOUS
<1> QED
  BY <1>1, SumIsPartSum, PartSumsType

\* Zeros add up to zero.
LEMMA SumZero ==
    ASSUME NEW D, IsFiniteSet(D), NEW f \in [D -> Int], \A x \in D : f[x] = 0
    PROVE  Sum(f) = 0
<1> DEFINE Bad == {S \in SUBSET D : PartSums(f)[S] # 0}
<1>1. ASSUME Bad # {}
      PROVE  FALSE
  <2>0. Bad \in SUBSET SUBSET D
    OBVIOUS
  <2>1. PICK S \in Bad : \A T \in SUBSET S : T # S => T \notin Bad
    <3> HIDE DEF Bad
    <3> QED
      BY <1>1, <2>0, Smallest
  <2>2. PartSums(f)[S] = IF S = {} THEN 0 ELSE f[Some(S)] + PartSums(f)[Rest(S)]
    BY PartSumsAddUp, AddsUpTo
  <2>3. CASE S # {}
    <3>1. Some(S) \in D /\ Rest(S) \subseteq S /\ Rest(S) # S
      BY <2>3, SomeIn
    <3>2. PartSums(f)[Rest(S)] = 0 /\ f[Some(S)] = 0
      BY <2>1, <3>1
    <3> QED
      BY <2>2, <2>3, <3>2
  <2> QED
    BY <2>2, <2>3
<1>2. DOMAIN f = D /\ PartSums(f)[D] = 0
  BY <1>1
<1> QED
  BY <1>2, SumIsPartSum

\* Adding up what is not negative.
LEMMA SumNat ==
    ASSUME NEW D, IsFiniteSet(D), NEW f \in [D -> Nat]
    PROVE  Sum(f) \in Nat
<1>0. f \in [D -> Int] /\ DOMAIN f = D
  OBVIOUS
<1> DEFINE Bad == {S \in SUBSET D : PartSums(f)[S] \notin Nat}
<1>1. ASSUME Bad # {}
      PROVE  FALSE
  <2>0. Bad \in SUBSET SUBSET D
    OBVIOUS
  <2>1. PICK S \in Bad : \A T \in SUBSET S : T # S => T \notin Bad
    <3> HIDE DEF Bad
    <3> QED
      BY <1>1, <2>0, Smallest
  <2>2. PartSums(f)[S] = IF S = {} THEN 0 ELSE f[Some(S)] + PartSums(f)[Rest(S)]
    BY <1>0, PartSumsAddUp, AddsUpTo
  <2>3. CASE S # {}
    <3>1. Some(S) \in D /\ Rest(S) \subseteq S /\ Rest(S) # S /\ Rest(S) \in SUBSET D
      BY <2>3, SomeIn
    <3>2. PartSums(f)[Rest(S)] \in Nat /\ f[Some(S)] \in Nat
      BY <2>1, <3>1
    <3>3. PartSums(f)[S] \in Nat
      BY <2>2, <2>3, <3>2
    <3> QED
      BY <3>3
  <2> QED
    BY <2>2, <2>3
<1> QED
  BY <1>0, <1>1, SumIsPartSum

-----------------------------------------------------------------------------
(* What the committed budget covers *)

\* Between its two counters a teardown owes the committed budget what it took.
Owed == [p \in Teardowns |-> IF at[p] = "decrCommitted" THEN took[p] ELSE 0]

BackedInv ==
    /\ IInv
    /\ Sum(floatConfirmed) + Sum(Owed) <= allocCommitted

\* The terms of the sums.
LEMMA BackedTypes ==
    ASSUME BackedInv
    PROVE  /\ TypeOK /\ \A p \in Requests : RequestMatches(p) /\ Placed(p)
           /\ floatConfirmed \in [Agents -> Int] /\ Owed \in [Teardowns -> Nat]
           /\ Sum(floatConfirmed) \in Int /\ Sum(Owed) \in Nat /\ allocCommitted \in Int
<1>1. TypeOK /\ \A p \in Requests : RequestMatches(p) /\ Placed(p)
  BY DEF BackedInv, IInv, WithinCeilings, CountersMatchAllocations, RequestMatches
<1>2. floatConfirmed \in [Agents -> Int] /\ allocCommitted \in Int
  BY <1>1 DEF TypeOK
<1>3. ASSUME NEW p \in Teardowns PROVE (IF at[p] = "decrCommitted" THEN took[p] ELSE 0) \in Nat
  BY <1>1 DEF RequestMatches, TypeOK, Requests
<1>4. Owed \in [Teardowns -> Nat]
  BY <1>3 DEF Owed
<1> QED
  BY <1>1, <1>2, <1>4, SumType, SumNat, RowsAssumption

\* A step of a sweep or a teardown keeps confirmed float covered.
LEMMA RequestBacked ==
    ASSUME BackedInv, IInv', TypeOK', NEW p \in Requests,
           ConfirmStep(p) \/ SweepStep(p) \/ StartTeardown(p) \/ TeardownStep(p)
              \/ HaltRequest(p)
    PROVE  BackedInv'
<1> USE AllocationAssumption
<1>0. /\ TypeOK /\ RequestMatches(p) /\ Placed(p)
      /\ floatConfirmed \in [Agents -> Int] /\ Owed \in [Teardowns -> Nat]
      /\ Owed \in [Teardowns -> Int]
      /\ Sum(floatConfirmed) \in Int /\ Sum(Owed) \in Nat /\ allocCommitted \in Int
      /\ Sum(floatConfirmed) + Sum(Owed) <= allocCommitted
  BY BackedTypes DEF BackedInv
<1>1. \A q \in Requests \ {p} : at'[q] = at[q] /\ took'[q] = took[q]
  BY <1>0
  DEF ConfirmStep, SweepStep, TeardownStep, ReadFinality, Promote, Deindex,
      WriteLedger, DeleteRecord, StartTick, SweepNext, StartTeardown, TeardownNext, Cancel,
      ReadFloat, Reclaim, DecrFloat, DecrCommitted, RecordTeardown, SweepAgentWcspr,
      HaltRequest, Move, Resume, TypeOK
<1>2. ASSUME p \in Teardowns, NEW v \in Int,
             v = IF at'[p] = "decrCommitted" THEN took'[p] ELSE 0
      PROVE  Sum(Owed') = Sum(Owed) - Owed[p] + v
  <2>1. Owed' = [q \in Teardowns |-> IF at'[q] = "decrCommitted" THEN took'[q] ELSE 0]
    BY DEF Owed
  <2>2. \A q \in Teardowns : Owed'[q] = IF q = p THEN v ELSE Owed[q]
    BY <1>1, <1>2, <2>1 DEF Owed, Requests
  <2>3. \A q \in Teardowns : Owed[q] \in Int
    BY <1>0
  <2>4. Owed' \in [Teardowns -> Int]
    BY <1>2, <2>1, <2>2, <2>3
  <2>5. PICK F \in [Teardowns -> Int] : F = Owed
    BY <1>0
  <2>6. PICK G \in [Teardowns -> Int] : G = Owed'
    BY <2>4
  <2>7. /\ IsFiniteSet(Teardowns) /\ G[p] = v
        /\ \A q \in Teardowns \ {p} : G[q] = F[q]
    BY <1>2, <2>2, <2>5, <2>6, RowsAssumption
  <2>8. Sum(G) = Sum(F) - F[p] + G[p]
    BY <1>2, <2>7, SumUpdate
  <2> QED
    BY <2>5, <2>6, <2>7, <2>8
<1>3. ASSUME at[p] # "decrCommitted", at'[p] # "decrCommitted"
      PROVE  Owed' = Owed
  BY <1>1, <1>3 DEF Owed, Requests
<1>4. ASSUME NEW g \in Agents, NEW k \in Int,
              floatConfirmed' = [floatConfirmed EXCEPT ![g] = k]
       PROVE  Sum(floatConfirmed') = Sum(floatConfirmed) - floatConfirmed[g] + k
  <2>1. PICK F \in [Agents -> Int] : F = floatConfirmed
    BY <1>0
  <2>2. PICK G : G = floatConfirmed'
    OBVIOUS
  <2>3. /\ IsFiniteSet(Agents) /\ G \in [Agents -> Int] /\ G[g] = k
        /\ \A x \in Agents \ {g} : G[x] = F[x]
    BY <1>4, <2>1, <2>2, RowsAssumption
  <2>4. Sum(G) = Sum(F) - F[g] + k
    BY <2>3, SumUpdate
  <2> QED
    BY <2>1, <2>2, <2>4
<1>5. CASE Promote(p) /\ record[target[p]] = "PENDING"
  <2>1. PICK g \in Agents, n \in Int : g = AgentOf[target[p]] /\ n = Amount[target[p]]
    BY <1>0, <1>5 DEF Promote, Placed, Confirming
  <2>2. /\ floatConfirmed' = [floatConfirmed EXCEPT ![g] = floatConfirmed[g] + n]
        /\ allocCommitted' = allocCommitted + n
    BY <1>5, <2>1 DEF Promote
  <2>3. Owed' = Owed
    BY <1>0, <1>3, <1>5 DEF Promote, Move, TypeOK
  <2>4. floatConfirmed[g] \in Int /\ floatConfirmed[g] + n \in Int
    BY <1>0
  <2>5. Sum(floatConfirmed') = Sum(floatConfirmed) - floatConfirmed[g] + (floatConfirmed[g] + n)
    BY <1>4, <2>2, <2>4
  <2>6. PICK s \in Int, o \in Int : s = Sum(floatConfirmed) /\ o = Sum(Owed)
    BY <1>0
  <2>7. Sum(floatConfirmed') + Sum(Owed') <= allocCommitted'
    BY <1>0, <2>2, <2>3, <2>4, <2>5, <2>6
  <2> QED
    BY <2>7 DEF BackedInv
<1>6. CASE DecrFloat(p)
  <2>1. p \in Teardowns /\ at[p] = "decrFloat" /\ at'[p] = "decrCommitted"
    BY <1>0, <1>6 DEF DecrFloat, Placed, Retiring, Move, TypeOK
  <2>2. PICK g \in Agents, n \in Int : g = TornDown[p] /\ n = took[p]
    BY <1>0, <2>1 DEF TypeOK, Requests
  <2>3. /\ floatConfirmed' = [floatConfirmed EXCEPT ![g] = floatConfirmed[g] - n]
        /\ allocCommitted' = allocCommitted /\ took' = took
    BY <1>6, <2>2 DEF DecrFloat
  <2>4. Sum(Owed') = Sum(Owed) - Owed[p] + n /\ Owed[p] = 0
    BY <1>2, <2>1, <2>2, <2>3 DEF Owed
  <2>5. floatConfirmed[g] \in Int /\ floatConfirmed[g] - n \in Int
    BY <1>0
  <2>6. Sum(floatConfirmed') = Sum(floatConfirmed) - floatConfirmed[g] + (floatConfirmed[g] - n)
    BY <1>4, <2>3, <2>5
  <2>8. PICK s \in Int, o \in Int : s = Sum(floatConfirmed) /\ o = Sum(Owed)
    BY <1>0
  <2>9. Sum(floatConfirmed') + Sum(Owed') <= allocCommitted'
    BY <1>0, <2>3, <2>4, <2>5, <2>6, <2>8
  <2> QED
    BY <2>9 DEF BackedInv
<1>7. CASE DecrCommitted(p) \/ (HaltRequest(p) /\ at[p] = "decrCommitted")
  <2>1. p \in Teardowns /\ at[p] = "decrCommitted" /\ at'[p] # "decrCommitted"
    BY <1>0, <1>7 DEF DecrCommitted, HaltRequest, Placed, Retiring, Move, TypeOK
  <2>2. PICK n \in Int : n = took[p] /\ n > 0
    BY <1>0, <2>1 DEF RequestMatches, TypeOK
  <2>3. /\ floatConfirmed' = floatConfirmed
        /\ allocCommitted' = allocCommitted - n \/ allocCommitted' = allocCommitted
    BY <1>7, <2>2 DEF DecrCommitted, HaltRequest, counters
  <2>4. Sum(Owed') = Sum(Owed) - Owed[p] + 0 /\ Owed[p] = n
    BY <1>2, <2>1, <2>2 DEF Owed
  <2>6. PICK s \in Int, o \in Int : s = Sum(floatConfirmed) /\ o = Sum(Owed)
    BY <1>0
  <2>7. Sum(floatConfirmed') + Sum(Owed') <= allocCommitted'
    BY <1>0, <2>2, <2>3, <2>4, <2>6
  <2> QED
    BY <2>7 DEF BackedInv
<1>8. ASSUME UNCHANGED <<floatConfirmed, allocCommitted>>,
             at[p] # "decrCommitted", at'[p] # "decrCommitted"
      PROVE  BackedInv'
  BY <1>0, <1>3, <1>8 DEF BackedInv
<1>9. CASE (Promote(p) /\ record[target[p]] # "PENDING") \/ ReadFinality(p) \/ Deindex(p)
           \/ WriteLedger(p) \/ DeleteRecord(p) \/ SweepStep(p)
  BY <1>0, <1>8, <1>9
  DEF Promote, ReadFinality, Deindex, WriteLedger, DeleteRecord, SweepStep, StartTick, SweepNext,
      Move, Resume, counters, TypeOK
<1>10. CASE StartTeardown(p) \/ TeardownNext(p) \/ Cancel(p) \/ ReadFloat(p) \/ Reclaim(p)
           \/ RecordTeardown(p) \/ SweepAgentWcspr(p)
  BY <1>0, <1>8, <1>10
  DEF StartTeardown, TeardownNext, Cancel, ReadFloat, Reclaim, RecordTeardown, SweepAgentWcspr,
      Move, Resume, counters, TypeOK
<1>11. CASE HaltRequest(p) /\ at[p] # "decrCommitted"
  BY <1>0, <1>8, <1>11 DEF HaltRequest, Move, counters, TypeOK
<1> QED
  BY <1>5, <1>6, <1>7, <1>9, <1>10, <1>11 DEF ConfirmStep, TeardownStep

\* Every step keeps it covered.
LEMMA BackedStep == BackedInv /\ [Next]_vars => BackedInv'
<1> SUFFICES ASSUME BackedInv, [Next]_vars PROVE BackedInv'
  OBVIOUS
<1>1. IInv' /\ TypeOK'
  BY IInvStep DEF BackedInv, IInv, WithinCeilings, CountersMatchAllocations
<1>2. ASSUME UNCHANGED <<floatConfirmed, allocCommitted, at, took>>
      PROVE  BackedInv'
  BY <1>1, <1>2 DEF BackedInv, Owed
<1>3. ASSUME NEW a \in Allocations,
             ReadFunded(a) \/ DepositStep(a) \/ Finalize(a) \/ HaltDeposit(a)
      PROVE  BackedInv'
  BY <1>2, <1>3
  DEF ReadFunded, DepositStep, Gate, Submit, FundOnChain, UndoReserve, IncrPending,
      StoreRecord, AddToIndex, Finalize, HaltDeposit, counters, requestVars
<1>4. ASSUME NEW p \in Requests,
             ConfirmStep(p) \/ SweepStep(p) \/ StartTeardown(p) \/ TeardownStep(p)
                \/ HaltRequest(p)
      PROVE  BackedInv'
  BY <1>1, <1>4, RequestBacked
<1>5. CASE UNCHANGED vars \/ \E n \in 1 .. MaxFunded : CreditTreasury(n)
  BY <1>2, <1>5 DEF CreditTreasury, vars, counters, requestVars
<1> QED
  BY <1>3, <1>4, <1>5 DEF Next

\* At every step of every promotion and teardown, overlapping ones included, the committed
\* budget covers the confirmed float of all agents.
THEOREM ConfirmedHasBudget == Spec => [](FoldFunction(+, 0, floatConfirmed) <= allocCommitted)
<1>1. Init => BackedInv
  <2> SUFFICES ASSUME Init PROVE BackedInv
    OBVIOUS
  <2>1. /\ floatConfirmed \in [Agents -> Int] /\ \A g \in Agents : floatConfirmed[g] = 0
        /\ Owed \in [Teardowns -> Int] /\ \A p \in Teardowns : Owed[p] = 0
    BY DEF Init, Owed, Requests
  <2>2. Sum(floatConfirmed) = 0 /\ Sum(Owed) = 0
    BY <2>1, SumZero, RowsAssumption
  <2> QED
    BY <2>2, InitIInv DEF Init, BackedInv
<1>2. BackedInv => FoldFunction(+, 0, floatConfirmed) <= allocCommitted
  <2> SUFFICES ASSUME BackedInv PROVE Sum(floatConfirmed) <= allocCommitted
    BY DEF Sum
  <2>1. /\ Sum(floatConfirmed) \in Int /\ Sum(Owed) \in Nat /\ allocCommitted \in Int
        /\ Sum(floatConfirmed) + Sum(Owed) <= allocCommitted
    BY BackedTypes DEF BackedInv
  <2> QED
    BY <2>1
<1> QED
  BY <1>1, <1>2, BackedStep, PTL DEF Spec

\* So the float is backed, if an agent is torn down by one request.
THEOREM FloatBacked == OneTeardown => (Spec => []FloatIsBacked)
<1> SUFFICES ASSUME OneTeardown PROVE Spec => []FloatIsBacked
  OBVIOUS
<1>1. FloatIsBacked <=> /\ FoldFunction(+, 0, floatConfirmed) <= allocCommitted
                       /\ \A g \in Agents : ReclaimWasConfirmed(g)
  BY DEF FloatIsBacked
<1> QED
  BY <1>1, ConfirmedHasBudget, ReclaimIsBounded, PTL
=============================================================================
