----------------------------- MODULE Provisioning -----------------------------
(***************************************************************************)
(* Treasury allocations of one organisation: depositFor reserves budget    *)
(* and submits the transfer, the confirmation sweep promotes pending float *)
(* on finality, teardown cancels what is still pending and reclaims the    *)
(* confirmed float of an agent.  An allocation is one depositFor call; the *)
(* steps are what the code does between two awaits, each Lua script being  *)
(* one step.                                                               *)
(*                                                                         *)
(* The counters are INCRBY/DECRBY integers of Redis and may in principle   *)
(* go below zero.  Of the agents' own accounts on chain the model keeps    *)
(* the WCSPR that depositFor sends there and a teardown sweeps back; what  *)
(* payments take from it is not of this module.                            *)
(***************************************************************************)
EXTENDS Integers, FiniteSets, Functions

CONSTANTS
    Allocations,    \* depositFor calls that pass validation
    Agents,
    AgentOf,        \* AgentOf[a]: the agent allocation a funds
    Amount,         \* Amount[a]: base units
    Total,          \* Total[S]: sum of Amount over S
    FundedOnChain,  \* allocations for which the funding plan has an account of the agent
    AssumesFinality, \* the client of the server takes every transfer for final; tests inject
                    \* one that reads
    TotalBudget,    \* policy dial: the organisation's budget
    Sweeps,         \* confirmation workers (one per server instance)
    Teardowns,      \* teardown requests
    TornDown,       \* TornDown[t]: the agent teardown t retires
    NoAllocation,   \* no target
    MaxFunded,      \* bound: deposits credited to the treasury
    Faults          \* bound: which faults this instance explores

AllFaults == {"submitFails", "fundingFails", "halt"}

ASSUME AllocationAssumption ==
    /\ IsFiniteSet(Allocations)
    /\ AgentOf \in [Allocations -> Agents]
    /\ Amount \in [Allocations -> Nat]
    /\ Total \in [SUBSET Allocations -> Nat]
    /\ Total[{}] = 0
    /\ \A a \in Allocations : Total[{a}] = Amount[a]
    /\ \A S, T \in SUBSET Allocations :
          S \cap T = {} => Total[S \cup T] = Total[S] + Total[T]
    /\ FundedOnChain \subseteq Allocations
    /\ AssumesFinality \in BOOLEAN
    /\ TotalBudget \in Nat
    /\ TornDown \in [Teardowns -> Agents]
    /\ Sweeps \cap Teardowns = {} /\ Allocations \cap Teardowns = {}
    /\ NoAllocation \notin Allocations
    /\ MaxFunded \in Nat
    /\ Faults \subseteq AllFaults

\* An organisation has as many agents and gets as many teardown requests as it has, so its
\* float can be added up.
ASSUME RowsAssumption == IsFiniteSet(Agents) /\ IsFiniteSet(Teardowns)

VARIABLES
    \* Redis
    allocReserved,   \* the organisation's allocation_reserved
    allocCommitted,  \* the organisation's allocation_committed
    floatPending,    \* floatPending[g]
    floatConfirmed,  \* floatConfirmed[g]
    record,          \* record[a]: state field of the allocation hash; "cancelled" and
                     \* "deleted" say why the key is gone
    index,           \* union of the per-agent sets of pending allocations
    \* Postgres
    funded,          \* credited treasury deposits
    ledger,          \* ledger[x]: ledger pairs written for allocation or teardown x
    \* the chain
    final,           \* allocations whose transfer is final
    reclaimed,       \* reclaimed[g]: base units sent back to the treasury
    coins,           \* coins[g]: WCSPR in the agent's own account
    \* the requests
    deposit,         \* deposit[a]: where the depositFor call stands
    fundedSeen,      \* fundedSeen[a]: the treasury balance the route read for it
    halted,          \* depositFor calls whose instance stopped
    at,              \* at[p]: where sweep or teardown p stands
    target,          \* target[p]: the allocation it works on
    listed,          \* listed[p]: allocations it has still to visit
    took             \* took[p]: the confirmed float a teardown read

counters == <<allocReserved, allocCommitted, floatPending, floatConfirmed>>
cold == <<funded, ledger>>
chain == <<final, reclaimed, coins>>
depositVars == <<deposit, fundedSeen, halted>>
requestVars == <<at, target, listed, took>>
vars == <<counters, record, index, cold, chain, depositVars, requestVars>>

Requests == Sweeps \cup Teardowns
Of(g) == {a \in Allocations : AgentOf[a] = g}

Init ==
    /\ allocReserved = 0 /\ allocCommitted = 0
    /\ floatPending = [g \in Agents |-> 0]
    /\ floatConfirmed = [g \in Agents |-> 0]
    /\ record = [a \in Allocations |-> "none"]
    /\ index = {}
    /\ funded = 0
    /\ ledger = [x \in Allocations \cup Teardowns |-> 0]
    /\ final = {}
    /\ reclaimed = [g \in Agents |-> 0]
    /\ coins = [g \in Agents |-> 0]
    /\ deposit = [a \in Allocations |-> "idle"]
    /\ fundedSeen = [a \in Allocations |-> 0]
    /\ halted = {}
    /\ at = [p \in Requests |-> "idle"]
    /\ target = [p \in Requests |-> NoAllocation]
    /\ listed = [p \in Requests |-> {}]
    /\ took = [p \in Requests |-> 0]

-----------------------------------------------------------------------------
(* depositFor *)

Running(a, step) == deposit[a] = step /\ a \notin halted
Goto(a, step) == deposit' = [deposit EXCEPT ![a] = step]

\* getTreasuryBalances, read by the route before the call.
ReadFunded(a) ==
    /\ Running(a, "idle")
    /\ fundedSeen' = [fundedSeen EXCEPT ![a] = funded]
    /\ Goto(a, "gate")
    /\ UNCHANGED <<counters, record, index, cold, chain, halted, requestVars>>

\* Mutant of FitsBudget: only the policy budget is a ceiling.
FitsPolicyBudget(a) == Amount[a] <= TotalBudget - allocCommitted - allocReserved

\* allocation-reserve.lua: the policy budget and the deposits are both ceilings.
FitsBudget(a) ==
    /\ Amount[a] <= TotalBudget - allocCommitted - allocReserved
    /\ Amount[a] <= fundedSeen[a] - allocCommitted - allocReserved

\* evaluateAllocation: the kill switch and the request-local checks may refuse as well.
Gate(a) ==
    /\ Running(a, "gate")
    /\ \/ /\ FitsBudget(a)
          /\ allocReserved' = allocReserved + Amount[a]
          /\ Goto(a, "submit")
       \/ Goto(a, "denied") /\ UNCHANGED allocReserved
    /\ UNCHANGED <<allocCommitted, floatPending, floatConfirmed, record, index, cold,
                   chain, fundedSeen, halted, requestVars>>

\* gateway.depositFor, and the funding of the agent's own account.  The catch of either
\* gives the reservation back.
Submit(a) ==
    /\ Running(a, "submit")
    /\ \/ Goto(a, "fund")
       \/ "submitFails" \in Faults /\ Goto(a, "undo")
    /\ UNCHANGED <<counters, record, index, cold, chain, fundedSeen, halted, requestVars>>

\* resolveAgentFundingPlan: an agent without an account, or a slot that is not configured,
\* takes the path without funding.
WillFund(a) == a \in FundedOnChain

\* Mutant of FundAgentOnChain: an answer that was lost counts as a success.
FundUnseen(a, ok) ==
    coins' \in {coins, [coins EXCEPT ![AgentOf[a]] = @ + Amount[a]]}

\* fundAgentOnChain wraps what the operator lacks, seeds the agent's purse and sends the
\* WCSPR; any of the three may be refused, and the answer of the last be lost.
FundAgentOnChain(a, ok) ==
    /\ coins' \in {coins, [coins EXCEPT ![AgentOf[a]] = @ + Amount[a]]}
    /\ ok => coins' # coins

FundOnChain(a) ==
    /\ Running(a, "fund")
    /\ \/ ~WillFund(a) /\ Goto(a, "pend") /\ UNCHANGED coins
       \/ WillFund(a) /\ FundAgentOnChain(a, TRUE) /\ Goto(a, "pend")
       \/ WillFund(a) /\ "fundingFails" \in Faults /\ FundAgentOnChain(a, FALSE) /\ Goto(a, "undo")
    /\ UNCHANGED <<counters, record, index, cold, final, reclaimed, fundedSeen, halted,
                   requestVars>>

UndoReserve(a) ==
    /\ Running(a, "undo")
    /\ allocReserved' = allocReserved - Amount[a]
    /\ Goto(a, "failed")
    /\ UNCHANGED <<allocCommitted, floatPending, floatConfirmed, record, index, cold,
                   chain, fundedSeen, halted, requestVars>>

IncrPending(a) ==
    /\ Running(a, "pend")
    /\ floatPending' = [floatPending EXCEPT ![AgentOf[a]] = @ + Amount[a]]
    /\ Goto(a, "store")
    /\ UNCHANGED <<allocReserved, allocCommitted, floatConfirmed, record, index, cold,
                   chain, fundedSeen, halted, requestVars>>

StoreRecord(a) ==
    /\ Running(a, "store")
    /\ record' = [record EXCEPT ![a] = "PENDING"]
    /\ Goto(a, "index")
    /\ UNCHANGED <<counters, index, cold, chain, fundedSeen, halted, requestVars>>

AddToIndex(a) ==
    /\ Running(a, "index")
    /\ index' = index \cup {a}
    /\ Goto(a, "done")
    /\ UNCHANGED <<counters, record, cold, chain, fundedSeen, halted, requestVars>>

-----------------------------------------------------------------------------
(* confirmDeposit, run by the sweep and by teardown *)

Move(p, step) == at' = [at EXCEPT ![p] = step]

\* Where the caller goes on: the sweep with its next id, the teardown too, except that a
\* deposit it could not promote is cancelled.
Resume(p) == Move(p, "next")

\* isFinal of the gateway; a read that fails counts as not final.
SeesFinal(a) == AssumesFinality \/ a \in final

ReadFinality(p) ==
    LET a == target[p]
    IN  /\ at[p] = "confirm"
        /\ \/ record[a] = "PENDING" /\ SeesFinal(a) /\ Move(p, "promote")
           \/ record[a] = "PENDING" /\ ~SeesFinal(a)
              /\ Move(p, IF p \in Teardowns THEN "cancel" ELSE "next")
           \/ record[a] # "PENDING" /\ Resume(p)
        /\ UNCHANGED <<counters, record, index, cold, chain, depositVars, target, listed,
                       took>>

\* Mutant of Promote: the script does not look at the state of the record.
PromoteAgain(p) ==
    LET a == target[p]
    IN  /\ at[p] = "promote"
        /\ record' = [record EXCEPT ![a] = "CONFIRMED"]
        /\ floatPending' = [floatPending EXCEPT ![AgentOf[a]] = @ - Amount[a]]
        /\ floatConfirmed' = [floatConfirmed EXCEPT ![AgentOf[a]] = @ + Amount[a]]
        /\ allocReserved' = allocReserved - Amount[a]
        /\ allocCommitted' = allocCommitted + Amount[a]
        /\ Move(p, "deindex")
        /\ UNCHANGED <<index, cold, chain, depositVars, target, listed, took>>

\* confirm-allocation.lua, single winner.
Promote(p) ==
    LET a == target[p]
    IN  /\ at[p] = "promote"
        /\ IF record[a] = "PENDING"
           THEN /\ record' = [record EXCEPT ![a] = "CONFIRMED"]
                /\ floatPending' = [floatPending EXCEPT ![AgentOf[a]] = @ - Amount[a]]
                /\ floatConfirmed' = [floatConfirmed EXCEPT ![AgentOf[a]] = @ + Amount[a]]
                /\ allocReserved' = allocReserved - Amount[a]
                /\ allocCommitted' = allocCommitted + Amount[a]
                /\ Move(p, "deindex")
           ELSE Resume(p) /\ UNCHANGED <<counters, record>>
        /\ UNCHANGED <<index, cold, chain, depositVars, target, listed, took>>

\* Mutant of Deindex: the promoted id stays in the index.
KeepIndexed(p) ==
    /\ at[p] = "deindex"
    /\ Move(p, "ledger")
    /\ UNCHANGED <<counters, record, index, cold, chain, depositVars, target, listed, took>>

Deindex(p) ==
    /\ at[p] = "deindex"
    /\ index' = index \ {target[p]}
    /\ Move(p, "ledger")
    /\ UNCHANGED <<counters, record, cold, chain, depositVars, target, listed, took>>

\* recordAllocation; then the hash is deleted.
WriteLedger(p) ==
    /\ at[p] = "ledger"
    /\ ledger' = [ledger EXCEPT ![target[p]] = @ + 1]
    /\ Move(p, "delete")
    /\ UNCHANGED <<counters, record, index, funded, chain, depositVars, target, listed,
                   took>>

DeleteRecord(p) ==
    /\ at[p] = "delete"
    /\ record' = [record EXCEPT ![target[p]] = "deleted"]
    /\ Resume(p)
    /\ UNCHANGED <<counters, index, cold, chain, depositVars, target, listed, took>>

-----------------------------------------------------------------------------
(* sweepPendingConfirmations: a tick lists every agent's index and visits each id *)

StartTick(p) ==
    /\ p \in Sweeps /\ at[p] = "idle" /\ index # {}
    /\ listed' = [listed EXCEPT ![p] = index]
    /\ Move(p, "next")
    /\ UNCHANGED <<counters, record, index, cold, chain, depositVars, target, took>>

\* Mutant of SweepNext: the timer is not set again after a tick.
SweepOnce(p) ==
    /\ p \in Sweeps /\ at[p] = "next"
    /\ IF listed[p] = {}
       THEN Move(p, "ended") /\ UNCHANGED <<target, listed>>
       ELSE \E a \in listed[p] :
               /\ listed' = [listed EXCEPT ![p] = @ \ {a}]
               /\ target' = [target EXCEPT ![p] = a]
               /\ Move(p, "confirm")
    /\ UNCHANGED <<counters, record, index, cold, chain, depositVars, took>>

SweepNext(p) ==
    /\ p \in Sweeps /\ at[p] = "next"
    /\ IF listed[p] = {}
       THEN Move(p, "idle") /\ target' = [target EXCEPT ![p] = NoAllocation]
            /\ UNCHANGED listed
       ELSE \E a \in listed[p] :
               /\ listed' = [listed EXCEPT ![p] = @ \ {a}]
               /\ target' = [target EXCEPT ![p] = a]
               /\ Move(p, "confirm")
    /\ UNCHANGED <<counters, record, index, cold, chain, depositVars, took>>

-----------------------------------------------------------------------------
(* teardownAgent; the agent is suspended before it (module CasperGuard) *)

StartTeardown(p) ==
    /\ p \in Teardowns /\ at[p] = "idle"
    /\ listed' = [listed EXCEPT ![p] = index \cap Of(TornDown[p])]
    /\ Move(p, "next")
    /\ UNCHANGED <<counters, record, index, cold, chain, depositVars, target, took>>

TeardownNext(p) ==
    /\ p \in Teardowns /\ at[p] = "next"
    /\ IF listed[p] = {}
       THEN Move(p, "readFloat") /\ UNCHANGED <<listed, target, index>>
       ELSE \E a \in listed[p] :
               /\ listed' = [listed EXCEPT ![p] = @ \ {a}]
               /\ target' = [target EXCEPT ![p] = a]
               /\ IF record[a] = "PENDING"
                  THEN Move(p, "confirm") /\ UNCHANGED index
                  ELSE index' = index \ {a} /\ UNCHANGED at
    /\ UNCHANGED <<counters, record, cold, chain, depositVars, took>>

\* Mutant of Cancel: the script does not look at the state of the record.
CancelAny(p) ==
    LET a == target[p]
    IN  /\ at[p] = "cancel"
        /\ record' = [record EXCEPT ![a] = "cancelled"]
        /\ floatPending' = [floatPending EXCEPT ![AgentOf[a]] = @ - Amount[a]]
        /\ allocReserved' = allocReserved - Amount[a]
        /\ index' = index \ {a}
        /\ Resume(p)
        /\ UNCHANGED <<allocCommitted, floatConfirmed, cold, chain, depositVars, target,
                       listed, took>>

\* cancel-allocation.lua, single winner.
Cancel(p) ==
    LET a == target[p]
    IN  /\ at[p] = "cancel"
        /\ IF record[a] = "PENDING"
           THEN /\ record' = [record EXCEPT ![a] = "cancelled"]
                /\ floatPending' = [floatPending EXCEPT ![AgentOf[a]] = @ - Amount[a]]
                /\ allocReserved' = allocReserved - Amount[a]
                /\ index' = index \ {a}
           ELSE UNCHANGED <<record, floatPending, allocReserved, index>>
        /\ Resume(p)
        /\ UNCHANGED <<allocCommitted, floatConfirmed, cold, chain, depositVars, target,
                       listed, took>>

ReadFloat(p) ==
    /\ at[p] = "readFloat"
    /\ took' = [took EXCEPT ![p] = floatConfirmed[TornDown[p]]]
    /\ Move(p, IF floatConfirmed[TornDown[p]] > 0 THEN "reclaim" ELSE "sweep")
    /\ UNCHANGED <<counters, record, index, cold, chain, depositVars, target, listed>>

\* gateway.reclaimFor, then the two counters, one command each, then the ledger pair of the
\* teardown itself.
Reclaim(p) ==
    /\ at[p] = "reclaim"
    /\ reclaimed' = [reclaimed EXCEPT ![TornDown[p]] = @ + took[p]]
    /\ Move(p, "decrFloat")
    /\ UNCHANGED <<counters, record, index, cold, final, coins, depositVars, target, listed,
                   took>>

\* Mutant of DecrFloat: the committed budget is given back first.
DecrCommittedFirst(p) ==
    /\ at[p] = "decrFloat"
    /\ allocCommitted' = allocCommitted - took[p]
    /\ Move(p, "decrCommitted")
    /\ UNCHANGED <<allocReserved, floatPending, floatConfirmed, record, index, cold, chain,
                   depositVars, target, listed, took>>

DecrFloat(p) ==
    /\ at[p] = "decrFloat"
    /\ floatConfirmed' = [floatConfirmed EXCEPT ![TornDown[p]] = @ - took[p]]
    /\ Move(p, "decrCommitted")
    /\ UNCHANGED <<allocReserved, allocCommitted, floatPending, record, index, cold, chain,
                   depositVars, target, listed, took>>

DecrCommitted(p) ==
    /\ at[p] = "decrCommitted"
    /\ allocCommitted' = allocCommitted - took[p]
    /\ Move(p, "recordTeardown")
    /\ UNCHANGED <<allocReserved, floatPending, floatConfirmed, record, index, cold, chain,
                   depositVars, target, listed, took>>

RecordTeardown(p) ==
    /\ at[p] = "recordTeardown"
    /\ ledger' = [ledger EXCEPT ![p] = @ + 1]
    /\ Move(p, "sweep")
    /\ UNCHANGED <<counters, record, index, funded, chain, depositVars, target, listed, took>>

\* sweepAgentWcsprOnChain authorizes the whole balance; when it is refused, a marker is set
\* and the teardown ends all the same.
SweepAgentWcspr(p) ==
    /\ at[p] = "sweep"
    /\ coins' \in {coins, [coins EXCEPT ![TornDown[p]] = 0]}
    /\ Move(p, "ended")
    /\ UNCHANGED <<counters, record, index, cold, final, reclaimed, depositVars, target,
                   listed, took>>

-----------------------------------------------------------------------------
(* The environment *)

CreditTreasury(n) ==
    /\ funded + n <= MaxFunded
    /\ funded' = funded + n
    /\ UNCHANGED <<counters, record, index, ledger, chain, depositVars, requestVars>>

\* A submitted transfer becomes final at any time after, even once it was cancelled here.
Finalize(a) ==
    /\ deposit[a] \in {"fund", "pend", "store", "index", "done"} /\ a \notin final
    /\ final' = final \cup {a}
    /\ UNCHANGED <<counters, record, index, cold, reclaimed, coins, depositVars, requestVars>>

HaltDeposit(a) ==
    /\ "halt" \in Faults /\ a \notin halted
    /\ deposit[a] \notin {"idle", "denied", "failed", "done"}
    /\ halted' = halted \cup {a}
    /\ UNCHANGED <<counters, record, index, cold, chain, deposit, fundedSeen, requestVars>>

\* A worker starts its ticks again; a teardown request is lost.
HaltRequest(p) ==
    /\ "halt" \in Faults /\ at[p] \notin {"idle", "ended"}
    /\ Move(p, IF p \in Sweeps THEN "idle" ELSE "ended")
    /\ target' = [target EXCEPT ![p] = NoAllocation]
    /\ listed' = [listed EXCEPT ![p] = {}]
    /\ UNCHANGED <<counters, record, index, cold, chain, depositVars, took>>

-----------------------------------------------------------------------------

DepositStep(a) ==
    \/ Gate(a) \/ Submit(a) \/ FundOnChain(a) \/ UndoReserve(a)
    \/ IncrPending(a) \/ StoreRecord(a) \/ AddToIndex(a)

ConfirmStep(p) ==
    \/ ReadFinality(p) \/ Promote(p) \/ Deindex(p) \/ WriteLedger(p) \/ DeleteRecord(p)

SweepStep(p) == StartTick(p) \/ SweepNext(p)

TeardownStep(p) ==
    \/ TeardownNext(p) \/ Cancel(p) \/ ReadFloat(p) \/ Reclaim(p) \/ DecrFloat(p)
    \/ DecrCommitted(p) \/ RecordTeardown(p) \/ SweepAgentWcspr(p)

Next ==
    \/ \E a \in Allocations :
          ReadFunded(a) \/ DepositStep(a) \/ Finalize(a) \/ HaltDeposit(a)
    \/ \E p \in Requests :
          ConfirmStep(p) \/ SweepStep(p) \/ StartTeardown(p) \/ TeardownStep(p)
          \/ HaltRequest(p)
    \/ \E n \in 1 .. MaxFunded : CreditTreasury(n)

Spec == Init /\ [][Next]_vars

\* The worker ticks for as long as the server runs and a started call goes on.
Fairness ==
    /\ \A a \in Allocations : WF_vars(DepositStep(a))
    /\ \A p \in Requests : WF_vars(ConfirmStep(p) \/ SweepStep(p) \/ TeardownStep(p))

FairSpec == Spec /\ Fairness

-----------------------------------------------------------------------------
(* Properties *)

\* Every counter, record and request holds a value of its kind.
TypeOK ==
    /\ allocReserved \in Int /\ allocCommitted \in Int
    /\ floatPending \in [Agents -> Int] /\ floatConfirmed \in [Agents -> Int]
    /\ record \in [Allocations -> {"none", "PENDING", "CONFIRMED", "deleted", "cancelled"}]
    /\ index \in SUBSET Allocations
    /\ funded \in Nat
    /\ ledger \in [Allocations \cup Teardowns -> Nat]
    /\ final \in SUBSET Allocations
    /\ reclaimed \in [Agents -> Int] /\ coins \in [Agents -> Nat]
    /\ deposit \in [Allocations -> {"idle", "gate", "submit", "fund", "undo", "pend", "store",
                                    "index", "done", "denied", "failed"}]
    /\ fundedSeen \in [Allocations -> Nat]
    /\ halted \in SUBSET Allocations
    /\ at \in [Requests -> {"idle", "next", "confirm", "promote", "deindex", "ledger",
                            "delete", "cancel", "readFloat", "reclaim", "decrFloat",
                            "decrCommitted", "recordTeardown", "sweep", "ended"}]
    /\ target \in [Requests -> Allocations \cup {NoAllocation}]
    /\ listed \in [Requests -> SUBSET Allocations]
    /\ took \in [Requests -> Int]

Reserving == {a \in Allocations : \/ deposit[a] \in {"submit", "fund", "undo", "pend", "store"}
                                  \/ record[a] = "PENDING"}
Pending(g) == {a \in Of(g) : deposit[a] = "store" \/ record[a] = "PENDING"}
Promoted == {a \in Allocations : record[a] \in {"CONFIRMED", "deleted"}}

\* Both two-phase counters are exactly the allocations in the phase, whoever promotes,
\* cancels or gives up first and wherever an instance stops: nothing is released twice.
CountersMatchAllocations ==
    /\ TypeOK
    /\ allocReserved = Total[Reserving]
    /\ \A g \in Agents : floatPending[g] = Total[Pending(g)]

\* Outstanding allocations, which the counters stand for wherever an instance stops, stay
\* within the policy budget and within the treasury's deposits, although every call checks a
\* balance that was read earlier.
WithinCeilings ==
    /\ CountersMatchAllocations
    /\ allocReserved + allocCommitted <= TotalBudget
    /\ allocReserved + allocCommitted <= funded

\* A deposit is promoted and written to the ledger at most once, whichever workers overlap
\* or stop.
PromotedOnce ==
    \A a \in Allocations :
        /\ ledger[a] <= IF a \in Promoted THEN 1 ELSE 0
        /\ a \in Promoted => deposit[a] \in {"index", "done"}

\* The WCSPR of an agent covers its float until a teardown has swept it: no order of
\* deposits, promotions and cancellations gives float that was not sent.
FloatHasCoins(g) ==
    \/ \E p \in Teardowns : TornDown[p] = g /\ at[p] = "ended"
    \/ ~(Of(g) \subseteq FundedOnChain)
    \/ floatPending[g] + floatConfirmed[g] <= coins[g]

\* What a teardown took back was confirmed float of its agent.
ReclaimWasConfirmed(g) == reclaimed[g] <= Total[Promoted \cap Of(g)]

\* Confirmed float, over all agents, is covered by committed budget at every step of a
\* promotion and of a teardown, and a teardown takes back no more than was ever confirmed,
\* whatever is promoted meanwhile.
FloatIsBacked ==
    /\ FoldFunction(+, 0, floatConfirmed) <= allocCommitted
    /\ \A g \in Agents : ReclaimWasConfirmed(g)

\* The float of every agent is covered by coins of its account, and, where finality is read,
\* what was promoted by final transfers, whatever is refused, lost or stopped on the way.
FloatIsCovered ==
    /\ \A g \in Agents : FloatHasCoins(g)
    /\ AssumesFinality \/ Promoted \subseteq final

Quiet ==
    /\ \A a \in Allocations : deposit[a] \in {"idle", "done", "denied", "failed"}
    /\ \A p \in Requests : at[p] \in {"idle", "ended"}

\* Without crashes, once every request has ended each pending deposit can be found by the
\* sweep, each promoted one is in the ledger with its working record gone, and so is each
\* reclaim.
QuietIsSettled ==
    Quiet => /\ index = {a \in Allocations : record[a] = "PENDING"}
             /\ \A a \in Promoted : record[a] = "deleted" /\ ledger[a] = 1
             /\ \A p \in Teardowns : ledger[p] = IF took[p] > 0 THEN 1 ELSE 0

\* README.md, "Confirmation worker: finality -> promote to confirmed": a deposit in the
\* index that the gateway calls final does not stay pending.
FinalDepositsResolve ==
    \A a \in Allocations : (a \in index /\ SeesFinal(a)) ~> (record[a] # "PENDING")
=============================================================================
