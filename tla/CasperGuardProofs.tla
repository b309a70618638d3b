--------------------------- MODULE CasperGuardProofs ---------------------------
(***************************************************************************)
(* Proofs about Casper Guard, for any number of calls, keys, reconcile and *)
(* revoke requests, every amount and every choice of the environment's     *)
(* moves: crashes, store errors and lost locks included.                   *)
(***************************************************************************)
EXTENDS CasperGuard, TLAPS

-----------------------------------------------------------------------------
(* Type correctness *)

\* The hot tier keeps its types under every script, whoever runs it.
LEMMA HotTypeStep ==
    ASSUME Hot!TypeOK, [Hot!Next]_hotVars
    PROVE  Hot!TypeOK'
<1> USE DEF Hot!TypeOK, Hot!holdVars, Hot!floatVars
<1>0. \A p \in Decisions : Amount[p] \in Nat
  BY HotTierAssumption
<1>1. ASSUME NEW p \in Decisions, NEW t \in 0 .. hour, Hot!ReserveHoldWithinPolicy(p, t)
      PROVE  Hot!TypeOK'
  BY <1>0, <1>1 DEF Hot!ReserveHoldWithinPolicy
<1>2. ASSUME NEW p \in Decisions, Hot!SettleHold(p) PROVE Hot!TypeOK'
  BY <1>0, <1>2 DEF Hot!SettleHold, Hot!Subtract
<1>3. ASSUME NEW p \in Decisions, Hot!ReleaseHold(p) PROVE Hot!TypeOK'
  BY <1>0, <1>3 DEF Hot!ReleaseHold, Hot!Subtract
<1>4. ASSUME NEW n \in 1 .. MaxFloat, Hot!ConfirmFloat(n) PROVE Hot!TypeOK'
  BY <1>4, HotTierAssumption DEF Hot!ConfirmFloat
<1>5. ASSUME NEW t \in Teardowns, Hot!ReadFloat(t) \/ Hot!DecrFloat(t) PROVE Hot!TypeOK'
  BY <1>5 DEF Hot!ReadFloat, Hot!DecrFloat
<1>6. CASE Hot!Tick
  BY <1>6 DEF Hot!Tick
<1>7. CASE UNCHANGED hotVars
  BY <1>7 DEF hotVars
<1> QED
  BY <1>1, <1>2, <1>3, <1>4, <1>5, <1>6, <1>7 DEF Hot!Next

\* Every script a step runs is a step of the hot tier.
LEMMA HotStep ==
    ASSUME TypeOK, [Next]_vars
    PROVE  [Hot!Next]_hotVars
<1> USE DEF hotVars
<1>0. counted \subseteq Decisions /\ reservedHolds \subseteq Decisions
  BY DEF TypeOK, Hot!TypeOK
<1>1. ASSUME NEW s, NEW d, ReleaseIn(s, d) PROVE [Hot!Next]_hotVars
  BY <1>0, <1>1 DEF ReleaseIn, Hot!Next
<1>2. ASSUME NEW s, NEW d, SettleIn(s, d) PROVE [Hot!Next]_hotVars
  BY <1>0, <1>2 DEF SettleIn, Hot!Next
<1>3. ASSUME NEW d \in Decisions, CallStep(d) PROVE [Hot!Next]_hotVars
  <2>1. CASE Reserve(d)
    BY <2>1 DEF Reserve, Hot!Next
  <2>2. CASE UndoReserve(d) \/ ReleaseAborted(d)
    BY <2>2, <1>1 DEF UndoReserve, ReleaseAborted
  <2> QED
    BY <1>3, <2>1, <2>2
    DEF CallStep, ReadContended, ReadLock, ReadExisting, Evaluate, PersistDeny, Insert,
        ReplayWinner, CheckOrg, CheckAgent, Sign, MarkSigned, Abort, CheckLock, DelLock
<1>4. ASSUME NEW d \in Decisions, AcquireLock(d) \/ Throw(d) \/ HaltCall(d) \/ Redeem(d)
      PROVE  UNCHANGED hotVars
  BY <1>4 DEF AcquireLock, Throw, HaltCall, Redeem
<1>5. ASSUME NEW w \in Workers, ReconcileStep(w) PROVE [Hot!Next]_hotVars
  <2>1. CASE SettleHolds(w) \/ ReleaseHolds(w)
    BY <2>1, <1>1, <1>2 DEF SettleHolds, ReleaseHolds
  <2> QED
    BY <1>5, <2>1
    DEF ReconcileStep, Observe, MarkSettled, MarkExpiryCheck, ReadForTerminal, MarkTerminal,
        Reread
<1>6. ASSUME NEW w \in Workers, NEW d \in Decisions, ReadDecision(w, d) PROVE UNCHANGED hotVars
  BY <1>6 DEF ReadDecision
<1>7. ASSUME NEW r \in Revokers, SuspendForRevoke(r) \/ RevokeStep(r) PROVE [Hot!Next]_hotVars
  <2>1. CASE ReleaseListed(r)
    BY <2>1, <1>1 DEF ReleaseListed
  <2> QED
    BY <1>7, <2>1 DEF SuspendForRevoke, RevokeStep, ListReserved, AbortListed, EndRevoke
<1>8. ASSUME NEW p \in Requests, HaltRequest(p) PROVE UNCHANGED hotVars
  BY <1>8 DEF HaltRequest
<1>9. ASSUME NEW on \in BOOLEAN, SetKillSwitch(on) \/ SetSuspended(on) PROVE UNCHANGED hotVars
  BY <1>9 DEF SetKillSwitch, SetSuspended
<1>10. ASSUME NEW k \in Keys, LockExpires(k) PROVE UNCHANGED hotVars
  BY <1>10 DEF LockExpires
<1>11. CASE HotEnvironment
  BY <1>11 DEF HotEnvironment, Hot!Next
<1>12. CASE UNCHANGED vars
  BY <1>12 DEF vars
<1> QED
  BY <1>3, <1>4, <1>5, <1>6, <1>7, <1>8, <1>9, <1>10, <1>11, <1>12 DEF Next

\* Time and float pass the holds by.
LEMMA HotEnvironmentKeepsHolds ==
    HotEnvironment => UNCHANGED <<counted, score, reservedHolds, settledHolds>>
BY DEF HotEnvironment, Hot!Tick, Hot!ConfirmFloat, Hot!ReadFloat, Hot!DecrFloat, Hot!holdVars

\* A step of an authorize call writes only its own call, row, answer and lock.
LEMMA CallTypes ==
    ASSUME TypeOK, Hot!TypeOK', NEW d \in Decisions,
           AcquireLock(d) \/ CallStep(d) \/ Throw(d) \/ HaltCall(d) \/ Redeem(d)
    PROVE  TypeOK'
<1> USE DEF TypeOK, Goto, Say, Answer, pgVars, switches, requestVars
<1>0. /\ KeyOf \in [Decisions -> Keys]
      /\ \A e \in Stored(d) : e \in Decisions /\ Replay(d, e) \in [
             verdict : {"none", "ALLOW", "DENY", "CONFLICT", "IN_PROGRESS", "ERROR"},
             about : Decisions \cup {NoDecision}]
  BY GuardAssumption DEF Stored, Replay
<1>1. CASE AcquireLock(d)
  BY <1>1, <1>0 DEF AcquireLock
<1>2. CASE ReadContended(d)
  <2>1. CASE Stored(d) = {}
    BY <1>2, <2>1 DEF ReadContended
  <2>2. CASE Stored(d) # {}
    <3>1. PICK e \in Stored(d) : Say(d, Replay(d, e))
      BY <1>2, <2>2 DEF ReadContended
    <3> QED
      BY <1>2, <2>2, <3>1, <1>0 DEF ReadContended
  <2> QED
    BY <2>1, <2>2
<1>3. CASE ReadLock(d)
  BY <1>3 DEF ReadLock
<1>4. CASE ReadExisting(d)
  <2>1. CASE Stored(d) = {}
    BY <1>4, <2>1 DEF ReadExisting
  <2>2. CASE Stored(d) # {}
    <3>1. PICK e \in Stored(d) : Say(d, Replay(d, e))
      BY <1>4, <2>2 DEF ReadExisting
    <3> QED
      BY <1>4, <2>2, <3>1, <1>0 DEF ReadExisting
  <2> QED
    BY <2>1, <2>2
<1>5. CASE Evaluate(d)
  BY <1>5 DEF Evaluate
<1>6. CASE PersistDeny(d)
  BY <1>6 DEF PersistDeny
<1>7. CASE Reserve(d)
  BY <1>7 DEF Reserve
<1>8. CASE Insert(d)
  BY <1>8 DEF Insert, InFlight
<1>9. CASE UndoReserve(d)
  BY <1>9 DEF UndoReserve, ReleaseIn
<1>10. CASE ReplayWinner(d)
  BY <1>10, <1>0 DEF ReplayWinner
<1>11. CASE CheckOrg(d) \/ CheckAgent(d) \/ Sign(d)
  BY <1>11 DEF CheckOrg, CheckAgent, Sign
<1>12. CASE MarkSigned(d)
  BY <1>12 DEF MarkSigned, InFlight
<1>13. CASE Abort(d)
  <2>1. CASE CanClose(d)
    BY <1>13, <2>1 DEF Abort, Closed, Stores
  <2>2. CASE ~ CanClose(d)
    BY <1>13, <2>2 DEF Abort
  <2> QED
    BY <2>1, <2>2
<1>14. CASE ReleaseAborted(d)
  BY <1>14 DEF ReleaseAborted, ReleaseIn
<1>15. CASE CheckLock(d)
  BY <1>15 DEF CheckLock
<1>16. CASE DelLock(d)
  BY <1>16, <1>0 DEF DelLock
<1>17. CASE Throw(d)
  BY <1>17 DEF Throw, AfterThrow
<1>18. CASE HaltCall(d)
  BY <1>18 DEF HaltCall
<1>19. CASE Redeem(d)
  BY <1>19, GuardAssumption DEF Redeem, CanPay, callVars
<1> QED
  BY <1>1, <1>2, <1>3, <1>4, <1>5, <1>6, <1>7, <1>8, <1>9, <1>10, <1>11, <1>12, <1>13,
     <1>14, <1>15, <1>16, <1>17, <1>18, <1>19 DEF CallStep

\* A step of a reconcile writes only its own request, the row, the hold and what was paid.
LEMMA ReconcileTypes ==
    ASSUME TypeOK, Hot!TypeOK', NEW w \in Workers,
           ReconcileStep(w) \/ \E d \in Decisions : ReadDecision(w, d)
    PROVE  TypeOK'
<1> USE DEF TypeOK, Move, Finish, Stores, Requests, Closed, InFlight,
            pgVars, switches, callVars
<1>1. CASE Observe(w)
  BY <1>1, GuardAssumption DEF Observe, CanPay
<1>2. CASE MarkSettled(w)
  BY <1>2 DEF MarkSettled
<1>3. CASE SettleHolds(w)
  BY <1>3 DEF SettleHolds, SettleIn
<1>4. CASE MarkExpiryCheck(w)
  BY <1>4 DEF MarkExpiryCheck
<1>5. CASE ReadForTerminal(w)
  BY <1>5 DEF ReadForTerminal
<1>6. CASE MarkTerminal(w)
  BY <1>6 DEF MarkTerminal
<1>7. CASE ReleaseHolds(w)
  BY <1>7 DEF ReleaseHolds, ReleaseIn
<1>8. CASE Reread(w)
  BY <1>8 DEF Reread
<1>9. CASE \E d \in Decisions : ReadDecision(w, d)
  BY <1>9 DEF ReadDecision
<1> QED
  BY <1>1, <1>2, <1>3, <1>4, <1>5, <1>6, <1>7, <1>8, <1>9 DEF ReconcileStep

\* A step of a revoke writes only its own request, the row, the hold and the agent.
LEMMA RevokeTypes ==
    ASSUME TypeOK, Hot!TypeOK', NEW r \in Revokers, SuspendForRevoke(r) \/ RevokeStep(r)
    PROVE  TypeOK'
<1> USE DEF TypeOK, Move, Stores, Requests, Closed, pgVars, switches, callVars
<1>1. CASE SuspendForRevoke(r)
  BY <1>1 DEF SuspendForRevoke
<1>2. CASE ListReserved(r)
  BY <1>2 DEF ListReserved
<1>3. ASSUME NEW d \in Decisions, AbortListed(r, d) PROVE TypeOK'
  <2>1. CASE CanClose(d)
    BY <1>3, <2>1 DEF AbortListed
  <2>2. CASE ~ CanClose(d)
    BY <1>3, <2>2 DEF AbortListed
  <2> QED
    BY <2>1, <2>2
<1>4. CASE ReleaseListed(r)
  BY <1>4 DEF ReleaseListed, ReleaseIn
<1>5. CASE EndRevoke(r)
  BY <1>5 DEF EndRevoke
<1> QED
  BY <1>1, <1>2, <1>3, <1>4, <1>5 DEF RevokeStep

\* Every step keeps the types.
LEMMA TypeStep == TypeOK /\ [Next]_vars => TypeOK'
<1> SUFFICES ASSUME TypeOK, [Next]_vars PROVE TypeOK'
  OBVIOUS
<1>0. Hot!TypeOK'
  BY HotStep, HotTypeStep DEF TypeOK
<1> USE DEF TypeOK, pgVars, switches, callVars, requestVars
<1>1. ASSUME NEW p \in Requests, HaltRequest(p) PROVE TypeOK'
  BY <1>0, <1>1 DEF HaltRequest, Finish, Move, Requests
<1>2. ASSUME NEW on \in BOOLEAN, SetKillSwitch(on) \/ SetSuspended(on) PROVE TypeOK'
  BY <1>0, <1>2 DEF SetKillSwitch, SetSuspended
<1>3. ASSUME NEW k \in Keys, LockExpires(k) PROVE TypeOK'
  BY <1>0, <1>3 DEF LockExpires
<1>4. CASE HotEnvironment
  BY <1>0, <1>4 DEF HotEnvironment
<1>5. CASE UNCHANGED vars
  BY <1>0, <1>5 DEF vars
<1>6. ASSUME NEW d \in Decisions,
             AcquireLock(d) \/ CallStep(d) \/ Throw(d) \/ HaltCall(d) \/ Redeem(d)
      PROVE  TypeOK'
  BY <1>0, <1>6, CallTypes
<1>7. ASSUME NEW w \in Workers, ReconcileStep(w) \/ \E d \in Decisions : ReadDecision(w, d)
      PROVE  TypeOK'
  BY <1>0, <1>7, ReconcileTypes
<1>8. ASSUME NEW r \in Revokers, SuspendForRevoke(r) \/ RevokeStep(r) PROVE TypeOK'
  BY <1>0, <1>8, RevokeTypes
<1> QED
  BY <1>1, <1>2, <1>3, <1>4, <1>5, <1>6, <1>7, <1>8 DEF Next

\* No request, no row and no hold exists at first.
LEMMA InitTypes == Init => TypeOK
<1> SUFFICES ASSUME Init PROVE TypeOK
  OBVIOUS
<1>1. Hot!TypeOK
  BY DEF Init, Hot!Init, Hot!TypeOK
<1>2. /\ status \in [Decisions -> {"none", "DENIED", "SETTLED"} \cup InFlight \cup Closed]
      /\ holdStatus \in [Decisions -> {"none", "RESERVED", "SETTLED", "RELEASED"}]
      /\ signed \in SUBSET Decisions /\ suspended \in BOOLEAN /\ denyAll \in BOOLEAN
      /\ lock \in [Keys -> Decisions \cup {NoDecision}]
  BY DEF Init
<1>3. paid \in [Decisions -> 0 .. MaxPaid]
  BY GuardAssumption DEF Init
<1>4. answer \in [Decisions ->
                    [verdict : {"none", "ALLOW", "DENY", "CONFLICT", "IN_PROGRESS", "ERROR"},
                     about : Decisions \cup {NoDecision}]]
  BY DEF Init, NoAnswer
<1>5. /\ target \in [Requests -> Decisions \cup {NoDecision}]
      /\ listed \in [Revokers -> SUBSET Decisions]
      /\ todo \in [Decisions \cup Requests -> SUBSET Stores]
  BY DEF Init
<1> QED
  BY <1>1, <1>2, <1>3, <1>4, <1>5 DEF Init, TypeOK

\* Every store and every request always holds a value of its kind.
THEOREM TypeCorrect == Spec => []TypeOK
BY InitTypes, TypeStep, PTL DEF Spec

-----------------------------------------------------------------------------
(* The inductive invariant *)

\* Steps of a call before its row exists, and those before its hold exists.
Rowless == {"idle", "contended", "readLock", "readExisting", "evaluate", "persistDeny",
            "reserve", "insert", "undoReplay", "undoThrow", "replay"}
Holdless == {"idle", "contended", "readLock", "readExisting", "evaluate", "persistDeny",
             "reserve"}

\* What the row of d says of its hold in Postgres, and what it says of the one in Redis.
RowMatchesHold(d) ==
    /\ status[d] \in {"none", "DENIED"} => holdStatus[d] = "none"
    /\ status[d] \in InFlight => holdStatus[d] = "RESERVED"
    /\ status[d] = "SETTLED" => holdStatus[d] \in {"RESERVED", "SETTLED"}
    /\ status[d] \in Closed => holdStatus[d] \in {"RESERVED", "RELEASED"}

RowMatchesHotTier(d) ==
    /\ status[d] \in InFlight => d \in reservedHolds
    /\ status[d] = "SETTLED" => d \in counted
    /\ d \in settledHolds => status[d] = "SETTLED"

\* A signature is never taken back, and only a signed decision settles.
SignedRows ==
    /\ \A d \in signed : status[d] \notin {"none", "DENIED", "RESERVED"}
    /\ \A d \in Decisions : status[d] \in {"SIGNED", "EXPIRY_CHECK", "SETTLED"} => d \in signed

\* The unique index.
OneRowPerKey ==
    \A d, e \in Decisions :
        status[d] # "none" /\ status[e] # "none" /\ KeyOf[d] = KeyOf[e] => d = e

\* Where a call stands against the rows and the hot tier.
CallsAgree ==
    \A d \in Decisions :
        /\ call[d] \in Rowless => status[d] = "none"
        /\ call[d] \in Holdless => d \notin counted
        /\ call[d] = "insert" => d \in reservedHolds
        /\ call[d] = "release" => status[d] \in Closed

\* Where a request stands against the row it works on, which may have moved since it read it.
RequestsAgree ==
    /\ \A w \in Workers :
          /\ at[w] # "idle" => target[w] \in signed
          /\ at[w] \in {"settle", "repair"} => status[target[w]] = "SETTLED"
          /\ at[w] = "markSettled" /\ Kind[target[w]] # "casper-deploy" => paid[target[w]] > 0
    /\ \A p \in Requests :
          at[p] = "release" => target[p] \in Decisions /\ status[target[p]] \in Closed

\* An ALLOW names a signed decision of the same key, taken for the same request.
AllowsAgree ==
    \A d \in Decisions :
        answer[d].verdict = "ALLOW" =>
            /\ answer[d].about \in signed
            /\ KeyOf[answer[d].about] = KeyOf[d]
            /\ Request[answer[d].about] = Request[d]

IInv ==
    /\ TypeOK
    /\ Hot!HoldsAreCounted
    /\ \A d \in Decisions : RowMatchesHold(d) /\ RowMatchesHotTier(d)
    /\ SignedRows
    /\ OneRowPerKey
    /\ CallsAgree
    /\ RequestsAgree
    /\ AllowsAgree
    /\ SettledWasPaid

\* No row exists and no request runs at first.
LEMMA InitIInv == Init => IInv
<1> SUFFICES ASSUME Init PROVE IInv
  OBVIOUS
<1>1. TypeOK
  BY InitTypes
<1>2. Hot!HoldsAreCounted
  BY DEF Init, Hot!Init, Hot!HoldsAreCounted
<1>3. AllowsAgree
  BY DEF Init, AllowsAgree, NoAnswer
<1>4. RequestsAgree
  BY DEF Init, RequestsAgree, Requests
<1>5. \A d \in Decisions : RowMatchesHold(d) /\ RowMatchesHotTier(d)
  BY DEF Init, Hot!Init, RowMatchesHold, RowMatchesHotTier, InFlight, Closed
<1>6. SignedRows /\ OneRowPerKey
  BY DEF Init, SignedRows, OneRowPerKey
<1>7. CallsAgree
  BY DEF Init, Hot!Init, CallsAgree
<1>8. SettledWasPaid
  BY DEF Init, SettledWasPaid
<1> QED
  BY <1>1, <1>2, <1>3, <1>4, <1>5, <1>6, <1>7, <1>8 DEF IInv

-----------------------------------------------------------------------------
(* Every step preserves it *)

\* A release touches the hold of one decision, in one store, and only when the decision has
\* no row or is closed: no other hold moves and the holds still agree with the rows.
LEMMA ReleaseKeepsAgreement ==
    ASSUME IInv, NEW d \in Decisions, NEW s, ReleaseIn(s, d), UNCHANGED status,
           status[d] \in Closed \cup {"none"}
    PROVE  /\ Hot!HoldsAreCounted'
           /\ \A e \in Decisions : RowMatchesHold(e)' /\ RowMatchesHotTier(e)'
           /\ counted' \subseteq counted
           /\ \A e \in Decisions \ {d} : e \in reservedHolds => e \in reservedHolds'
<1> USE DEF IInv, TypeOK, Hot!TypeOK, Hot!HoldsAreCounted, RowMatchesHold, RowMatchesHotTier,
            InFlight, Closed
<1>1. CASE s = "redis" /\ d \in counted \ settledHolds
  BY <1>1 DEF ReleaseIn, Hot!ReleaseHold
<1>2. CASE s = "redis" /\ d \notin counted \ settledHolds
  BY <1>2 DEF ReleaseIn, hotVars
<1>3. CASE s # "redis"
  BY <1>3 DEF ReleaseIn, hotVars
<1> QED
  BY <1>1, <1>2, <1>3

\* A settlement touches the hold of one settled decision, in one store.
LEMMA SettleKeepsAgreement ==
    ASSUME IInv, NEW d \in Decisions, NEW s, SettleIn(s, d), UNCHANGED status,
           status[d] = "SETTLED"
    PROVE  /\ Hot!HoldsAreCounted'
           /\ \A e \in Decisions : RowMatchesHold(e)' /\ RowMatchesHotTier(e)'
           /\ counted' = counted
           /\ \A e \in Decisions \ {d} : e \in reservedHolds => e \in reservedHolds'
<1> USE DEF IInv, TypeOK, Hot!TypeOK, Hot!HoldsAreCounted, RowMatchesHold, RowMatchesHotTier,
            InFlight, Closed
<1>1. CASE s = "redis" /\ d \in reservedHolds
  BY <1>1 DEF SettleIn, Hot!SettleHold
<1>2. CASE s = "redis" /\ d \notin reservedHolds
  BY <1>2 DEF SettleIn, hotVars
<1>3. CASE s # "redis"
  BY <1>3 DEF SettleIn, hotVars
<1> QED
  BY <1>1, <1>2, <1>3

\* What IInv says of the stores, and what the requests and the answers say of them.
StoresAgree ==
    /\ Hot!HoldsAreCounted
    /\ \A d \in Decisions : RowMatchesHold(d) /\ RowMatchesHotTier(d)
    /\ SignedRows
    /\ OneRowPerKey

\* They agree as long as rows, holds and signatures stay what they are.
LEMMA StoresUntouched ==
    ASSUME StoresAgree, UNCHANGED <<pgVars, hotVars>>
    PROVE  StoresAgree'
BY DEF StoresAgree, pgVars, hotVars, Hot!HoldsAreCounted, RowMatchesHold, RowMatchesHotTier,
       SignedRows, OneRowPerKey

\* A step of an authorize call.
LEMMA CallIInv ==
    ASSUME IInv, TypeOK', NEW d \in Decisions,
           AcquireLock(d) \/ CallStep(d) \/ Throw(d) \/ HaltCall(d) \/ Redeem(d)
    PROVE  IInv'
<1> USE DEF TypeOK, Goto, Say, Answer, pgVars, switches, requestVars
<1>0. StoresAgree
  BY DEF IInv, StoresAgree
<1>1. ASSUME UNCHANGED <<pgVars, hotVars, paid, requestVars>>, CallsAgree', AllowsAgree'
      PROVE  IInv'
  <2>1. StoresAgree'
    BY <1>0, <1>1, StoresUntouched
  <2>2. RequestsAgree' /\ SettledWasPaid'
    BY <1>1 DEF IInv, RequestsAgree, SettledWasPaid
  <2> QED
    BY <1>1, <2>1, <2>2 DEF IInv, StoresAgree
<1>2. ASSUME NEW e \in Stored(d), answer' = [answer EXCEPT ![d] = Replay(d, e)],
             UNCHANGED signed
      PROVE  AllowsAgree'
  BY <1>2 DEF IInv, AllowsAgree, Stored, Replay, SameRequest
<1>3. ASSUME NEW v \in {"DENY", "ERROR", "CONFLICT", "IN_PROGRESS"},
             answer' = [answer EXCEPT ![d] = Answer(v, d)], signed \subseteq signed'
      PROVE  AllowsAgree'
  BY <1>3 DEF IInv, AllowsAgree
<1>4. ASSUME UNCHANGED answer, signed \subseteq signed' PROVE AllowsAgree'
  BY <1>4 DEF IInv, AllowsAgree
<1> USE DEF IInv
<1>5. CASE AcquireLock(d)
  <2>1. CallsAgree'
    BY <1>5 DEF AcquireLock, CallsAgree, hotVars, Rowless, Holdless
  <2> QED
    BY <1>5, <2>1, <1>1, <1>4 DEF AcquireLock
<1>6. CASE ReadContended(d)
  <2>1. CallsAgree'
    BY <1>6 DEF ReadContended, CallsAgree, hotVars, Rowless, Holdless
  <2>2. AllowsAgree'
    BY <1>6, <1>2, <1>4 DEF ReadContended
  <2> QED
    BY <1>6, <2>1, <2>2, <1>1 DEF ReadContended
<1>7. CASE ReadLock(d)
  <2>1. CallsAgree'
    BY <1>7 DEF ReadLock, CallsAgree, hotVars, Rowless, Holdless
  <2>2. AllowsAgree'
    BY <1>7, <1>3 DEF ReadLock
  <2> QED
    BY <1>7, <2>1, <2>2, <1>1 DEF ReadLock
<1>8. CASE ReadExisting(d)
  <2>1. CallsAgree'
    BY <1>8 DEF ReadExisting, CallsAgree, hotVars, Rowless, Holdless
  <2>2. AllowsAgree'
    BY <1>8, <1>2, <1>4 DEF ReadExisting
  <2> QED
    BY <1>8, <2>1, <2>2, <1>1 DEF ReadExisting
<1>9. CASE Evaluate(d)
  <2>1. CallsAgree'
    BY <1>9 DEF Evaluate, CallsAgree, hotVars, Rowless, Holdless
  <2> QED
    BY <1>9, <2>1, <1>1, <1>4 DEF Evaluate
<1>10. CASE PersistDeny(d)
  <2>1. StoresAgree'
    BY <1>10 DEF PersistDeny, StoresAgree, hotVars, Hot!HoldsAreCounted, RowMatchesHold,
                 RowMatchesHotTier, SignedRows, OneRowPerKey, Stored, CallsAgree, Rowless,
                 InFlight, Closed
  <2>2. CallsAgree'
    BY <1>10 DEF PersistDeny, CallsAgree, hotVars, Rowless, Holdless, Closed
  <2>3. AllowsAgree'
    BY <1>10, <1>3 DEF PersistDeny
  <2>4. RequestsAgree' /\ SettledWasPaid'
    BY <1>10 DEF PersistDeny, RequestsAgree, SettledWasPaid, CallsAgree, Rowless, Closed
  <2> QED
    BY <2>1, <2>2, <2>3, <2>4 DEF StoresAgree
<1>11. CASE Reserve(d)
  <2>1. PICK t \in 0 .. hour :
           \/ Hot!ReserveHoldWithinPolicy(d, t) /\ Goto(d, "insert")
           \/ UNCHANGED hotVars /\ (Goto(d, "unlock") \/ Goto(d, "persistDeny"))
              /\ (d \in counted => call' = [call EXCEPT ![d] = "unlock"])
    BY <1>11 DEF Reserve, Hot!ReserveResult
  <2>2. StoresAgree'
    <3>1. CASE UNCHANGED hotVars
      BY <1>0, <1>11, <3>1, StoresUntouched DEF Reserve
    <3>2. CASE Hot!ReserveHoldWithinPolicy(d, t)
      <4>1. d \notin counted /\ d \notin settledHolds
        BY <3>2 DEF Hot!ReserveHoldWithinPolicy, Hot!ReserveResult, Hot!HoldsAreCounted
      <4>2. Hot!HoldsAreCounted' /\ \A e \in Decisions : RowMatchesHotTier(e)'
        BY <1>11, <3>2, <4>1
           DEF Reserve, Hot!ReserveHoldWithinPolicy, Hot!HoldsAreCounted, RowMatchesHotTier
      <4> QED
        BY <1>11, <4>2 DEF Reserve, StoresAgree, RowMatchesHold, SignedRows, OneRowPerKey
    <3> QED
      BY <2>1, <3>1, <3>2
  <2>3. CallsAgree'
    BY <1>11, <2>1
       DEF Reserve, Hot!ReserveHoldWithinPolicy, hotVars, CallsAgree, Rowless, Holdless
  <2>4. AllowsAgree'
    BY <1>11, <1>3, <1>4 DEF Reserve
  <2>5. RequestsAgree' /\ SettledWasPaid'
    BY <1>11 DEF Reserve, RequestsAgree, SettledWasPaid
  <2> QED
    BY <2>2, <2>3, <2>4, <2>5 DEF StoresAgree
<1>12. CASE Insert(d)
  <2>1. StoresAgree'
    BY <1>12 DEF Insert, StoresAgree, hotVars, Hot!HoldsAreCounted, RowMatchesHold,
                 RowMatchesHotTier, SignedRows, OneRowPerKey, Stored, CallsAgree, Rowless,
                 InFlight, Closed
  <2>2. CallsAgree'
    BY <1>12 DEF Insert, CallsAgree, hotVars, Rowless, Holdless, Closed
  <2>3. AllowsAgree'
    BY <1>12, <1>4 DEF Insert
  <2>4. status[d] = "none" /\ \A e \in Decisions : e # d => status'[e] = status[e]
    BY <1>12 DEF Insert, CallsAgree, Rowless
  <2>5. RequestsAgree'
    BY <1>12, <2>4 DEF Insert, RequestsAgree, Closed
  <2>6. SettledWasPaid'
    BY <1>12, <2>4 DEF Insert, SettledWasPaid
  <2> QED
    BY <2>1, <2>2, <2>3, <2>5, <2>6 DEF StoresAgree
<1>13. CASE UndoReserve(d)
  <2>0. status[d] = "none" /\ ReleaseIn("redis", d) /\ UNCHANGED status
    BY <1>13 DEF UndoReserve, CallsAgree, Rowless
  <2>1. StoresAgree' /\ counted' \subseteq counted
           /\ \A e \in Decisions \ {d} : e \in reservedHolds => e \in reservedHolds'
    BY <1>13, <2>0, ReleaseKeepsAgreement
       DEF UndoReserve, StoresAgree, SignedRows, OneRowPerKey
  <2>2. CallsAgree'
    BY <1>13, <2>1 DEF UndoReserve, CallsAgree, Rowless, Holdless
  <2>3. AllowsAgree'
    BY <1>13, <1>4 DEF UndoReserve
  <2>4. RequestsAgree' /\ SettledWasPaid'
    BY <1>13 DEF UndoReserve, RequestsAgree, SettledWasPaid
  <2> QED
    BY <2>1, <2>2, <2>3, <2>4 DEF StoresAgree
<1>14. CASE ReplayWinner(d)
  <2>1. CallsAgree'
    BY <1>14 DEF ReplayWinner, CallsAgree, hotVars, Rowless, Holdless
  <2>2. AllowsAgree'
    BY <1>14, <1>2 DEF ReplayWinner
  <2> QED
    BY <1>14, <2>1, <2>2, <1>1 DEF ReplayWinner
<1>15. CASE CheckOrg(d) \/ CheckAgent(d) \/ Sign(d)
  <2>1. CallsAgree'
    BY <1>15 DEF CheckOrg, CheckAgent, Sign, CallsAgree, hotVars, Rowless, Holdless
  <2>2. AllowsAgree'
    BY <1>15, <1>3, <1>4 DEF CheckOrg, CheckAgent, Sign
  <2> QED
    BY <1>15, <2>1, <2>2, <1>1 DEF CheckOrg, CheckAgent, Sign
<1>16. CASE MarkSigned(d)
  <2>1. StoresAgree'
    <3>1. Hot!HoldsAreCounted' /\ \A e \in Decisions : RowMatchesHold(e)'
      BY <1>16 DEF MarkSigned, hotVars, Hot!HoldsAreCounted, RowMatchesHold, InFlight, Closed
    <3>2. \A e \in Decisions : RowMatchesHotTier(e)'
      BY <1>16 DEF MarkSigned, hotVars, RowMatchesHotTier, InFlight, Closed
    <3>3. SignedRows'
      BY <1>16 DEF MarkSigned, SignedRows
    <3>4. OneRowPerKey'
      BY <1>16 DEF MarkSigned, OneRowPerKey
    <3> QED
      BY <3>1, <3>2, <3>3, <3>4 DEF StoresAgree
  <2>2. CallsAgree'
    BY <1>16 DEF MarkSigned, CallsAgree, hotVars, Rowless, Holdless, Closed
  <2>3. AllowsAgree'
    BY <1>16, <1>3 DEF MarkSigned, AllowsAgree
  <2>4. RequestsAgree' /\ SettledWasPaid'
    BY <1>16 DEF MarkSigned, RequestsAgree, SettledWasPaid, Closed
  <2> QED
    BY <2>1, <2>2, <2>3, <2>4 DEF StoresAgree
<1>17. CASE Abort(d)
  <2>1. StoresAgree'
    BY <1>17 DEF Abort, CanClose, StoresAgree, hotVars, Hot!HoldsAreCounted, RowMatchesHold,
                 RowMatchesHotTier, SignedRows, OneRowPerKey, InFlight, Closed
  <2>2. CallsAgree'
    BY <1>17 DEF Abort, CanClose, CallsAgree, hotVars, Rowless, Holdless, Closed
  <2>3. AllowsAgree'
    BY <1>17, <1>4 DEF Abort
  <2>4. RequestsAgree' /\ SettledWasPaid'
    BY <1>17 DEF Abort, CanClose, RequestsAgree, SettledWasPaid, Closed
  <2> QED
    BY <2>1, <2>2, <2>3, <2>4 DEF StoresAgree
<1>18. CASE ReleaseAborted(d)
  <2>0. PICK s \in todo[d] : ReleaseIn(s, d)
    BY <1>18 DEF ReleaseAborted
  <2>1. status[d] \in Closed /\ UNCHANGED status
    BY <1>18 DEF ReleaseAborted, CallsAgree
  <2>2. StoresAgree' /\ counted' \subseteq counted
           /\ \A e \in Decisions \ {d} : e \in reservedHolds => e \in reservedHolds'
    BY <1>18, <2>0, <2>1, ReleaseKeepsAgreement
       DEF ReleaseAborted, StoresAgree, SignedRows, OneRowPerKey
  <2>3. CallsAgree'
    BY <1>18, <2>1, <2>2 DEF ReleaseAborted, CallsAgree, Rowless, Holdless, Closed
  <2>4. AllowsAgree'
    BY <1>18, <1>4 DEF ReleaseAborted
  <2>5. RequestsAgree' /\ SettledWasPaid'
    BY <1>18 DEF ReleaseAborted, RequestsAgree, SettledWasPaid
  <2> QED
    BY <2>2, <2>3, <2>4, <2>5 DEF StoresAgree
<1>19. CASE CheckLock(d) \/ DelLock(d)
  <2>1. CallsAgree'
    BY <1>19 DEF CheckLock, DelLock, CallsAgree, hotVars, Rowless, Holdless
  <2> QED
    BY <1>19, <2>1, <1>1, <1>4 DEF CheckLock, DelLock
<1>20. CASE Throw(d)
  <2>1. CallsAgree'
    BY <1>20 DEF Throw, AfterThrow, CallsAgree, hotVars, Rowless, Holdless
  <2>2. AllowsAgree'
    BY <1>20, <1>3 DEF Throw
  <2> QED
    BY <1>20, <2>1, <2>2, <1>1 DEF Throw
<1>21. CASE HaltCall(d)
  <2>1. CallsAgree'
    BY <1>21 DEF HaltCall, CallsAgree, hotVars, Rowless, Holdless
  <2> QED
    BY <1>21, <2>1, <1>1, <1>4 DEF HaltCall
<1>22. CASE Redeem(d)
  <2>1. StoresAgree'
    BY <1>0, <1>22, StoresUntouched DEF Redeem
  <2>2. CallsAgree'
    BY <1>22 DEF Redeem, callVars, hotVars, CallsAgree
  <2>3. AllowsAgree'
    BY <1>22, <1>4 DEF Redeem, callVars
  <2>4. SettledWasPaid' /\ RequestsAgree'
    BY <1>22 DEF Redeem, SettledWasPaid, RequestsAgree, AllowsAgree
  <2> QED
    BY <2>1, <2>2, <2>3, <2>4 DEF StoresAgree
<1> QED
  BY <1>5, <1>6, <1>7, <1>8, <1>9, <1>10, <1>11, <1>12, <1>13, <1>14, <1>15, <1>16, <1>17,
     <1>18, <1>19, <1>20, <1>21, <1>22 DEF CallStep

\* A step of a reconcile.
LEMMA ReconcileIInv ==
    ASSUME IInv, TypeOK', NEW w \in Workers,
           ReconcileStep(w) \/ \E d \in Decisions : ReadDecision(w, d)
    PROVE  IInv'
<1> DEFINE d == target[w]
<1> USE GuardAssumption DEF TypeOK, Move, Finish, Requests, pgVars, switches, callVars
<1>0. StoresAgree
  BY DEF IInv, StoresAgree
<1>1. ASSUME StoresAgree', RequestsAgree', SettledWasPaid', UNCHANGED <<call, answer, signed>>,
             counted' \subseteq counted,
             \A e \in Decisions : e \in reservedHolds /\ status[e] = "none" => e \in reservedHolds',
             \A e \in Decisions : status[e] \in {"none"} \cup Closed => status'[e] = status[e]
      PROVE  IInv'
  <2>1. CallsAgree'
    BY <1>1 DEF IInv, CallsAgree, Rowless, Holdless, Closed
  <2>2. AllowsAgree'
    BY <1>1 DEF IInv, AllowsAgree
  <2> QED
    BY <1>1, <2>1, <2>2 DEF IInv, StoresAgree
<1>2. ASSUME UNCHANGED <<pgVars, hotVars, callVars, paid>>, RequestsAgree'
      PROVE  IInv'
  <2>1. StoresAgree'
    BY <1>0, <1>2, StoresUntouched
  <2>2. SettledWasPaid'
    BY <1>2 DEF IInv, SettledWasPaid
  <2> QED
    BY <1>1, <1>2, <2>1, <2>2 DEF hotVars
<1> USE DEF IInv
<1>3. CASE Observe(w)
  <2>1. StoresAgree'
    BY <1>0, <1>3, StoresUntouched DEF Observe
  <2>2. d \in signed /\ d \in Decisions
    BY <1>3 DEF Observe, RequestsAgree
  <2>3. \A e \in Decisions : paid'[e] >= paid[e] /\ (paid'[e] > 0 => paid[e] > 0 \/ e = d)
    BY <1>3, <2>2 DEF Observe
  <2>4. SettledWasPaid'
    BY <1>3, <2>2, <2>3 DEF Observe, SettledWasPaid
  <2>5. RequestsAgree'
    BY <1>3, <2>2, <2>3 DEF Observe, RequestsAgree
  <2> QED
    BY <1>1, <1>3, <2>1, <2>4, <2>5 DEF Observe, hotVars
<1>4. CASE MarkSettled(w)
  <2>1. d \in Decisions /\ d \in signed
    BY <1>4 DEF MarkSettled, RequestsAgree
  <2>2. Hot!HoldsAreCounted' /\ \A e \in Decisions : RowMatchesHold(e)' /\ RowMatchesHotTier(e)'
    BY <1>4, <2>1 DEF MarkSettled, hotVars, Hot!HoldsAreCounted, RowMatchesHold,
                      RowMatchesHotTier, InFlight, Closed
  <2>3. /\ signed' = signed
        /\ \A e \in Decisions : status'[e] = status[e] \/ (e = d /\ status'[e] = "SETTLED")
        /\ status'[d] # status[d] => status[d] # "none"
    BY <1>4, <2>1 DEF MarkSettled
  <2>4. SettledWasPaid'
    BY <1>4, <2>1 DEF MarkSettled, SettledWasPaid, RequestsAgree
  <2>5. RequestsAgree'
    <3>1. /\ UNCHANGED paid
          /\ \A p \in Requests \ {w} : at'[p] = at[p] /\ target'[p] = target[p]
          /\ \/ at'[w] = "settle" /\ target'[w] = d /\ status'[d] = "SETTLED"
             \/ at'[w] = "idle"
          /\ \A e \in Decisions : status[e] \in Closed => status'[e] = status[e]
      BY <1>4, <2>1 DEF MarkSettled, Closed
    <3>2. RequestsAgree /\ Workers \subseteq Requests
      OBVIOUS
    <3> HIDE DEF IInv, TypeOK, Requests
    <3>3. ASSUME NEW v \in Workers \ {w}
          PROVE  /\ at'[v] # "idle" => target'[v] \in signed'
                 /\ at'[v] \in {"settle", "repair"} => status'[target'[v]] = "SETTLED"
                 /\ at'[v] = "markSettled" /\ Kind[target'[v]] # "casper-deploy"
                       => paid'[target'[v]] > 0
      <4>1. at'[v] = at[v] /\ target'[v] = target[v] /\ (at[v] # "idle" => target[v] \in signed)
        BY <3>1, <3>2 DEF RequestsAgree
      <4>2. at[v] \in {"settle", "repair"} => status[target[v]] = "SETTLED"
        BY <3>2 DEF RequestsAgree
      <4>3. at[v] = "markSettled" /\ Kind[target[v]] # "casper-deploy" => paid[target[v]] > 0
        BY <3>2 DEF RequestsAgree
      <4>4. signed \subseteq Decisions
        BY DEF IInv, TypeOK
      <4> QED
        BY <2>3, <3>1, <4>1, <4>2, <4>3, <4>4
    <3>4. ASSUME NEW p \in Requests, at'[p] = "release"
          PROVE  target'[p] \in Decisions /\ status'[target'[p]] \in Closed
      BY <3>1, <3>2, <3>4 DEF RequestsAgree
    <3> QED
      BY <2>1, <2>3, <3>1, <3>3, <3>4 DEF RequestsAgree
  <2>6. SignedRows'
    BY <2>1, <2>3 DEF SignedRows
  <2>7. OneRowPerKey'
    BY <2>1, <2>3 DEF OneRowPerKey
  <2> QED
    BY <1>1, <1>4, <2>2, <2>4, <2>5, <2>6, <2>7 DEF MarkSettled, hotVars, StoresAgree, Closed
<1>5. CASE SettleHolds(w)
  <2>1. d \in Decisions /\ status[d] = "SETTLED"
    BY <1>5 DEF SettleHolds, RequestsAgree
  <2>2. PICK s \in todo[w] : SettleIn(s, d)
    BY <1>5 DEF SettleHolds
  <2>3. StoresAgree' /\ counted' = counted
        /\ \A e \in Decisions \ {d} : e \in reservedHolds => e \in reservedHolds'
    BY <1>5, <2>1, <2>2, SettleKeepsAgreement
       DEF SettleHolds, StoresAgree, SignedRows, OneRowPerKey
  <2>4. RequestsAgree' /\ SettledWasPaid'
    BY <1>5 DEF SettleHolds, RequestsAgree, SettledWasPaid
  <2> QED
    BY <1>1, <1>5, <2>1, <2>3, <2>4 DEF SettleHolds
<1>6. CASE MarkExpiryCheck(w)
  <2>1. d \in Decisions /\ d \in signed
    BY <1>6 DEF MarkExpiryCheck, RequestsAgree
  <2>2. Hot!HoldsAreCounted' /\ \A e \in Decisions : RowMatchesHold(e)' /\ RowMatchesHotTier(e)'
    BY <1>6, <2>1 DEF MarkExpiryCheck, hotVars, Hot!HoldsAreCounted, RowMatchesHold,
                      RowMatchesHotTier, InFlight, Closed
  <2>3. SignedRows' /\ OneRowPerKey'
    BY <1>6, <2>1 DEF MarkExpiryCheck, SignedRows, OneRowPerKey
  <2>4. RequestsAgree' /\ SettledWasPaid'
    BY <1>6, <2>1 DEF MarkExpiryCheck, RequestsAgree, SettledWasPaid, Closed
  <2> QED
    BY <1>1, <1>6, <2>2, <2>3, <2>4 DEF MarkExpiryCheck, hotVars, StoresAgree, Closed
<1>7. CASE ReadForTerminal(w)
  <2>1. RequestsAgree'
    BY <1>7 DEF ReadForTerminal, RequestsAgree
  <2> QED
    BY <1>2, <1>7, <2>1 DEF ReadForTerminal
<1>8. CASE MarkTerminal(w)
  <2>1. d \in Decisions /\ d \in signed
    BY <1>8 DEF MarkTerminal, RequestsAgree
  <2>2. Hot!HoldsAreCounted' /\ \A e \in Decisions : RowMatchesHold(e)' /\ RowMatchesHotTier(e)'
    BY <1>8, <2>1 DEF MarkTerminal, CanClose, hotVars, Hot!HoldsAreCounted, RowMatchesHold,
                      RowMatchesHotTier, InFlight, Closed
  <2>3. SignedRows' /\ OneRowPerKey'
    BY <1>8, <2>1 DEF MarkTerminal, CanClose, SignedRows, OneRowPerKey, Closed
  <2>4. RequestsAgree' /\ SettledWasPaid'
    BY <1>8, <2>1 DEF MarkTerminal, CanClose, RequestsAgree, SettledWasPaid, Closed
  <2> QED
    BY <1>1, <1>8, <2>2, <2>3, <2>4 DEF MarkTerminal, CanClose, hotVars, StoresAgree, Closed
<1>9. CASE ReleaseHolds(w)
  <2>1. d \in Decisions /\ status[d] \in Closed
    BY <1>9 DEF ReleaseHolds, RequestsAgree
  <2>2. PICK s \in todo[w] : ReleaseIn(s, d)
    BY <1>9 DEF ReleaseHolds
  <2>3. StoresAgree' /\ counted' \subseteq counted
        /\ \A e \in Decisions \ {d} : e \in reservedHolds => e \in reservedHolds'
    BY <1>9, <2>1, <2>2, ReleaseKeepsAgreement
       DEF ReleaseHolds, StoresAgree, SignedRows, OneRowPerKey
  <2>4. RequestsAgree' /\ SettledWasPaid'
    BY <1>9 DEF ReleaseHolds, RequestsAgree, SettledWasPaid
  <2> QED
    BY <1>1, <1>9, <2>1, <2>3, <2>4 DEF ReleaseHolds, Closed
<1>10. CASE Reread(w)
  <2>0. /\ UNCHANGED <<signed, status, paid>>
        /\ \/ status[target[w]] = "SETTLED" /\ at' = [at EXCEPT ![w] = "repair"]
              /\ UNCHANGED target
           \/ at' = [at EXCEPT ![w] = "idle"]
              /\ target' = [target EXCEPT ![w] = NoDecision]
    BY <1>10 DEF Reread
  <2>1. RequestsAgree'
    BY <2>0, <1>10 DEF Reread, RequestsAgree
  <2> QED
    BY <1>2, <1>10, <2>1 DEF Reread
<1>11. ASSUME NEW e \in Decisions, ReadDecision(w, e) PROVE IInv'
  <2>1. RequestsAgree'
    BY <1>11 DEF ReadDecision, RequestsAgree, SignedRows
  <2> QED
    BY <1>2, <1>11, <2>1 DEF ReadDecision
<1> QED
  BY <1>3, <1>4, <1>5, <1>6, <1>7, <1>8, <1>9, <1>10, <1>11 DEF ReconcileStep

\* A step of a revoke.
LEMMA RevokeIInv ==
    ASSUME IInv, TypeOK', NEW r \in Revokers, SuspendForRevoke(r) \/ RevokeStep(r)
    PROVE  IInv'
<1> USE GuardAssumption DEF TypeOK, Move, Requests, pgVars, switches, callVars
<1>0. StoresAgree
  BY DEF IInv, StoresAgree
<1>1. ASSUME StoresAgree', RequestsAgree', UNCHANGED <<call, answer, signed, paid>>,
             counted' \subseteq counted,
             \A e \in Decisions : e \in reservedHolds /\ status[e] = "none" => e \in reservedHolds',
             \A e \in Decisions : status[e] \in {"none"} \cup Closed => status'[e] = status[e],
             \A e \in Decisions : status'[e] = "SETTLED" => status[e] = "SETTLED"
      PROVE  IInv'
  <2>0. CallsAgree /\ UNCHANGED call
    BY <1>1 DEF IInv
  <2>1. CallsAgree'
    BY <2>0, <1>1 DEF CallsAgree, Rowless, Holdless
  <2>2. AllowsAgree' /\ SettledWasPaid'
    BY <1>1 DEF IInv, AllowsAgree, SettledWasPaid
  <2> QED
    BY <1>1, <2>1, <2>2 DEF IInv, StoresAgree
<1>2. ASSUME UNCHANGED <<pgVars, hotVars, callVars, paid>>, RequestsAgree'
      PROVE  IInv'
  BY <1>0, <1>1, <1>2, StoresUntouched DEF hotVars
<1> USE DEF IInv
<1>3. CASE SuspendForRevoke(r) \/ ListReserved(r) \/ EndRevoke(r)
  <2>1. RequestsAgree'
    BY <1>3 DEF SuspendForRevoke, ListReserved, EndRevoke, RequestsAgree
  <2> QED
    BY <1>2, <1>3, <2>1 DEF SuspendForRevoke, ListReserved, EndRevoke
<1>4. ASSUME NEW d \in Decisions, AbortListed(r, d) PROVE IInv'
  <2>1. CASE ~ CanClose(d)
    <3>1. RequestsAgree'
      BY <1>4, <2>1 DEF AbortListed, RequestsAgree
    <3> QED
      BY <1>2, <1>4, <2>1, <3>1 DEF AbortListed
  <2>2. CASE CanClose(d)
    <3>1. Hot!HoldsAreCounted'
          /\ \A e \in Decisions : RowMatchesHold(e)' /\ RowMatchesHotTier(e)'
      BY <1>4, <2>2 DEF AbortListed, CanClose, hotVars, Hot!HoldsAreCounted, RowMatchesHold,
                        RowMatchesHotTier, InFlight, Closed
    <3>2. SignedRows' /\ OneRowPerKey'
      BY <1>4, <2>2 DEF AbortListed, CanClose, SignedRows, OneRowPerKey, Closed
    <3>3. RequestsAgree'
      <4>1. /\ at' = [at EXCEPT ![r] = "release"] /\ target' = [target EXCEPT ![r] = d]
            /\ status' = [status EXCEPT ![d] = "FAILED_TERMINAL"]
            /\ UNCHANGED <<signed, paid>> /\ status[d] \notin {"SETTLED"}
        BY <1>4, <2>2 DEF AbortListed, CanClose
      <4>2. ASSUME NEW w \in Workers
            PROVE  /\ w # r /\ at'[w] = at[w] /\ target'[w] = target[w]
                   /\ at[w] \in {"settle", "repair"} => status'[target[w]] = "SETTLED"
        BY <4>1 DEF RequestsAgree
      <4>3. ASSUME NEW p \in Requests, at'[p] = "release"
            PROVE  target'[p] \in Decisions /\ status'[target'[p]] \in Closed
        BY <4>1, <4>3 DEF RequestsAgree, Closed
      <4> QED
        BY <4>1, <4>2, <4>3 DEF RequestsAgree
    <3> QED
      BY <1>1, <1>4, <2>2, <3>1, <3>2, <3>3
         DEF AbortListed, CanClose, hotVars, StoresAgree, Closed
  <2> QED
    BY <2>1, <2>2
<1>5. CASE ReleaseListed(r)
  <2>1. target[r] \in Decisions /\ status[target[r]] \in Closed
    BY <1>5 DEF ReleaseListed, RequestsAgree
  <2>2. PICK s \in todo[r] : ReleaseIn(s, target[r])
    BY <1>5 DEF ReleaseListed
  <2>3. StoresAgree' /\ counted' \subseteq counted
        /\ \A e \in Decisions \ {target[r]} : e \in reservedHolds => e \in reservedHolds'
    BY <1>5, <2>1, <2>2, ReleaseKeepsAgreement
       DEF ReleaseListed, StoresAgree, SignedRows, OneRowPerKey
  <2>4. RequestsAgree'
    BY <1>5 DEF ReleaseListed, RequestsAgree
  <2> QED
    BY <1>1, <1>5, <2>1, <2>3, <2>4 DEF ReleaseListed, Closed
<1> QED
  BY <1>3, <1>4, <1>5 DEF RevokeStep

\* Every step preserves the inductive invariant.
LEMMA IInvStep == IInv /\ [Next]_vars => IInv'
<1> SUFFICES ASSUME IInv, [Next]_vars PROVE IInv'
  OBVIOUS
<1>0. TypeOK' /\ TypeOK
  BY TypeStep DEF IInv
<1>1. ASSUME NEW d \in Decisions,
             AcquireLock(d) \/ CallStep(d) \/ Throw(d) \/ HaltCall(d) \/ Redeem(d)
      PROVE  IInv'
  BY <1>0, <1>1, CallIInv
<1>2. ASSUME NEW w \in Workers, ReconcileStep(w) \/ \E d \in Decisions : ReadDecision(w, d)
      PROVE  IInv'
  BY <1>0, <1>2, ReconcileIInv
<1>3. ASSUME NEW r \in Revokers, SuspendForRevoke(r) \/ RevokeStep(r) PROVE IInv'
  BY <1>0, <1>3, RevokeIInv
<1>4. ASSUME UNCHANGED <<pgVars, counted, reservedHolds, settledHolds, callVars, paid>>,
             RequestsAgree'
      PROVE  IInv'
  BY <1>0, <1>4
     DEF IInv, pgVars, callVars, Hot!HoldsAreCounted, RowMatchesHold, RowMatchesHotTier,
         SignedRows, OneRowPerKey, CallsAgree, AllowsAgree, SettledWasPaid
<1>5. ASSUME NEW p \in Requests, HaltRequest(p) PROVE IInv'
  <2>1. RequestsAgree'
    BY <1>0, <1>5 DEF HaltRequest, Finish, Move, pgVars, IInv, RequestsAgree, TypeOK, Requests
  <2> QED
    BY <1>4, <1>5, <2>1 DEF HaltRequest, hotVars
<1>6. ASSUME NEW on \in BOOLEAN, SetKillSwitch(on) \/ SetSuspended(on) PROVE IInv'
  BY <1>4, <1>6
     DEF SetKillSwitch, SetSuspended, hotVars, pgVars, requestVars, IInv, RequestsAgree
<1>7. ASSUME NEW k \in Keys, LockExpires(k) PROVE IInv'
  BY <1>4, <1>7 DEF LockExpires, hotVars, pgVars, requestVars, IInv, RequestsAgree
<1>8. CASE HotEnvironment
  BY <1>4, <1>8, HotEnvironmentKeepsHolds
     DEF HotEnvironment, pgVars, requestVars, IInv, RequestsAgree
<1>9. CASE UNCHANGED vars
  BY <1>4, <1>9 DEF vars, hotVars, pgVars, callVars, IInv, RequestsAgree
<1> QED
  BY <1>1, <1>2, <1>3, <1>5, <1>6, <1>7, <1>8, <1>9 DEF Next

-----------------------------------------------------------------------------
(* What a payment may rely on *)

\* In every behaviour the decisions, the holds of both stores, the requests and the answers
\* agree with one another.
THEOREM Invariance == Spec => []IInv
BY InitIInv, IInvStep, PTL DEF Spec

\* A decision that may still be paid is held in both stores, whatever crashes, races or
\* refused commands surround it.
THEOREM HeldWhileInFlight == Spec => []InFlightIsHeld
<1>1. IInv => InFlightIsHeld
  BY DEF IInv, InFlightIsHeld, RowMatchesHold, RowMatchesHotTier
<1> QED
  BY <1>1, Invariance, PTL

\* No hold is settled for a closed decision or released for a settled one, in either store.
THEOREM SettleExcludesRelease == Spec => []NeverSettledAndReleased
<1>1. IInv => NeverSettledAndReleased
  BY DEF IInv, NeverSettledAndReleased, RowMatchesHold, RowMatchesHotTier, Closed
<1> QED
  BY <1>1, Invariance, PTL

\* All ALLOW answers of one key name one decision and stem from one request, however many
\* calls overlap and whether or not the lock outlives them: the unique index alone does it.
THEOREM OneAllow == Spec => []OneAllowPerKey
<1>1. IInv => OneAllowPerKey
  <2> SUFFICES ASSUME IInv, NEW d \in Decisions, NEW e \in Decisions,
                      answer[d].verdict = "ALLOW", answer[e].verdict = "ALLOW",
                      KeyOf[d] = KeyOf[e]
               PROVE  answer[d].about = answer[e].about /\ Request[d] = Request[e]
    BY DEF OneAllowPerKey
  <2> DEFINE f == answer[d].about  g == answer[e].about
  <2>1. f \in signed /\ KeyOf[f] = KeyOf[d] /\ Request[f] = Request[d]
    BY DEF IInv, AllowsAgree
  <2>2. g \in signed /\ KeyOf[g] = KeyOf[e] /\ Request[g] = Request[e]
    BY DEF IInv, AllowsAgree
  <2>3. /\ f \in Decisions /\ g \in Decisions /\ KeyOf[f] = KeyOf[g]
        /\ status[f] # "none" /\ status[g] # "none"
    BY <2>1, <2>2 DEF IInv, TypeOK, SignedRows
  <2>4. f = g
    BY <2>3 DEF IInv, OneRowPerKey
  <2> QED
    BY <2>1, <2>2, <2>4
<1> QED
  BY <1>1, Invariance, PTL

\* A decision that its own reader settled has moved money, and money moves for no decision
\* that is not signed.
THEOREM SettlementsArePaid == Spec => []SettledWasPaid
<1>1. IInv => SettledWasPaid
  BY DEF IInv
<1> QED
  BY <1>1, Invariance, PTL

-----------------------------------------------------------------------------
(* The cap, across the two stores *)

\* The payments that Redis counts in the window of instant t.
CountedIn(t) == {d \in counted : Hot!WindowStart(score[d]) = Hot!WindowStart(t)}

\* The cap of every window, of those the clock has not reached included.
CapAlways == \A t \in Nat : Total[CountedIn(t)] <= SpendCap

\* Adding up fewer decisions never gives more.
LEMMA TotalMonotone ==
    ASSUME NEW S \in SUBSET Decisions, NEW T \in SUBSET Decisions, S \subseteq T
    PROVE  Total[S] <= Total[T]
<1>1. T = S \cup (T \ S) /\ S \cap (T \ S) = {}
  OBVIOUS
<1>2. Total[T] = Total[S] + Total[T \ S]
  BY <1>1, HotTierAssumption
<1>3. Total[S] \in Nat /\ Total[T \ S] \in Nat
  BY HotTierAssumption
<1> QED
  BY <1>2, <1>3

\* The reserving script counts a payment only into a window that has room for it.
LEMMA ReserveKeepsCap ==
    ASSUME Hot!TypeOK, CapAlways, NEW d \in Decisions, NEW t \in 0 .. hour,
           Hot!ReserveHoldWithinPolicy(d, t)
    PROVE  CapAlways'
<1> USE DEF Hot!TypeOK
<1>1. /\ d \notin counted /\ counted' = counted \cup {d}
      /\ score' = [score EXCEPT ![d] = t] /\ t \in Nat
  BY DEF Hot!ReserveHoldWithinPolicy, Hot!ReserveResult
<1>2. \A e \in counted : e # d /\ score'[e] = score[e]
  BY <1>1
<1>3. score'[d] = t
  BY <1>1
<1>4. Hot!WindowSum(t) + Amount[d] <= SpendCap
  <2>1. Hot!WindowSum(t) \in Nat /\ Amount[d] \in Nat
    BY HotTierAssumption DEF Hot!WindowSum
  <2>2. ~ (Hot!WindowSum(t) + Amount[d] > SpendCap)
    BY DEF Hot!ReserveHoldWithinPolicy, Hot!ReserveResult
  <2> QED
    BY <2>1, <2>2, HotTierAssumption
<1> SUFFICES ASSUME NEW u \in Nat PROVE Total[CountedIn(u)'] <= SpendCap
  BY DEF CapAlways, CountedIn
<1>5. CASE Hot!WindowStart(t) = Hot!WindowStart(u)
  <2> DEFINE From == {e \in counted : score[e] >= Hot!WindowStart(t)}
  <2>1. CountedIn(u)' = CountedIn(u) \cup {d} /\ CountedIn(u) \cap {d} = {}
    BY <1>1, <1>2, <1>3, <1>5 DEF CountedIn, Hot!WindowStart
  <2>2. CountedIn(u) \subseteq From
    <3>1. \A e \in counted : Hot!WindowStart(score[e]) <= score[e]
      BY HotTierAssumption DEF Hot!WindowStart
    <3> QED
      BY <3>1, <1>5 DEF CountedIn
  <2>3. CountedIn(u) \in SUBSET Decisions /\ From \in SUBSET Decisions
    BY DEF CountedIn
  <2>4. Total[CountedIn(u)] <= Hot!WindowSum(t)
    BY <2>2, <2>3, TotalMonotone DEF Hot!WindowSum
  <2>5. Total[CountedIn(u)'] = Total[CountedIn(u)] + Amount[d]
    <3>1. CountedIn(u) \in SUBSET Decisions /\ {d} \in SUBSET Decisions
      BY <2>3
    <3>2. Total[CountedIn(u) \cup {d}] = Total[CountedIn(u)] + Total[{d}]
      BY <3>1, <2>1, HotTierAssumption
    <3>3. Total[{d}] = Amount[d]
      BY HotTierAssumption
    <3> QED
      BY <2>1, <3>2, <3>3
  <2>6. Total[CountedIn(u)] \in Nat /\ Amount[d] \in Nat /\ Hot!WindowSum(t) \in Nat
    BY <2>3, HotTierAssumption DEF Hot!WindowSum
  <2> QED
    BY <2>4, <2>5, <2>6, <1>4, HotTierAssumption
<1>6. CASE Hot!WindowStart(t) # Hot!WindowStart(u)
  <2>1. CountedIn(u)' = CountedIn(u)
    BY <1>1, <1>2, <1>3, <1>6 DEF CountedIn, Hot!WindowStart
  <2> QED
    BY <2>1 DEF CapAlways
<1> QED
  BY <1>5, <1>6

\* No script takes a window over the cap.
LEMMA CapStep ==
    ASSUME Hot!TypeOK, CapAlways, [Hot!Next]_hotVars
    PROVE  CapAlways'
<1>1. ASSUME NEW d \in Decisions, NEW t \in 0 .. hour, Hot!ReserveHoldWithinPolicy(d, t)
      PROVE  CapAlways'
  BY <1>1, ReserveKeepsCap
<1>2. ASSUME NEW d \in Decisions, Hot!ReleaseHold(d) PROVE CapAlways'
  <2> SUFFICES ASSUME NEW u \in Nat PROVE Total[CountedIn(u)'] <= SpendCap
    BY DEF CapAlways, CountedIn
  <2>1. counted' \subseteq counted /\ \A e \in counted' : score'[e] = score[e]
    BY <1>2 DEF Hot!ReleaseHold, Hot!TypeOK
  <2>2. CountedIn(u)' \subseteq CountedIn(u)
    BY <2>1 DEF CountedIn, Hot!WindowStart
  <2>3. CountedIn(u)' \in SUBSET Decisions /\ CountedIn(u) \in SUBSET Decisions
    BY <2>2 DEF CountedIn, Hot!TypeOK
  <2>4. Total[CountedIn(u)'] <= Total[CountedIn(u)]
    BY <2>2, <2>3, TotalMonotone
  <2>5. Total[CountedIn(u)'] \in Nat /\ Total[CountedIn(u)] \in Nat
    BY <2>3, HotTierAssumption
  <2> QED
    BY <2>4, <2>5, HotTierAssumption DEF CapAlways
<1>3. ASSUME UNCHANGED <<counted, score>> PROVE CapAlways'
  BY <1>3 DEF CapAlways, CountedIn, Hot!WindowStart
<1>4. ASSUME NEW d \in Decisions, Hot!SettleHold(d) PROVE CapAlways'
  BY <1>3, <1>4 DEF Hot!SettleHold
<1>5. ASSUME \/ Hot!Tick \/ \E n \in 1 .. MaxFloat : Hot!ConfirmFloat(n)
             \/ \E t \in Teardowns : Hot!ReadFloat(t) \/ Hot!DecrFloat(t)
             \/ UNCHANGED hotVars
      PROVE  CapAlways'
  BY <1>3, <1>5 DEF Hot!Tick, Hot!ConfirmFloat, Hot!ReadFloat, Hot!DecrFloat, Hot!holdVars,
                    hotVars
<1> QED
  BY <1>1, <1>2, <1>4, <1>5 DEF Hot!Next

\* The decisions that Postgres lets be paid, or records as paid, in a spend window stay within
\* the cap, for every number of calls, crashes, refused commands and teardowns: Redis, which
\* alone checks the cap, counts each of them, in the window it was reserved in.
THEOREM CapHoldsAcrossStores == Spec => []SpendWithinCap
<1>1. Init => CapAlways
  <2> SUFFICES ASSUME Init PROVE CapAlways
    OBVIOUS
  <2>1. \A t : CountedIn(t) = {}
    BY DEF Init, Hot!Init, CountedIn
  <2> QED
    BY <2>1, HotTierAssumption DEF CapAlways
<1>2. IInv /\ CapAlways /\ [Next]_vars => CapAlways'
  BY HotStep, CapStep DEF IInv, TypeOK
<1>3. IInv /\ CapAlways => SpendWithinCap
  <2> SUFFICES ASSUME IInv, CapAlways, NEW t \in 0 .. hour
               PROVE  Total[{d \in Decisions :
                                /\ status[d] \in InFlight \cup {"SETTLED"}
                                /\ Hot!WindowStart(score[d]) = Hot!WindowStart(t)}]
                          <= SpendCap
    BY DEF SpendWithinCap
  <2> DEFINE Spent == {d \in Decisions :
                          /\ status[d] \in InFlight \cup {"SETTLED"}
                          /\ Hot!WindowStart(score[d]) = Hot!WindowStart(t)}
  <2>1. Spent \subseteq CountedIn(t)
    BY DEF IInv, RowMatchesHotTier, Hot!HoldsAreCounted, CountedIn
  <2>2. Spent \in SUBSET Decisions /\ CountedIn(t) \in SUBSET Decisions /\ t \in Nat
    BY DEF CountedIn, IInv, TypeOK, Hot!TypeOK
  <2>3. Total[Spent] <= Total[CountedIn(t)] /\ Total[CountedIn(t)] <= SpendCap
    BY <2>1, <2>2, TotalMonotone DEF CapAlways
  <2>4. Total[Spent] \in Nat /\ Total[CountedIn(t)] \in Nat
    BY <2>2, HotTierAssumption
  <2> QED
    BY <2>3, <2>4, HotTierAssumption
<1> QED
  BY <1>1, <1>2, <1>3, Invariance, PTL DEF Spec

-----------------------------------------------------------------------------
(* The refinement *)

\* The stage an agent sees of a row with this status.
StageOfStatus(st) ==
    CASE st = "none" -> "new"
      [] st = "DENIED" -> "refused"
      [] st = "RESERVED" -> "promised"
      [] st \in {"SIGNED", "EXPIRY_CHECK"} -> "committed"
      [] st = "SETTLED" -> "paid"
      [] st \in Closed -> "closed"

\* Writing one row moves one payment to the stage of its new status.
LEMMA StageMoves ==
    ASSUME TypeOK, NEW d \in Decisions, NEW st, status' = [status EXCEPT ![d] = st]
    PROVE  /\ StageOf[d] = StageOfStatus(status[d])
           /\ StageOf' = [StageOf EXCEPT ![d] = StageOfStatus(st)]
<1>1. \A e \in Decisions : StageOf[e] = StageOfStatus(status[e])
  BY DEF StageOf, StageOfStatus
<1>2. \A e \in Decisions : StageOf'[e] = StageOfStatus(status'[e])
  BY DEF StageOf, StageOfStatus
<1>3. /\ StageOf' = [e \in Decisions |-> StageOfStatus(status'[e])]
      /\ StageOf = [e \in Decisions |-> StageOfStatus(status[e])]
  BY DEF StageOf, StageOfStatus
<1>4. \A e \in Decisions : status'[e] = IF e = d THEN st ELSE status[e]
  BY DEF TypeOK
<1> QED
  BY <1>1, <1>2, <1>3, <1>4

\* The mapping of a step that changes no row and no counted hold.
LEMMA LifecycleStutter ==
    ASSUME UNCHANGED <<status, counted>>
    PROVE  UNCHANGED Lifecycle!vars
BY DEF Lifecycle!vars, StageOf

\* A release drops a payment from the budget that was never promised or that is closed.
LEMMA ReleaseForgets ==
    ASSUME TypeOK, NEW d \in Decisions, NEW s, ReleaseIn(s, d), UNCHANGED status,
           status[d] \in Closed \cup {"none"}
    PROVE  [Lifecycle!Next]_(Lifecycle!vars)
<1>1. UNCHANGED StageOf
  BY DEF StageOf
<1>2. StageOf[d] \in {"new", "closed"}
  BY DEF StageOf, Closed
<1>3. CASE s = "redis" /\ d \in counted \ settledHolds
  <2>1. Lifecycle!Forget(d)
    BY <1>1, <1>2, <1>3 DEF ReleaseIn, Hot!ReleaseHold, Lifecycle!Forget
  <2> QED
    BY <2>1 DEF Lifecycle!Next
<1>4. CASE ~ (s = "redis" /\ d \in counted \ settledHolds)
  BY <1>1, <1>4 DEF ReleaseIn, hotVars, Lifecycle!vars
<1> QED
  BY <1>3, <1>4

\* Closing a row closes the payment, which was promised or committed.
LEMMA CloseCloses ==
    ASSUME IInv, NEW d \in Decisions, CanClose(d), NEW st \in Closed,
           status' = [status EXCEPT ![d] = st], UNCHANGED counted
    PROVE  Lifecycle!Next
<1>1. /\ StageOf[d] \in {"promised", "committed"}
      /\ StageOf' = [StageOf EXCEPT ![d] = "closed"]
  BY StageMoves DEF IInv, TypeOK, CanClose, InFlight, Closed, StageOfStatus
<1>2. Lifecycle!Close(d)
  BY <1>1 DEF Lifecycle!Close, Lifecycle!Advance
<1> QED
  BY <1>2 DEF Lifecycle!Next

\* A key without a row is free.
LEMMA NoRowIsFree ==
    ASSUME NEW d \in Decisions, Stored(d) = {}
    PROVE  Lifecycle!KeyIsFree(d)
<1>1. \A e \in Decisions : KeyOf[e] = KeyOf[d] => status[e] = "none"
  BY DEF Stored
<1>2. \A e \in Decisions : status[e] = "none" => StageOf[e] = "new"
  BY DEF StageOf, Closed
<1> QED
  BY <1>1, <1>2 DEF Lifecycle!KeyIsFree

\* A step of an authorize call holds, refuses, promises, commits, closes or forgets.
LEMMA CallLifecycle ==
    ASSUME IInv, NEW d \in Decisions,
           AcquireLock(d) \/ CallStep(d) \/ Throw(d) \/ HaltCall(d) \/ Redeem(d)
    PROVE  [Lifecycle!Next]_(Lifecycle!vars)
<1>0. TypeOK /\ CallsAgree
  BY DEF IInv
<1>1. CASE PersistDeny(d) /\ Stored(d) = {}
  <2>1. status[d] = "none" /\ d \notin counted /\ status' = [status EXCEPT ![d] = "DENIED"]
        /\ UNCHANGED counted
    BY <1>0, <1>1 DEF PersistDeny, CallsAgree, Rowless, Holdless, hotVars
  <2>2. StageOf[d] = "new" /\ StageOf' = [StageOf EXCEPT ![d] = "refused"]
    BY <1>0, <2>1, StageMoves DEF StageOfStatus, Closed
  <2>3. Lifecycle!Refuse(d)
    BY <1>1, <2>1, <2>2, NoRowIsFree DEF Lifecycle!Refuse, Lifecycle!Advance
  <2> QED
    BY <2>3 DEF Lifecycle!Next
<1>2. CASE Reserve(d)
  <2>1. UNCHANGED StageOf /\ StageOf[d] = "new"
    BY <1>0, <1>2 DEF Reserve, pgVars, StageOf, CallsAgree, Rowless, Closed
  <2>2. CASE UNCHANGED hotVars
    BY <2>1, <2>2 DEF hotVars, Lifecycle!vars
  <2>3. ASSUME NEW t, Hot!ReserveHoldWithinPolicy(d, t) PROVE Lifecycle!Hold(d)
    BY <2>1, <2>3 DEF Hot!ReserveHoldWithinPolicy, Lifecycle!Hold
  <2> QED
    BY <1>2, <2>2, <2>3 DEF Reserve, Lifecycle!Next
<1>3. CASE Insert(d) /\ Stored(d) = {}
  <2>1. status[d] = "none" /\ d \in counted /\ status' = [status EXCEPT ![d] = "RESERVED"]
        /\ UNCHANGED counted
    BY <1>0, <1>3 DEF Insert, IInv, Hot!HoldsAreCounted, CallsAgree, Rowless, hotVars
  <2>2. StageOf[d] = "new" /\ StageOf' = [StageOf EXCEPT ![d] = "promised"]
    BY <1>0, <2>1, StageMoves DEF StageOfStatus, Closed
  <2>3. Lifecycle!Promise(d)
    BY <1>3, <2>1, <2>2, NoRowIsFree DEF Lifecycle!Promise, Lifecycle!Advance
  <2> QED
    BY <2>3 DEF Lifecycle!Next
<1>4. CASE UndoReserve(d)
  BY <1>0, <1>4, ReleaseForgets DEF UndoReserve, CallsAgree, Rowless, pgVars
<1>5. CASE MarkSigned(d)
  <2>1. CASE UNCHANGED status
    BY <1>5, <2>1, LifecycleStutter DEF MarkSigned, hotVars
  <2>2. CASE status[d] = "RESERVED" /\ status' = [status EXCEPT ![d] = "SIGNED"]
    <3>1. StageOf[d] = "promised" /\ StageOf' = [StageOf EXCEPT ![d] = "committed"]
      BY <1>0, <2>2, StageMoves DEF StageOfStatus, Closed
    <3>2. Lifecycle!Commit(d)
      BY <1>5, <3>1 DEF MarkSigned, hotVars, Lifecycle!Commit, Lifecycle!Advance
    <3> QED
      BY <3>2 DEF Lifecycle!Next
  <2> QED
    BY <1>5, <2>1, <2>2 DEF MarkSigned
<1>6. CASE Abort(d)
  BY <1>6, CloseCloses, LifecycleStutter DEF Abort, Closed, hotVars
<1>7. CASE ReleaseAborted(d)
  BY <1>0, <1>7, ReleaseForgets DEF ReleaseAborted, CallsAgree
<1> QED
  BY <1>1, <1>2, <1>3, <1>4, <1>5, <1>6, <1>7, LifecycleStutter
  DEF CallStep, AcquireLock, ReadContended, ReadLock, ReadExisting, Evaluate, PersistDeny,
      Insert, ReplayWinner, CheckOrg, CheckAgent, Sign, CheckLock, DelLock, Throw, HaltCall,
      Redeem, pgVars, hotVars

\* A step of a reconcile pays, closes or forgets.
LEMMA ReconcileLifecycle ==
    ASSUME IInv, NEW w \in Workers,
           ReconcileStep(w) \/ \E d \in Decisions : ReadDecision(w, d)
    PROVE  [Lifecycle!Next]_(Lifecycle!vars)
<1> DEFINE d == target[w]
<1>0. /\ TypeOK /\ RequestsAgree /\ w \in Requests
      /\ at[w] # "idle" => d \in Decisions
  BY DEF IInv, RequestsAgree, TypeOK, Requests
<1>1. CASE MarkSettled(w)
  <2>1. CASE UNCHANGED status
    BY <1>1, <2>1, LifecycleStutter DEF MarkSettled, hotVars
  <2>2. CASE status[d] \in {"SIGNED", "EXPIRY_CHECK"}
             /\ status' = [status EXCEPT ![d] = "SETTLED"]
    <3>1. d \in Decisions
      BY <1>0, <1>1 DEF MarkSettled
    <3>2. StageOf[d] = "committed" /\ StageOf' = [StageOf EXCEPT ![d] = "paid"]
      BY <1>0, <2>2, <3>1, StageMoves DEF StageOfStatus, Closed
    <3>3. Lifecycle!Pay(d)
      BY <1>1, <3>2 DEF MarkSettled, hotVars, Lifecycle!Pay, Lifecycle!Advance
    <3> QED
      BY <3>1, <3>3 DEF Lifecycle!Next
  <2> QED
    BY <1>1, <2>1, <2>2 DEF MarkSettled
<1>2. CASE SettleHolds(w)
  <2>1. UNCHANGED <<status, counted>>
    BY <1>2 DEF SettleHolds, SettleIn, Hot!SettleHold, hotVars
  <2> QED
    BY <2>1, LifecycleStutter
<1>3. CASE MarkExpiryCheck(w)
  <2>1. CASE UNCHANGED status
    BY <1>3, <2>1, LifecycleStutter DEF MarkExpiryCheck, hotVars
  <2>2. CASE status[d] = "SIGNED" /\ status' = [status EXCEPT ![d] = "EXPIRY_CHECK"]
    <3>1. d \in Decisions
      BY <1>0, <1>3 DEF MarkExpiryCheck
    <3>2. StageOf[d] = "committed" /\ StageOf' = [StageOf EXCEPT ![d] = "committed"]
      BY <1>0, <2>2, <3>1, StageMoves DEF StageOfStatus, Closed
    <3> QED
      BY <1>3, <3>2 DEF MarkExpiryCheck, hotVars, Lifecycle!vars, StageOf
  <2> QED
    BY <1>3, <2>1, <2>2 DEF MarkExpiryCheck
<1>4. CASE MarkTerminal(w)
  <2>1. CASE ~ CanClose(d)
    BY <1>4, <2>1, LifecycleStutter DEF MarkTerminal, hotVars
  <2>2. CASE CanClose(d)
    <3>1. PICK st \in Closed : status' = [status EXCEPT ![d] = st]
      BY <1>4, <2>2 DEF MarkTerminal, Closed
    <3> QED
      BY <1>0, <1>4, <2>2, <3>1, CloseCloses DEF MarkTerminal, hotVars
  <2> QED
    BY <2>1, <2>2
<1>5. CASE ReleaseHolds(w)
  BY <1>0, <1>5, ReleaseForgets DEF ReleaseHolds, RequestsAgree
<1> QED
  BY <1>1, <1>2, <1>3, <1>4, <1>5, LifecycleStutter
  DEF ReconcileStep, Observe, ReadForTerminal, Reread, ReadDecision, pgVars, hotVars

\* Every step of Casper Guard is a step of the lifecycle or leaves it alone.
LEMMA LifecycleStep == IInv /\ [Next]_vars => [Lifecycle!Next]_(Lifecycle!vars)
<1> SUFFICES ASSUME IInv, [Next]_vars PROVE [Lifecycle!Next]_(Lifecycle!vars)
  OBVIOUS
<1>0. TypeOK /\ RequestsAgree
  BY DEF IInv
<1>1. ASSUME NEW d \in Decisions,
             AcquireLock(d) \/ CallStep(d) \/ Throw(d) \/ HaltCall(d) \/ Redeem(d)
      PROVE  [Lifecycle!Next]_(Lifecycle!vars)
  BY <1>1, CallLifecycle
<1>2. ASSUME NEW w \in Workers, ReconcileStep(w) \/ \E d \in Decisions : ReadDecision(w, d)
      PROVE  [Lifecycle!Next]_(Lifecycle!vars)
  BY <1>2, ReconcileLifecycle
<1>3. ASSUME NEW r \in Revokers, NEW d \in Decisions, AbortListed(r, d)
      PROVE  [Lifecycle!Next]_(Lifecycle!vars)
  BY <1>3, CloseCloses, LifecycleStutter DEF AbortListed, Closed, hotVars
<1>4. ASSUME NEW r \in Revokers, ReleaseListed(r) PROVE [Lifecycle!Next]_(Lifecycle!vars)
  BY <1>0, <1>4, ReleaseForgets DEF ReleaseListed, RequestsAgree, Requests
<1>5. ASSUME UNCHANGED <<pgVars, counted>> PROVE [Lifecycle!Next]_(Lifecycle!vars)
  BY <1>5, LifecycleStutter DEF pgVars
<1>6. ASSUME NEW r \in Revokers, SuspendForRevoke(r) \/ ListReserved(r) \/ EndRevoke(r)
      PROVE  UNCHANGED <<pgVars, counted>>
  BY <1>6 DEF SuspendForRevoke, ListReserved, EndRevoke, hotVars
<1>7. ASSUME NEW p \in Requests, HaltRequest(p) PROVE UNCHANGED <<pgVars, counted>>
  BY <1>7 DEF HaltRequest, hotVars
<1>8. ASSUME NEW on \in BOOLEAN, SetKillSwitch(on) \/ SetSuspended(on)
      PROVE  UNCHANGED <<pgVars, counted>>
  BY <1>8 DEF SetKillSwitch, SetSuspended, hotVars
<1>9. ASSUME NEW k \in Keys, LockExpires(k) PROVE UNCHANGED <<pgVars, counted>>
  BY <1>9 DEF LockExpires, hotVars
<1>10. CASE HotEnvironment
  BY <1>5, <1>10, HotEnvironmentKeepsHolds DEF HotEnvironment
<1>11. CASE UNCHANGED vars
  BY <1>5, <1>11 DEF vars, hotVars, pgVars
<1> QED
  BY <1>1, <1>2, <1>3, <1>4, <1>5, <1>6, <1>7, <1>8, <1>9, <1>10, <1>11 DEF Next, RevokeStep

\* Casper Guard implements the lifecycle an agent sees, with the spend window as its budget.
THEOREM LifecycleRefinement == Spec => ImplementsLifecycle
<1>1. Init => Lifecycle!Init
  BY DEF Init, Hot!Init, Lifecycle!Init, StageOf, Closed
<1> QED
  BY <1>1, LifecycleStep, Invariance, PTL DEF Spec, ImplementsLifecycle, Lifecycle!Spec

-----------------------------------------------------------------------------
(* Nothing is left behind when no instance stops and no store refuses a command *)

\* Every instance runs on and every command of the stores is answered.
NoFaults == "halt" \notin Events /\ "storeError" \notin Events

\* A lock that has not expired belongs to a call of its key that has still to unlock.
LocksAreHeld ==
    \A k \in Keys :
        lock[k] # NoDecision =>
            /\ KeyOf[lock[k]] = k
            /\ call[lock[k]] \notin {"idle", "contended", "readLock", "done", "dead"}

\* A row that is only reserved belongs to a call that has still to sign or to abort it.
ReservedIsActive ==
    \A d \in Decisions :
        status[d] = "RESERVED" =>
            call[d] \in {"checkOrg", "checkAgent", "sign", "markSigned", "abortDeny", "abort"}

\* A hold without a row belongs to a call that has still to insert the row or to undo the hold.
RowlessHoldIsActive ==
    \A d \in Decisions :
        status[d] \in {"none", "DENIED"} /\ d \in counted =>
            call[d] \in {"insert", "undoReplay", "undoThrow"}

\* The hold of d is still reserved in store s.
Outstanding(s, d) ==
    IF s = "redis" THEN d \in reservedHolds ELSE holdStatus[d] = "RESERVED"

\* p has still to tell store s that the hold of d is released or settled.
Cleaning(p, s, d) ==
    /\ s \in todo[p]
    /\ \/ p = d /\ call[d] = "release"
       \/ p \in Requests /\ target[p] = d /\ at[p] \in {"release", "settle", "repair"}

\* What a finished decision still holds in a store, somebody is about to give back.
FinishedIsCleaned ==
    \A d \in Decisions, s \in Stores :
        status[d] \in Closed \cup {"SETTLED"} /\ Outstanding(s, d) =>
            \E p \in Decisions \cup Requests : Cleaning(p, s, d)

CleanInv ==
    /\ IInv
    /\ LocksAreHeld
    /\ ReservedIsActive
    /\ RowlessHoldIsActive
    /\ FinishedIsCleaned

\* The three facts about a call's own lock, row and hold, under a step of a call.
LEMMA CallClean ==
    ASSUME CleanInv, NoFaults, NEW d \in Decisions,
           AcquireLock(d) \/ CallStep(d) \/ Throw(d) \/ HaltCall(d) \/ Redeem(d)
    PROVE  LocksAreHeld' /\ ReservedIsActive' /\ RowlessHoldIsActive'
<1> USE GuardAssumption
    DEF CleanInv, IInv, TypeOK, Goto, Say, pgVars, switches, requestVars, callVars
<1>1. ASSUME UNCHANGED <<status, counted>>,
             NEW step, call' = [call EXCEPT ![d] = step],
             call[d] \in {"checkOrg", "checkAgent", "sign", "markSigned", "abortDeny", "abort"} =>
                status[d] # "RESERVED"
                \/ step \in {"checkOrg", "checkAgent", "sign", "markSigned", "abortDeny", "abort"},
             call[d] \in {"insert", "undoReplay", "undoThrow"} =>
                status[d] \notin {"none", "DENIED"} \/ d \notin counted
      PROVE  ReservedIsActive' /\ RowlessHoldIsActive'
  BY <1>1 DEF ReservedIsActive, RowlessHoldIsActive
<1>2. ASSUME UNCHANGED lock, NEW step, call' = [call EXCEPT ![d] = step],
             \/ call[d] \in {"idle", "contended", "readLock", "done", "dead"}
             \/ step \notin {"idle", "contended", "readLock", "done", "dead"}
             \/ lock[KeyOf[d]] # d
      PROVE  LocksAreHeld'
  BY <1>2 DEF LocksAreHeld
<1>3. CASE AcquireLock(d)
  <2>1. LocksAreHeld'
    BY <1>3 DEF AcquireLock, LocksAreHeld
  <2>2. ReservedIsActive' /\ RowlessHoldIsActive'
    BY <1>3, <1>1 DEF AcquireLock, hotVars
  <2> QED
    BY <2>1, <2>2
<1>4. CASE ReadContended(d) \/ ReadLock(d) \/ ReadExisting(d) \/ Evaluate(d) \/ ReplayWinner(d)
  <2>1. PICK step : call' = [call EXCEPT ![d] = step]
    BY <1>4 DEF ReadContended, ReadLock, ReadExisting, Evaluate, ReplayWinner
  <2>2. ReservedIsActive' /\ RowlessHoldIsActive'
    BY <1>4, <2>1, <1>1
       DEF ReadContended, ReadLock, ReadExisting, Evaluate, ReplayWinner, hotVars
  <2>3. LocksAreHeld'
    BY <1>4, <1>2 DEF ReadContended, ReadLock, ReadExisting, Evaluate, ReplayWinner
  <2> QED
    BY <2>2, <2>3
<1>5. CASE PersistDeny(d)
  <2>1. d \notin counted /\ status[d] = "none"
    BY <1>5 DEF PersistDeny, CallsAgree, Rowless, Holdless
  <2>2. ReservedIsActive' /\ RowlessHoldIsActive'
    BY <1>5, <2>1 DEF PersistDeny, hotVars, ReservedIsActive, RowlessHoldIsActive
  <2>3. LocksAreHeld'
    BY <1>5, <1>2 DEF PersistDeny
  <2> QED
    BY <2>2, <2>3
<1>6. CASE Reserve(d)
  <2>1. d \notin counted /\ status[d] = "none"
    BY <1>6 DEF Reserve, CallsAgree, Rowless, Holdless
  <2>2. \/ UNCHANGED counted /\ \E step \in {"unlock", "persistDeny"} : Goto(d, step)
        \/ counted' = counted \cup {d} /\ Goto(d, "insert")
    BY <1>6 DEF Reserve, Hot!ReserveHoldWithinPolicy, hotVars
  <2>3. ReservedIsActive' /\ RowlessHoldIsActive'
    BY <1>6, <2>1, <2>2 DEF Reserve, ReservedIsActive, RowlessHoldIsActive
  <2>4. LocksAreHeld'
    BY <1>6, <2>2, <1>2 DEF Reserve
  <2> QED
    BY <2>3, <2>4
<1>7. CASE Insert(d)
  <2>0. ReservedIsActive'
    BY <1>7 DEF Insert, ReservedIsActive
  <2>1. RowlessHoldIsActive'
    BY <1>7 DEF Insert, hotVars, RowlessHoldIsActive
  <2>2. LocksAreHeld'
    BY <1>7, <1>2 DEF Insert
  <2> QED
    BY <2>0, <2>1, <2>2
<1>8. CASE UndoReserve(d)
  <2>1. status[d] = "none" /\ d \notin settledHolds
    BY <1>8 DEF UndoReserve, CallsAgree, Rowless, RowMatchesHotTier
  <2>2. counted' = counted \ {d}
    BY <1>8, <2>1 DEF UndoReserve, ReleaseIn, Hot!ReleaseHold, hotVars
  <2>3. ReservedIsActive' /\ RowlessHoldIsActive'
    BY <1>8, <2>1, <2>2 DEF UndoReserve, ReservedIsActive, RowlessHoldIsActive
  <2>4. LocksAreHeld'
    BY <1>8, <1>2 DEF UndoReserve
  <2> QED
    BY <2>3, <2>4
<1>9. CASE CheckOrg(d) \/ CheckAgent(d) \/ Sign(d)
  <2>1. /\ UNCHANGED <<status, hotVars>>
        /\ call[d] \in {"checkOrg", "checkAgent", "sign"}
        /\ \E step \in {"abortDeny", "checkAgent", "sign", "markSigned"} : Goto(d, step)
    BY <1>9 DEF CheckOrg, CheckAgent, Sign
  <2>2. ReservedIsActive'
    BY <2>1 DEF ReservedIsActive
  <2>3. RowlessHoldIsActive'
    BY <2>1 DEF hotVars, RowlessHoldIsActive
  <2>4. LocksAreHeld'
    BY <1>9, <1>2 DEF CheckOrg, CheckAgent, Sign
  <2> QED
    BY <2>2, <2>3, <2>4
<1>10. CASE MarkSigned(d)
  <2>1. ReservedIsActive'
    BY <1>10 DEF MarkSigned, ReservedIsActive
  <2>2. LocksAreHeld'
    BY <1>10, <1>2 DEF MarkSigned
  <2>3. RowlessHoldIsActive'
    BY <1>10 DEF MarkSigned, hotVars, RowlessHoldIsActive
  <2> QED
    BY <2>1, <2>2, <2>3
<1>11. CASE Abort(d)
  <2>1. ReservedIsActive' /\ RowlessHoldIsActive'
    <3>1. CASE ~ CanClose(d)
      BY <1>11, <3>1, <1>1 DEF Abort, CanClose, Closed, hotVars
    <3>2. CASE CanClose(d)
      <4>1. /\ status' = [status EXCEPT ![d] = "FAILED_TERMINAL"]
            /\ Goto(d, "release") /\ UNCHANGED hotVars
        BY <1>11, <3>2 DEF Abort
      <4>2. ReservedIsActive'
        BY <4>1 DEF ReservedIsActive
      <4>3. RowlessHoldIsActive'
        BY <4>1 DEF hotVars, RowlessHoldIsActive
      <4> QED
        BY <4>2, <4>3
    <3> QED
      BY <3>1, <3>2
  <2>2. LocksAreHeld'
    BY <1>11, <1>2 DEF Abort
  <2> QED
    BY <2>1, <2>2
<1>12. CASE ReleaseAborted(d)
  <2>1. PICK s \in todo[d] : ReleaseIn(s, d)
    BY <1>12 DEF ReleaseAborted
  <2>2. counted' \subseteq counted /\ status[d] \in Closed /\ UNCHANGED status
    BY <1>12, <2>1 DEF ReleaseAborted, ReleaseIn, Hot!ReleaseHold, hotVars, CallsAgree
  <2>3. PICK step \in {"unlock", "release"} : call' = [call EXCEPT ![d] = step]
    BY <1>12 DEF ReleaseAborted
  <2>4. ReservedIsActive' /\ RowlessHoldIsActive'
    BY <1>12, <2>2, <2>3 DEF ReleaseAborted, ReservedIsActive, RowlessHoldIsActive, Closed
  <2>5. LocksAreHeld'
    BY <1>12, <2>3, <1>2 DEF ReleaseAborted
  <2> QED
    BY <2>4, <2>5
<1>13. CASE CheckLock(d) \/ DelLock(d)
  <2>1. ReservedIsActive' /\ RowlessHoldIsActive'
    BY <1>13 DEF CheckLock, DelLock, hotVars, ReservedIsActive, RowlessHoldIsActive
  <2>2. LocksAreHeld'
    BY <1>13 DEF CheckLock, DelLock, LocksAreHeld
  <2> QED
    BY <2>1, <2>2
<1>14. CASE Throw(d) \/ HaltCall(d)
  BY <1>14 DEF Throw, HaltCall, NoFaults
<1>15. CASE Redeem(d)
  BY <1>15 DEF Redeem, hotVars, LocksAreHeld, ReservedIsActive, RowlessHoldIsActive
<1> QED
  BY <1>3, <1>4, <1>5, <1>6, <1>7, <1>8, <1>9, <1>10, <1>11, <1>12, <1>13, <1>14, <1>15
  DEF CallStep

\* A release gives back what the store holds for d, and reserves nothing.
LEMMA ReleaseClears ==
    ASSUME IInv, NEW d \in Decisions, NEW s \in Stores, ReleaseIn(s, d), UNCHANGED status,
           status[d] \in Closed \cup {"none"}
    PROVE  /\ ~ Outstanding(s, d)'
           /\ \A e \in Decisions, t \in Stores : Outstanding(t, e)' => Outstanding(t, e)
<1> USE DEF IInv, TypeOK, Hot!TypeOK, Hot!HoldsAreCounted, Outstanding, RowMatchesHotTier, Stores,
            Closed
<1>1. CASE s = "redis" /\ d \in counted \ settledHolds
  BY <1>1 DEF ReleaseIn, Hot!ReleaseHold
<1>2. CASE s = "redis" /\ d \notin counted \ settledHolds
  BY <1>2 DEF ReleaseIn, hotVars
<1>3. CASE s = "pg"
  BY <1>3 DEF ReleaseIn, hotVars
<1> QED
  BY <1>1, <1>2, <1>3

\* A settlement takes what the store holds for d out of what is reserved.
LEMMA SettleClears ==
    ASSUME IInv, NEW d \in Decisions, NEW s \in Stores, SettleIn(s, d)
    PROVE  /\ ~ Outstanding(s, d)'
           /\ \A e \in Decisions, t \in Stores : Outstanding(t, e)' => Outstanding(t, e)
<1> USE DEF IInv, TypeOK, Hot!TypeOK, Outstanding, Stores
<1>1. CASE s = "redis" /\ d \in reservedHolds
  BY <1>1 DEF SettleIn, Hot!SettleHold
<1>2. CASE s = "redis" /\ d \notin reservedHolds
  BY <1>2 DEF SettleIn, hotVars
<1>3. CASE s = "pg"
  BY <1>3 DEF SettleIn, hotVars
<1> QED
  BY <1>1, <1>2, <1>3

\* A step that finishes no decision and stops no cleaning keeps the cleaning complete.
LEMMA CleaningGoesOn ==
    ASSUME FinishedIsCleaned,
           \A e \in Decisions, s \in Stores :
              status'[e] \in Closed \cup {"SETTLED"} /\ Outstanding(s, e)' =>
                 \/ status[e] \in Closed \cup {"SETTLED"} /\ Outstanding(s, e)
                 \/ \E p \in Decisions \cup Requests : Cleaning(p, s, e)',
           \A p \in Decisions \cup Requests, e \in Decisions, s \in Stores :
              Cleaning(p, s, e) => Cleaning(p, s, e)' \/ ~ Outstanding(s, e)'
    PROVE  FinishedIsCleaned'
BY DEF FinishedIsCleaned

\* Nor does one that finishes d only, with p about to tell both stores.
LEMMA CleaningStarts ==
    ASSUME NEW d, NEW p \in Decisions \cup Requests, FinishedIsCleaned,
           \A s \in Stores : Cleaning(p, s, d)',
           \A e \in Decisions, s \in Stores :
              Outstanding(s, e)' = Outstanding(s, e) /\ (e # d => status'[e] = status[e]),
           \A q \in Decisions \cup Requests, e \in Decisions, s \in Stores :
              Cleaning(q, s, e) => Cleaning(q, s, e)'
    PROVE  FinishedIsCleaned'
BY DEF FinishedIsCleaned

\* A step of a call keeps the cleaning complete.
LEMMA CallFinished ==
    ASSUME CleanInv, NoFaults, NEW d \in Decisions,
           AcquireLock(d) \/ CallStep(d) \/ Throw(d) \/ HaltCall(d) \/ Redeem(d)
    PROVE  FinishedIsCleaned'
<1>0a. FinishedIsCleaned
  BY DEF CleanInv
<1> USE GuardAssumption
    DEF CleanInv, IInv, TypeOK, Goto, Say, pgVars, switches, requestVars, callVars, Requests
<1>1. ASSUME UNCHANGED <<at, target, todo>>, call[d] # "release",
             \A e \in Decisions \ {d} : call'[e] = call[e]
      PROVE  \A p \in Decisions \cup Requests, e \in Decisions, s \in Stores :
                Cleaning(p, s, e) => Cleaning(p, s, e)'
  BY <1>1 DEF Cleaning
<1>2. CASE Abort(d) /\ CanClose(d)
  <2>1. \A s \in Stores : Cleaning(d, s, d)'
    BY <1>2 DEF Abort, Cleaning, Stores
  <2>2. \A p \in Decisions \cup Requests, e \in Decisions, s \in Stores :
           Cleaning(p, s, e) => Cleaning(p, s, e)'
    BY <1>2 DEF Abort, Cleaning
  <2>3. \A e \in Decisions, s \in Stores :
           Outstanding(s, e)' = Outstanding(s, e) /\ (e # d => status'[e] = status[e])
    BY <1>2 DEF Abort, Outstanding, hotVars
  <2> HIDE GuardAssumption DEF CleanInv, IInv, TypeOK, Requests
  <2> QED
    BY <1>0a, <2>1, <2>2, <2>3, CleaningStarts
<1>3. CASE ReleaseAborted(d)
  <2>1. PICK s \in todo[d] :
           /\ ReleaseIn(s, d) /\ todo' = [todo EXCEPT ![d] = @ \ {s}]
           /\ Goto(d, IF todo[d] = {s} THEN "unlock" ELSE "release")
    BY <1>3 DEF ReleaseAborted
  <2>2. s \in Stores /\ status[d] \in Closed /\ UNCHANGED <<status, at, target>>
    BY <1>3, <2>1 DEF ReleaseAborted, CallsAgree
  <2>3. /\ ~ Outstanding(s, d)'
        /\ \A e \in Decisions, t \in Stores : Outstanding(t, e)' => Outstanding(t, e)
    BY <2>1, <2>2, ReleaseClears
  <2>4. \A p \in Decisions \cup Requests, e \in Decisions, t \in Stores :
           Cleaning(p, t, e) => Cleaning(p, t, e)' \/ (p = d /\ t = s /\ e = d)
    <3> SUFFICES ASSUME NEW p \in Decisions \cup Requests, NEW e \in Decisions,
                        NEW t \in Stores, Cleaning(p, t, e), ~ (p = d /\ t = s /\ e = d)
                 PROVE  Cleaning(p, t, e)'
      OBVIOUS
    <3>1. CASE p = d
      <4>1. e = d /\ t \in todo[d] /\ t # s
        BY <3>1 DEF Cleaning
      <4>2. t \in todo'[d] /\ call'[d] = "release"
        BY <2>1, <4>1
      <4> QED
        BY <3>1, <4>1, <4>2 DEF Cleaning
    <3>2. CASE p # d
      BY <2>1, <2>2, <3>2 DEF Cleaning
    <3> QED
      BY <3>1, <3>2
  <2> QED
    BY <2>2, <2>3, <2>4, CleaningGoesOn
<1>4. CASE UndoReserve(d)
  <2>1. ReleaseIn("redis", d) /\ status[d] = "none" /\ UNCHANGED status /\ "redis" \in Stores
    BY <1>4 DEF UndoReserve, CallsAgree, Rowless, Stores
  <2>2. \A e \in Decisions, t \in Stores : Outstanding(t, e)' => Outstanding(t, e)
    BY <2>1, ReleaseClears
  <2>3. \A p \in Decisions \cup Requests, e \in Decisions, s \in Stores :
           Cleaning(p, s, e) => Cleaning(p, s, e)'
    BY <1>4, <1>1 DEF UndoReserve
  <2> QED
    BY <2>1, <2>2, <2>3, CleaningGoesOn
<1>5. CASE Reserve(d)
  <2>1. status[d] = "none" /\ UNCHANGED <<status, holdStatus>>
    BY <1>5 DEF Reserve, CallsAgree, Rowless
  <2>2. \A e \in Decisions \ {d} : e \in reservedHolds' <=> e \in reservedHolds
    BY <1>5 DEF Reserve, Hot!ReserveHoldWithinPolicy, hotVars
  <2>3. \A p \in Decisions \cup Requests, e \in Decisions, s \in Stores :
           Cleaning(p, s, e) => Cleaning(p, s, e)'
    BY <1>5, <1>1 DEF Reserve
  <2>4. \A e \in Decisions, s \in Stores : e # d => Outstanding(s, e)' = Outstanding(s, e)
    BY <2>1, <2>2 DEF Outstanding
  <2> QED
    BY <2>1, <2>3, <2>4, CleaningGoesOn DEF Closed
<1>6. CASE PersistDeny(d) \/ Insert(d) \/ MarkSigned(d)
  <2>1. \A e \in Decisions, s \in Stores :
           status'[e] \in Closed \cup {"SETTLED"} /\ Outstanding(s, e)' =>
              status[e] \in Closed \cup {"SETTLED"} /\ Outstanding(s, e)
    BY <1>6 DEF PersistDeny, Insert, MarkSigned, Outstanding, hotVars, Closed
  <2>2. \A p \in Decisions \cup Requests, e \in Decisions, s \in Stores :
           Cleaning(p, s, e) => Cleaning(p, s, e)'
    BY <1>6, <1>1 DEF PersistDeny, Insert, MarkSigned
  <2> QED
    BY <2>1, <2>2, CleaningGoesOn
<1>7. ASSUME UNCHANGED <<pgVars, reservedHolds, at, target, todo>>, call[d] # "release",
             \A e \in Decisions \ {d} : call'[e] = call[e]
      PROVE  FinishedIsCleaned'
  <2>1. \A e \in Decisions, s \in Stores :
           Outstanding(s, e)' = Outstanding(s, e) /\ status'[e] = status[e]
    BY <1>7 DEF Outstanding
  <2> QED
    BY <1>7, <1>1, <2>1, CleaningGoesOn
<1>8. CASE ReadContended(d) \/ ReadLock(d) \/ ReadExisting(d) \/ Evaluate(d) \/ ReplayWinner(d)
  BY <1>7, <1>8
     DEF ReadContended, ReadLock, ReadExisting, Evaluate, ReplayWinner, hotVars
<1>9. CASE AcquireLock(d) \/ CheckOrg(d) \/ CheckAgent(d) \/ Sign(d)
  BY <1>7, <1>9 DEF AcquireLock, CheckOrg, CheckAgent, Sign, hotVars
<1>10. CASE CheckLock(d) \/ DelLock(d) \/ (Abort(d) /\ ~ CanClose(d))
  BY <1>7, <1>10 DEF CheckLock, DelLock, Abort, hotVars
<1>11. CASE Redeem(d)
  BY <1>11 DEF Redeem, hotVars, FinishedIsCleaned, Cleaning, Outstanding
<1>12. CASE Throw(d) \/ HaltCall(d)
  BY <1>12 DEF Throw, HaltCall, NoFaults
<1> QED
  BY <1>2, <1>3, <1>4, <1>5, <1>6, <1>8, <1>9, <1>10, <1>11, <1>12 DEF CallStep

\* A step of a reconcile keeps the cleaning complete.
LEMMA ReconcileFinished ==
    ASSUME CleanInv, NEW w \in Workers,
           ReconcileStep(w) \/ \E d \in Decisions : ReadDecision(w, d)
    PROVE  FinishedIsCleaned'
<1>0a. FinishedIsCleaned /\ w \in Decisions \cup Requests
  BY DEF CleanInv, Requests
<1> USE GuardAssumption
    DEF CleanInv, IInv, TypeOK, Move, Finish, pgVars, switches, callVars, Requests
<1>0. at[w] # "idle" => target[w] \in Decisions
  BY DEF RequestsAgree
<1>1. ASSUME UNCHANGED call, at[w] \notin {"release", "settle", "repair"},
             \A p \in (Decisions \cup Requests) \ {w} :
                todo'[p] = todo[p] /\ (p \in Requests => at'[p] = at[p] /\ target'[p] = target[p])
      PROVE  \A p \in Decisions \cup Requests, e \in Decisions, s \in Stores :
                Cleaning(p, s, e) => Cleaning(p, s, e)'
  BY <1>1 DEF Cleaning
<1>2. ASSUME UNCHANGED <<pgVars, reservedHolds, call>>,
             at[w] \notin {"release", "settle", "repair"},
             \A p \in (Decisions \cup Requests) \ {w} :
                todo'[p] = todo[p] /\ (p \in Requests => at'[p] = at[p] /\ target'[p] = target[p])
      PROVE  FinishedIsCleaned'
  <2>1. \A e \in Decisions, s \in Stores :
           Outstanding(s, e)' = Outstanding(s, e) /\ status'[e] = status[e]
    BY <1>2 DEF Outstanding
  <2> QED
    BY <1>1, <1>2, <2>1, CleaningGoesOn
<1>3. ASSUME UNCHANGED <<holdStatus, reservedHolds, call>>,
             NEW d \in Decisions, d = target[w],
             at[w] \notin {"idle", "release", "settle", "repair"},
             NEW st, status' = [status EXCEPT ![d] = st],
             NEW step \in {"release", "settle"}, Move(w, step),
             todo' = [todo EXCEPT ![w] = Stores], UNCHANGED target
      PROVE  FinishedIsCleaned'
  <2>1. \A s \in Stores : Cleaning(w, s, d)'
    BY <1>3 DEF Cleaning
  <2>2. \A e \in Decisions, s \in Stores :
           Outstanding(s, e)' = Outstanding(s, e) /\ (e # d => status'[e] = status[e])
    BY <1>3 DEF Outstanding
  <2>3. \A p \in Decisions \cup Requests, e \in Decisions, s \in Stores :
           Cleaning(p, s, e) => Cleaning(p, s, e)'
    BY <1>1, <1>3
  <2> HIDE GuardAssumption DEF CleanInv, IInv, TypeOK, Requests
  <2> QED
    BY <1>0a, <2>1, <2>2, <2>3, CleaningStarts
<1>4. CASE Observe(w) \/ ReadForTerminal(w) \/ Reread(w)
            \/ (\E e \in Decisions : ReadDecision(w, e))
  BY <1>2, <1>4 DEF Observe, ReadForTerminal, Reread, ReadDecision, hotVars
<1>5. CASE MarkSettled(w)
  <2>0. PICK d \in Decisions : d = target[w]
    BY <1>0, <1>5 DEF MarkSettled
  <2>1. CASE UNCHANGED <<status, todo>> /\ Finish(w)
    BY <1>2, <1>5, <2>1 DEF MarkSettled, hotVars
  <2>2. CASE status' = [status EXCEPT ![d] = "SETTLED"] /\ todo' = [todo EXCEPT ![w] = Stores]
             /\ Move(w, "settle") /\ UNCHANGED target
    BY <2>0, <1>3, <1>5, <2>2 DEF MarkSettled, hotVars
  <2> QED
    BY <1>5, <2>0, <2>1, <2>2 DEF MarkSettled
<1>6. CASE MarkTerminal(w)
  <2>0. PICK d \in Decisions : d = target[w]
    BY <1>0, <1>6 DEF MarkTerminal
  <2>1. CASE ~ CanClose(d)
    BY <1>2, <1>6, <2>0, <2>1 DEF MarkTerminal, hotVars
  <2>2. CASE CanClose(d)
    <3>1. PICK st : status' = [status EXCEPT ![d] = st]
      BY <1>6, <2>0, <2>2 DEF MarkTerminal
    <3>2. /\ UNCHANGED <<holdStatus, reservedHolds, call, target>> /\ Move(w, "release")
          /\ todo' = [todo EXCEPT ![w] = Stores] /\ at[w] = "markTerminal"
      BY <1>6, <2>0, <2>2 DEF MarkTerminal, hotVars
    <3> QED
      BY <1>3, <2>0, <3>1, <3>2
  <2> QED
    BY <2>1, <2>2
<1>7. CASE MarkExpiryCheck(w)
  <2>1. \A e \in Decisions, s \in Stores :
           status'[e] \in Closed \cup {"SETTLED"} /\ Outstanding(s, e)' =>
              status[e] \in Closed \cup {"SETTLED"} /\ Outstanding(s, e)
    BY <1>7 DEF MarkExpiryCheck, Outstanding, hotVars, Closed
  <2>2. \A p \in Decisions \cup Requests, e \in Decisions, s \in Stores :
           Cleaning(p, s, e) => Cleaning(p, s, e)'
    BY <1>7, <1>1 DEF MarkExpiryCheck
  <2> QED
    BY <2>1, <2>2, CleaningGoesOn
<1>8. CASE SettleHolds(w) \/ ReleaseHolds(w)
  <2>0. PICK d \in Decisions : d = target[w]
    BY <1>0, <1>8 DEF SettleHolds, ReleaseHolds
  <2>1. PICK s \in todo[w] :
           /\ SettleIn(s, d) \/ (ReleaseIn(s, d) /\ at[w] = "release")
           /\ todo' = [todo EXCEPT ![w] = @ \ {s}]
           /\ todo[w] # {s} => UNCHANGED <<at, target>>
    BY <1>8, <2>0 DEF SettleHolds, ReleaseHolds
  <2>2. /\ d \in Decisions /\ s \in Stores /\ UNCHANGED <<status, call>>
        /\ at[w] = "release" => status[d] \in Closed
    BY <1>8, <2>0, <2>1 DEF SettleHolds, ReleaseHolds, RequestsAgree
  <2>2a. \A p \in Requests \ {w} : at'[p] = at[p] /\ target'[p] = target[p]
    BY <1>8 DEF SettleHolds, ReleaseHolds
  <2>3. /\ ~ Outstanding(s, d)'
        /\ \A e \in Decisions, t \in Stores : Outstanding(t, e)' => Outstanding(t, e)
    BY <2>1, <2>2, ReleaseClears, SettleClears
  <2>4. \A p \in Decisions \cup Requests, e \in Decisions, t \in Stores :
           Cleaning(p, t, e) => Cleaning(p, t, e)' \/ (p = w /\ t = s /\ e = d)
    <3> SUFFICES ASSUME NEW p \in Decisions \cup Requests, NEW e \in Decisions,
                        NEW t \in Stores, Cleaning(p, t, e), ~ (p = w /\ t = s /\ e = d)
                 PROVE  Cleaning(p, t, e)'
      OBVIOUS
    <3>1. CASE p = w
      <4>1. e = d /\ t \in todo[w] /\ t # s
        BY <2>0, <3>1 DEF Cleaning
      <4>2. t \in todo'[w] /\ UNCHANGED <<at, target>>
        BY <2>1, <4>1
      <4> QED
        BY <2>2, <3>1, <4>1, <4>2 DEF Cleaning
    <3>2. CASE p # w
      BY <2>1, <2>2, <2>2a, <3>2 DEF Cleaning
    <3> QED
      BY <3>1, <3>2
  <2> QED
    BY <2>2, <2>3, <2>4, CleaningGoesOn
<1> QED
  BY <1>4, <1>5, <1>6, <1>7, <1>8 DEF ReconcileStep

\* A step of a revoke keeps the cleaning complete.
LEMMA RevokeFinished ==
    ASSUME CleanInv, NEW r \in Revokers, SuspendForRevoke(r) \/ RevokeStep(r)
    PROVE  FinishedIsCleaned'
<1>0a. FinishedIsCleaned /\ r \in Decisions \cup Requests
  BY DEF CleanInv, Requests
<1> USE GuardAssumption
    DEF CleanInv, IInv, TypeOK, Move, pgVars, switches, callVars, Requests
<1>1. ASSUME UNCHANGED call, at[r] \notin {"release", "settle", "repair"},
             \A p \in (Decisions \cup Requests) \ {r} :
                todo'[p] = todo[p] /\ (p \in Requests => at'[p] = at[p] /\ target'[p] = target[p])
      PROVE  \A p \in Decisions \cup Requests, e \in Decisions, s \in Stores :
                Cleaning(p, s, e) => Cleaning(p, s, e)'
  BY <1>1 DEF Cleaning
<1>2. ASSUME UNCHANGED <<pgVars, reservedHolds, call>>,
             at[r] \notin {"release", "settle", "repair"},
             \A p \in (Decisions \cup Requests) \ {r} :
                todo'[p] = todo[p] /\ (p \in Requests => at'[p] = at[p] /\ target'[p] = target[p])
      PROVE  FinishedIsCleaned'
  <2>1. \A e \in Decisions, s \in Stores :
           Outstanding(s, e)' = Outstanding(s, e) /\ status'[e] = status[e]
    BY <1>2 DEF Outstanding
  <2> QED
    BY <1>1, <1>2, <2>1, CleaningGoesOn
<1>3. CASE SuspendForRevoke(r) \/ ListReserved(r) \/ EndRevoke(r)
  BY <1>2, <1>3 DEF SuspendForRevoke, ListReserved, EndRevoke, hotVars
<1>4. ASSUME NEW d \in Decisions, AbortListed(r, d) PROVE FinishedIsCleaned'
  <2>1. CASE ~ CanClose(d)
    BY <1>2, <1>4, <2>1 DEF AbortListed, hotVars
  <2>2. CASE CanClose(d)
    <3>1. \A s \in Stores : Cleaning(r, s, d)'
      BY <1>4, <2>2 DEF AbortListed, Cleaning
    <3>2. \A e \in Decisions, s \in Stores :
             Outstanding(s, e)' = Outstanding(s, e) /\ (e # d => status'[e] = status[e])
      BY <1>4, <2>2 DEF AbortListed, hotVars, Outstanding
    <3>3. \A p \in Decisions \cup Requests, e \in Decisions, s \in Stores :
             Cleaning(p, s, e) => Cleaning(p, s, e)'
      BY <1>1, <1>4, <2>2 DEF AbortListed
    <3> HIDE GuardAssumption DEF CleanInv, IInv, TypeOK, Requests
    <3> QED
      BY <1>0a, <3>1, <3>2, <3>3, CleaningStarts
  <2> QED
    BY <2>1, <2>2
<1>5. CASE ReleaseListed(r)
  <2>0. PICK d \in Decisions : d = target[r]
    BY <1>5 DEF ReleaseListed, RequestsAgree
  <2>1. PICK s \in todo[r] :
           /\ ReleaseIn(s, d) /\ todo' = [todo EXCEPT ![r] = @ \ {s}]
           /\ todo[r] # {s} => UNCHANGED <<at, target>>
    BY <1>5, <2>0 DEF ReleaseListed
  <2>2. /\ d \in Decisions /\ s \in Stores /\ UNCHANGED <<status, call>>
        /\ status[d] \in Closed
        /\ \A p \in Requests \ {r} : at'[p] = at[p] /\ target'[p] = target[p]
    BY <1>5, <2>0, <2>1 DEF ReleaseListed, RequestsAgree
  <2>3. /\ ~ Outstanding(s, d)'
        /\ \A e \in Decisions, t \in Stores : Outstanding(t, e)' => Outstanding(t, e)
    BY <2>1, <2>2, ReleaseClears
  <2>4. \A p \in Decisions \cup Requests, e \in Decisions, t \in Stores :
           Cleaning(p, t, e) => Cleaning(p, t, e)' \/ (p = r /\ t = s /\ e = d)
    <3> SUFFICES ASSUME NEW p \in Decisions \cup Requests, NEW e \in Decisions,
                        NEW t \in Stores, Cleaning(p, t, e), ~ (p = r /\ t = s /\ e = d)
                 PROVE  Cleaning(p, t, e)'
      OBVIOUS
    <3>1. CASE p = r
      <4>1. e = d /\ t \in todo[r] /\ t # s
        BY <2>0, <3>1 DEF Cleaning
      <4>2. t \in todo'[r] /\ UNCHANGED <<at, target>>
        BY <2>1, <4>1
      <4> QED
        BY <2>2, <3>1, <4>1, <4>2 DEF Cleaning
    <3>2. CASE p # r
      BY <2>1, <2>2, <3>2 DEF Cleaning
    <3> QED
      BY <3>1, <3>2
  <2> QED
    BY <2>2, <2>3, <2>4, CleaningGoesOn
<1> QED
  BY <1>3, <1>4, <1>5 DEF RevokeStep

\* Requests other than calls may finish a reserved row, but they create no row and no hold.
LEMMA RequestClean ==
    ASSUME CleanInv, UNCHANGED <<lock, call>>, counted' \subseteq counted,
           \A d \in Decisions :
              status'[d] \in {"none", "DENIED", "RESERVED"} => status'[d] = status[d]
    PROVE  LocksAreHeld' /\ ReservedIsActive' /\ RowlessHoldIsActive'
BY DEF CleanInv, LocksAreHeld, ReservedIsActive, RowlessHoldIsActive

\* Without faults every step preserves CleanInv.
LEMMA CleanStep == NoFaults /\ CleanInv /\ [Next]_vars => CleanInv'
<1> SUFFICES ASSUME NoFaults, CleanInv, [Next]_vars PROVE CleanInv'
  OBVIOUS
<1>0. IInv'
  BY IInvStep DEF CleanInv
<1> USE DEF CleanInv
<1>1. ASSUME NEW d \in Decisions,
             AcquireLock(d) \/ CallStep(d) \/ Throw(d) \/ HaltCall(d) \/ Redeem(d)
      PROVE  CleanInv'
  BY <1>0, <1>1, CallClean, CallFinished
<1>2. ASSUME NEW w \in Workers, ReconcileStep(w) \/ \E d \in Decisions : ReadDecision(w, d)
      PROVE  CleanInv'
  <2>1. UNCHANGED <<lock, call>> /\ counted' \subseteq counted
    BY <1>2 DEF ReconcileStep, Observe, MarkSettled, SettleHolds, MarkExpiryCheck,
                ReadForTerminal, MarkTerminal, ReleaseHolds, Reread, ReadDecision, SettleIn,
                ReleaseIn, Hot!SettleHold, Hot!ReleaseHold, hotVars, callVars
  <2>2. \A d \in Decisions :
           status'[d] \in {"none", "DENIED", "RESERVED"} => status'[d] = status[d]
    BY <1>2 DEF ReconcileStep, Observe, MarkSettled, SettleHolds, MarkExpiryCheck,
                ReadForTerminal, MarkTerminal, ReleaseHolds, Reread, ReadDecision, pgVars,
                Closed, IInv, TypeOK
  <2> QED
    BY <1>0, <1>2, <2>1, <2>2, RequestClean, ReconcileFinished
<1>3. ASSUME NEW r \in Revokers, SuspendForRevoke(r) \/ RevokeStep(r) PROVE CleanInv'
  <2>1. UNCHANGED <<lock, call>> /\ counted' \subseteq counted
    BY <1>3 DEF SuspendForRevoke, RevokeStep, ListReserved, AbortListed, ReleaseListed,
                EndRevoke, ReleaseIn, Hot!ReleaseHold, hotVars, callVars
  <2>2. \A d \in Decisions :
           status'[d] \in {"none", "DENIED", "RESERVED"} => status'[d] = status[d]
    BY <1>3 DEF SuspendForRevoke, RevokeStep, ListReserved, AbortListed, ReleaseListed,
                EndRevoke, pgVars, IInv, TypeOK
  <2> QED
    BY <1>0, <1>3, <2>1, <2>2, RequestClean, RevokeFinished
<1>4. ASSUME NEW p \in Requests, HaltRequest(p) PROVE CleanInv'
  BY <1>4 DEF HaltRequest, NoFaults
<1>5. ASSUME UNCHANGED <<pgVars, counted, reservedHolds, call, at, target, todo>>,
             \A k \in Keys : lock'[k] \in {lock[k], NoDecision}
      PROVE  CleanInv'
  BY <1>0, <1>5 DEF pgVars, LocksAreHeld, ReservedIsActive, RowlessHoldIsActive,
                    FinishedIsCleaned, Cleaning, Outstanding
<1>6. ASSUME NEW on \in BOOLEAN, SetKillSwitch(on) \/ SetSuspended(on) PROVE CleanInv'
  BY <1>5, <1>6 DEF SetKillSwitch, SetSuspended, hotVars, callVars, requestVars
<1>7. ASSUME NEW k \in Keys, LockExpires(k) PROVE CleanInv'
  <2>1. \A j \in Keys : lock'[j] \in {lock[j], NoDecision}
    BY <1>7 DEF LockExpires, IInv, TypeOK
  <2> QED
    BY <1>5, <1>7, <2>1 DEF LockExpires, hotVars, callVars, requestVars
<1>8. CASE HotEnvironment
  BY <1>5, <1>8, HotEnvironmentKeepsHolds DEF HotEnvironment, callVars, requestVars
<1>9. CASE UNCHANGED vars
  <2>1. UNCHANGED <<pgVars, counted, reservedHolds, call, at, target, todo, lock>>
    BY <1>9 DEF vars, hotVars, pgVars
  <2> QED
    BY <1>5, <2>1
<1> QED
  BY <1>1, <1>2, <1>3, <1>4, <1>6, <1>7, <1>8, <1>9 DEF Next

\* Without crashes and store errors, a quiet moment finds no orphaned hold, no missing one,
\* nothing half authorized and no locked key.
THEOREM CleanWhenQuiet == NoFaults => (Spec => []QuietIsClean)
<1>1. Init => CleanInv
  BY InitIInv
  DEF Init, Hot!Init, CleanInv, LocksAreHeld, ReservedIsActive, RowlessHoldIsActive,
      FinishedIsCleaned, Closed
<1>2. CleanInv => QuietIsClean
  <2> SUFFICES ASSUME CleanInv, Quiet
               PROVE  /\ \A k \in Keys : lock[k] = NoDecision
                      /\ \A d \in Decisions :
                            /\ status[d] # "RESERVED"
                            /\ d \in reservedHolds <=> status[d] \in InFlight
                            /\ holdStatus[d] = "RESERVED" <=> status[d] \in InFlight
                            /\ d \in settledHolds <=> status[d] = "SETTLED"
    BY DEF QuietIsClean, CleanInv, IInv
  <2>1. \A k \in Keys : lock[k] = NoDecision
    BY DEF CleanInv, IInv, TypeOK, LocksAreHeld, Quiet
  <2>2. \A p \in Decisions \cup Requests, s \in Stores, d \in Decisions : ~ Cleaning(p, s, d)
    BY DEF Cleaning, Quiet
  <2> SUFFICES ASSUME NEW d \in Decisions
               PROVE  /\ status[d] # "RESERVED"
                      /\ d \in reservedHolds <=> status[d] \in InFlight
                      /\ holdStatus[d] = "RESERVED" <=> status[d] \in InFlight
                      /\ d \in settledHolds <=> status[d] = "SETTLED"
    BY <2>1
  <2>3. status[d] # "RESERVED"
    BY DEF CleanInv, ReservedIsActive, Quiet
  <2>4. status[d] \in {"none", "DENIED"} => d \notin counted /\ holdStatus[d] = "none"
    BY DEF CleanInv, RowlessHoldIsActive, Quiet, IInv, RowMatchesHold
  <2>5. status[d] \in Closed \cup {"SETTLED"} =>
           d \notin reservedHolds /\ holdStatus[d] # "RESERVED"
    BY <2>2 DEF CleanInv, FinishedIsCleaned, Outstanding, Stores
  <2>6. status[d] \in {"none", "DENIED", "SETTLED"} \cup InFlight \cup Closed
    BY DEF CleanInv, IInv, TypeOK
  <2>7. Hot!HoldsAreCounted /\ RowMatchesHold(d) /\ RowMatchesHotTier(d)
    BY DEF CleanInv, IInv
  <2> QED
    BY <2>3, <2>4, <2>5, <2>6, <2>7
    DEF Hot!HoldsAreCounted, RowMatchesHold, RowMatchesHotTier, InFlight, Closed
<1>3. ASSUME NoFaults PROVE Spec => []QuietIsClean
  BY <1>1, <1>2, <1>3, CleanStep, PTL DEF Spec
<1> QED
  BY <1>3
=============================================================================
