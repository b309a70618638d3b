----------------------------- MODULE CasperGuard -----------------------------
(***************************************************************************)
(* One agent's payments through Casper Guard: the authorize call, the      *)
(* on-demand reconcile and the revoke of an agent, as they interleave over *)
(* Postgres (the decision and its hold), Redis (the idempotency lock, the  *)
(* deny-all flag and the hot tier of module HotTier) and the chain.        *)
(*                                                                         *)
(* A decision id is minted for every authorize call, so a decision also    *)
(* names its call; several calls may carry the same idempotency key.  A    *)
(* step of a call is what it does between two awaits.  An instance of the  *)
(* server may stop between any two of them (the Halt actions), a store may *)
(* refuse a command, and the 30s lock may expire under a slow call.        *)
(*                                                                         *)
(* The audit anchor, the monitoring stream and the attempt log that        *)
(* reconcile writes beside the settlement are left out: nothing here reads *)
(* them.                                                                   *)
(***************************************************************************)
EXTENDS Integers, FiniteSets

CONSTANTS
    Decisions,      \* authorize calls, and the decisions they create
    Keys,           \* idempotency keys of the organisation
    KeyOf,          \* KeyOf[d]: the key call d carries
    Request,        \* Request[d]: fingerprint of agent, intent and policyRef
    Kind,           \* Kind[d]: the action kind, which selects the settlement reader
    Workers,        \* reconcile requests that may run at the same time
    Revokers,       \* revoke-agent requests that may run at the same time
    NoDecision,     \* no lock holder, no target
    Events,         \* bound: which moves of the environment this instance explores
    MaxPaid,        \* bound: transfers per decision
    Amount, Total, Teardowns, SpendCap, VelocityLimit, WindowHours, MaxHour, MaxFloat

Kinds == {"x402-payment", "cspr-trade", "casper-deploy"}

AllEvents == {"refusal", "killSwitch", "suspend", "lockExpiry", "halt",
              "storeError", "redeem", "lostAnswer"}

ASSUME GuardAssumption ==
    /\ KeyOf \in [Decisions -> Keys]
    /\ Kind \in [Decisions -> Kinds]
    /\ NoDecision \notin Decisions
    /\ Decisions \cap Workers = {} /\ Decisions \cap Revokers = {}
    /\ Workers \cap Revokers = {}
    /\ Events \subseteq AllEvents
    /\ MaxPaid \in Nat \ {0}

\* What HotTier asks of its constants.
ASSUME HotTierAssumption ==
    /\ IsFiniteSet(Decisions)
    /\ Amount \in [Decisions -> Nat]
    /\ Total \in [SUBSET Decisions -> Nat] /\ Total[{}] = 0
    /\ \A d \in Decisions : Total[{d}] = Amount[d]
    /\ \A S, T \in SUBSET Decisions :
          S \cap T = {} => Total[S \cup T] = Total[S] + Total[T]
    /\ SpendCap \in Nat /\ VelocityLimit \in Nat /\ WindowHours \in Nat \ {0}
    /\ MaxHour \in Nat /\ MaxFloat \in Nat

VARIABLES
    \* Postgres
    status,         \* casper_guard_decisions.status, "none" before the row exists
    holdStatus,     \* casper_guard_holds.status
    signed,         \* decisions with a signed_header_hash
    suspended,      \* agents.status = 'suspended'
    \* Redis
    lock,           \* lock[k]: the decision named in the idempotency lock of k
    denyAll,        \* the organisation's deny-all flag
    counted, score, reserved, reservedHolds, settledHolds, floatConfirmed, toReclaim,
    hour, caught,
    \* the chain
    paid,           \* paid[d]: how often money moved for d
    \* the requests
    call,           \* call[d]: where authorize call d stands
    answer,         \* answer[d]: what it answered, and about which decision
    at,             \* at[p]: where reconcile or revoke request p stands
    target,         \* target[p]: the decision p works on
    listed,         \* listed[r]: decisions revoke r has still to abort
    todo            \* todo[p]: stores that p has yet to tell of a resolved hold

FloatBackedDecisions == {d \in Decisions : Kind[d] \in {"x402-payment", "cspr-trade"}}

\* The hot tier, on this module's variables.
Hot == INSTANCE HotTier WITH Payments <- Decisions, FloatBacked <- FloatBackedDecisions

hotVars == <<counted, score, reserved, reservedHolds, settledHolds, floatConfirmed,
             toReclaim, hour, caught>>
pgVars == <<status, holdStatus, signed>>
switches == <<suspended, denyAll>>
callVars == <<call, answer>>
requestVars == <<at, target, listed>>
vars == <<status, holdStatus, signed, suspended, lock, denyAll, hotVars, paid,
          call, answer, at, target, listed, todo>>

Requests == Workers \cup Revokers
Stores == {"redis", "pg"}
InFlight == {"RESERVED", "SIGNED", "EXPIRY_CHECK"}
Closed == {"FAILED_TERMINAL", "EXPIRED"}

NoAnswer == [verdict |-> "none", about |-> NoDecision]
Answer(v, d) == [verdict |-> v, about |-> d]

Init ==
    /\ status = [d \in Decisions |-> "none"]
    /\ holdStatus = [d \in Decisions |-> "none"]
    /\ signed = {}
    /\ suspended = FALSE
    /\ lock = [k \in Keys |-> NoDecision]
    /\ denyAll = FALSE
    /\ Hot!Init
    /\ paid = [d \in Decisions |-> 0]
    /\ call = [d \in Decisions |-> "idle"]
    /\ answer = [d \in Decisions |-> NoAnswer]
    /\ at = [p \in Requests |-> "idle"]
    /\ target = [p \in Requests |-> NoDecision]
    /\ listed = [r \in Revokers |-> {}]
    /\ todo = [p \in Decisions \cup Requests |-> {}]

-----------------------------------------------------------------------------
(* Shared operations of store.ts and window.ts *)

\* Decisions stored under the key of call d (at most one: the unique index).
Stored(d) == {e \in Decisions : KeyOf[e] = KeyOf[d] /\ status[e] # "none"}

\* idempotencyFingerprint of two calls, or a stored row compared field by field with a call.
SameRequest(d, e) == Request[d] = Request[e]

\* Mutant of Replay: the fingerprint of the request is not compared.
ReplayAnyRequest(d, e) ==
    IF status[e] = "DENIED" THEN Answer("DENY", e)
    ELSE IF e \in signed THEN Answer("ALLOW", e)
    ELSE Answer("IN_PROGRESS", e)

\* authorizeResultFromExisting: what a replay of e answers to call d.  A signature is
\* never taken back, so a replay of a decision that failed after signing is an ALLOW.
Replay(d, e) ==
    IF ~ SameRequest(d, e) THEN Answer("CONFLICT", d)
    ELSE IF status[e] = "DENIED" THEN Answer("DENY", e)
    ELSE IF e \in signed THEN Answer("ALLOW", e)
    ELSE Answer("IN_PROGRESS", e)

\* Mutant of CanClose: a settled row may still be closed.
CanCloseSettled(d) == status[d] \notin {"none", "DENIED"} \cup Closed

\* markCasperGuardDecisionTerminal's WHERE clause.
CanClose(d) == status[d] \notin {"none", "DENIED", "SETTLED"} \cup Closed

\* One half of a release: releaseHold in Redis, releaseCasperGuardHold in Postgres.
ReleaseIn(s, d) ==
    \/ /\ s = "redis"
       /\ IF d \in counted \ settledHolds THEN Hot!ReleaseHold(d) ELSE UNCHANGED hotVars
       /\ UNCHANGED holdStatus
    \/ /\ s = "pg"
       /\ holdStatus' = IF holdStatus[d] = "RESERVED"
                        THEN [holdStatus EXCEPT ![d] = "RELEASED"] ELSE holdStatus
       /\ UNCHANGED hotVars

\* One half of a settlement: settleHold in Redis, settleCasperGuardHold in Postgres.
SettleIn(s, d) ==
    \/ /\ s = "redis"
       /\ IF d \in reservedHolds THEN Hot!SettleHold(d) ELSE UNCHANGED hotVars
       /\ UNCHANGED holdStatus
    \/ /\ s = "pg"
       /\ holdStatus' = IF holdStatus[d] = "RESERVED"
                        THEN [holdStatus EXCEPT ![d] = "SETTLED"] ELSE holdStatus
       /\ UNCHANGED hotVars

-----------------------------------------------------------------------------
(* authorizeCasperGuardIntent *)

Goto(d, step) == call' = [call EXCEPT ![d] = step]
Say(d, a) == answer' = [answer EXCEPT ![d] = a]

\* The lock is SET NX: the first call of a key gets it.
AcquireLock(d) ==
    /\ call[d] = "idle"
    /\ IF lock[KeyOf[d]] = NoDecision
       THEN lock' = [lock EXCEPT ![KeyOf[d]] = d] /\ Goto(d, "readExisting")
       ELSE Goto(d, "contended") /\ UNCHANGED lock
    /\ UNCHANGED <<pgVars, switches, hotVars, paid, answer, requestVars, todo>>

\* A call that lost the lock replays the stored decision, if there is one.
ReadContended(d) ==
    /\ call[d] = "contended"
    /\ IF Stored(d) = {}
       THEN Goto(d, "readLock") /\ UNCHANGED answer
       ELSE Goto(d, "done") /\ \E e \in Stored(d) : Say(d, Replay(d, e))
    /\ UNCHANGED <<pgVars, switches, lock, hotVars, paid, requestVars, todo>>

\* Otherwise the fingerprint in the lock tells a conflict from a call in progress; the
\* lock may be gone by now.
ReadLock(d) ==
    /\ call[d] = "readLock"
    /\ LET holder == lock[KeyOf[d]]
       IN  Say(d, IF holder # NoDecision /\ ~ SameRequest(d, holder)
                  THEN Answer("CONFLICT", d) ELSE Answer("IN_PROGRESS", d))
    /\ Goto(d, "done")
    /\ UNCHANGED <<pgVars, switches, lock, hotVars, paid, requestVars, todo>>

\* With the lock held: replay, or go on to the policy.
ReadExisting(d) ==
    /\ call[d] = "readExisting"
    /\ IF Stored(d) = {}
       THEN Goto(d, "evaluate") /\ UNCHANGED answer
       ELSE Goto(d, "unlock") /\ \E e \in Stored(d) : Say(d, Replay(d, e))
    /\ UNCHANGED <<pgVars, switches, lock, hotVars, paid, requestVars, todo>>

\* evaluateCasperGuardPolicy: the deny-all flag, then the checks of the intent against the
\* policy, whose verdict the environment chooses.
Evaluate(d) ==
    /\ call[d] = "evaluate"
    /\ \/ ~denyAll /\ Goto(d, "reserve")
       \/ (denyAll \/ "refusal" \in Events) /\ Goto(d, "persistDeny")
    /\ UNCHANGED <<pgVars, switches, lock, hotVars, paid, answer, requestVars, todo>>

\* persistDeny swallows the unique violation and the caller answers its own id all the same.
PersistDeny(d) ==
    /\ call[d] = "persistDeny"
    /\ status' = IF Stored(d) = {} THEN [status EXCEPT ![d] = "DENIED"] ELSE status
    /\ Say(d, Answer("DENY", d))
    /\ Goto(d, "unlock")
    /\ UNCHANGED <<holdStatus, signed, switches, lock, hotVars, paid, requestVars, todo>>

\* reserveHoldWithinPolicy, with the timestamp the route captured.
Reserve(d) ==
    /\ call[d] = "reserve"
    /\ \E t \in 0 .. hour :
          LET verdict == Hot!ReserveResult(d, t)
          IN  IF verdict = "reserved"
              THEN /\ Hot!ReserveHoldWithinPolicy(d, t)
                   /\ Goto(d, "insert") /\ UNCHANGED answer
              ELSE /\ UNCHANGED hotVars
                   /\ IF verdict = "duplicate"
                      THEN Goto(d, "unlock") /\ Say(d, Answer("IN_PROGRESS", d))
                      ELSE Goto(d, "persistDeny") /\ UNCHANGED answer
    /\ UNCHANGED <<pgVars, switches, lock, paid, requestVars, todo>>

\* createCasperGuardDecisionAndHold: both rows in one transaction, or a unique violation.
Insert(d) ==
    /\ call[d] = "insert"
    /\ IF Stored(d) = {}
       THEN /\ status' = [status EXCEPT ![d] = "RESERVED"]
            /\ holdStatus' = [holdStatus EXCEPT ![d] = "RESERVED"]
            /\ Goto(d, "checkOrg")
       ELSE Goto(d, "undoReplay") /\ UNCHANGED <<status, holdStatus>>
    /\ UNCHANGED <<signed, switches, lock, hotVars, paid, answer, requestVars, todo>>

\* Mutant of UndoReserve: the hold is kept.
UndoNothing(d) ==
    /\ call[d] \in {"undoReplay", "undoThrow"}
    /\ Goto(d, IF call[d] = "undoReplay" THEN "replay" ELSE "unlock")
    /\ UNCHANGED <<pgVars, switches, lock, hotVars, paid, answer, requestVars, todo>>

\* The catch around the insert: the hot tier forgets the hold, then the winner is replayed.
UndoReserve(d) ==
    /\ call[d] \in {"undoReplay", "undoThrow"}
    /\ ReleaseIn("redis", d)
    /\ Goto(d, IF call[d] = "undoReplay" THEN "replay" ELSE "unlock")
    /\ UNCHANGED <<pgVars, switches, lock, paid, answer, requestVars, todo>>

ReplayWinner(d) ==
    /\ call[d] = "replay"
    /\ \E e \in Stored(d) : Say(d, Replay(d, e))
    /\ Goto(d, "unlock")
    /\ UNCHANGED <<pgVars, switches, lock, hotVars, paid, requestVars, todo>>

\* The two switches are read again after the insert, one after the other.
CheckOrg(d) ==
    /\ call[d] = "checkOrg"
    /\ IF denyAll THEN Goto(d, "abortDeny") /\ Say(d, Answer("DENY", d))
       ELSE Goto(d, "checkAgent") /\ UNCHANGED answer
    /\ UNCHANGED <<pgVars, switches, lock, hotVars, paid, requestVars, todo>>

CheckAgent(d) ==
    /\ call[d] = "checkAgent"
    /\ IF suspended THEN Goto(d, "abortDeny") /\ Say(d, Answer("DENY", d))
       ELSE Goto(d, "sign") /\ UNCHANGED answer
    /\ UNCHANGED <<pgVars, switches, lock, hotVars, paid, requestVars, todo>>

\* The signer works outside the stores and may throw.
Sign(d) ==
    /\ call[d] = "sign"
    /\ Goto(d, "markSigned")
    /\ UNCHANGED <<pgVars, switches, lock, hotVars, paid, answer, requestVars, todo>>

\* markCasperGuardDecisionSigned; a row that moved meanwhile is an invalid transition.
MarkSigned(d) ==
    /\ call[d] = "markSigned"
    /\ IF status[d] = "RESERVED" /\ holdStatus[d] = "RESERVED"
       THEN /\ status' = [status EXCEPT ![d] = "SIGNED"]
            /\ signed' = signed \cup {d}
            /\ Say(d, Answer("ALLOW", d)) /\ Goto(d, "unlock")
       ELSE /\ Say(d, Answer("ERROR", d)) /\ Goto(d, "abort")
            /\ UNCHANGED <<status, signed>>
    /\ UNCHANGED <<holdStatus, switches, lock, hotVars, paid, requestVars, todo>>

\* failReservedDecision, after a switch was seen or in the catch around the signing: only the
\* call that closes the row releases the hold.
Abort(d) ==
    /\ call[d] \in {"abortDeny", "abort"}
    /\ IF CanClose(d)
       THEN /\ status' = [status EXCEPT ![d] = "FAILED_TERMINAL"]
            /\ todo' = [todo EXCEPT ![d] = Stores] /\ Goto(d, "release")
       ELSE Goto(d, "unlock") /\ UNCHANGED <<status, todo>>
    /\ UNCHANGED <<holdStatus, signed, switches, lock, hotVars, paid, answer, requestVars>>

ReleaseAborted(d) ==
    /\ call[d] = "release"
    /\ \E s \in todo[d] :
          /\ ReleaseIn(s, d)
          /\ todo' = [todo EXCEPT ![d] = @ \ {s}]
          /\ Goto(d, IF todo[d] = {s} THEN "unlock" ELSE "release")
    /\ UNCHANGED <<status, signed, switches, lock, paid, answer, requestVars>>

\* releaseIdempotencyLock is a GET and a DEL: the lock may change hands in between.
CheckLock(d) ==
    /\ call[d] = "unlock"
    /\ Goto(d, IF lock[KeyOf[d]] = d THEN "delLock" ELSE "done")
    /\ UNCHANGED <<pgVars, switches, lock, hotVars, paid, answer, requestVars, todo>>

DelLock(d) ==
    /\ call[d] = "delLock"
    /\ lock' = [lock EXCEPT ![KeyOf[d]] = NoDecision]
    /\ Goto(d, "done")
    /\ UNCHANGED <<pgVars, switches, hotVars, paid, answer, requestVars, todo>>

\* Mutant of AfterThrow: a failed signing is undone like a failed insert, in Redis alone.
AfterThrowUndo(step) ==
    CASE step \in {"insert", "checkOrg", "checkAgent", "abortDeny", "sign", "markSigned"} ->
            "undoThrow"
      [] step \in {"contended", "readLock", "unlock", "delLock"} -> "done"
      [] OTHER -> "unlock"

\* Where an exception takes the call: the catch around the insert, the catch around the
\* signing, the finally, or straight out.
AfterThrow(step) ==
    CASE step = "insert" -> "undoThrow"
      [] step \in {"checkOrg", "checkAgent", "abortDeny", "sign", "markSigned"} -> "abort"
      [] step \in {"contended", "readLock", "unlock", "delLock"} -> "done"
      [] OTHER -> "unlock"

\* An await of the call rejects without effect.  The two releases of failReservedDecision
\* are allSettled: one rejection does not stop the other.
Throw(d) ==
    /\ "storeError" \in Events
    /\ call[d] \notin {"idle", "done", "dead"}
    /\ Say(d, Answer("ERROR", d))
    /\ IF call[d] = "release"
       THEN \E s \in todo[d] : /\ todo' = [todo EXCEPT ![d] = @ \ {s}]
                               /\ Goto(d, IF todo[d] = {s} THEN "unlock" ELSE "release")
       ELSE Goto(d, AfterThrow(call[d])) /\ UNCHANGED todo
    /\ UNCHANGED <<pgVars, switches, lock, hotVars, paid, requestVars>>

-----------------------------------------------------------------------------
(* reconcileCasperGuardDecision *)

Move(p, step) == at' = [at EXCEPT ![p] = step]
Finish(p) == Move(p, "idle") /\ target' = [target EXCEPT ![p] = NoDecision]

\* The decision is read once.  A settled one has its hold cleaned up again, a signed one is
\* observed, every other one is answered or refused without a write.
ReadDecision(w, d) ==
    /\ at[w] = "idle"
    /\ \/ status[d] = "SETTLED" /\ Move(w, "repair") /\ todo' = [todo EXCEPT ![w] = Stores]
       \/ status[d] \in InFlight /\ d \in signed /\ Move(w, "observe") /\ UNCHANGED todo
    /\ target' = [target EXCEPT ![w] = d]
    /\ UNCHANGED <<pgVars, switches, lock, hotVars, paid, callVars, listed>>

\* An x402 authorization carries a nonce, so the chain honours it once; a swap has none.
CanPay(d) == paid[d] < IF Kind[d] = "x402-payment" THEN 1 ELSE MaxPaid

\* Mutant of Observe: an error of the reader counts as a settlement.
ObserveErrorAsSettled(w) ==
    /\ at[w] = "observe"
    /\ Move(w, "markSettled")
    /\ UNCHANGED <<pgVars, switches, lock, hotVars, paid, callVars, target, listed, todo>>

\* The settlement readers.  No hash is stored before SETTLED, so the facilitator reader
\* submits the transfer and the trade reader the swap, and every error of the call is
\* "failed"; for a deploy the caller's own evidence decides.
Observe(w) ==
    LET d == target[w]
    IN  /\ at[w] = "observe"
        /\ \/ /\ Kind[d] = "casper-deploy"
              /\ \E step \in {"markSettled", "markExpiry", "resolve"} : Move(w, step)
              /\ UNCHANGED paid
           \/ /\ Kind[d] # "casper-deploy" /\ CanPay(d)
              /\ paid' = [paid EXCEPT ![d] = @ + 1]
              /\ \/ Move(w, "markSettled")
                 \/ "lostAnswer" \in Events /\ Move(w, "resolve")
           \/ /\ Kind[d] # "casper-deploy" /\ (~CanPay(d) \/ "refusal" \in Events)
              /\ Move(w, "resolve") /\ UNCHANGED paid
        /\ UNCHANGED <<pgVars, switches, lock, hotVars, callVars, target, listed, todo>>

\* Mutant of MarkSettled: the update trusts the status that was read before the observation.
MarkSettledUnguarded(w) ==
    /\ at[w] = "markSettled"
    /\ status' = [status EXCEPT ![target[w]] = "SETTLED"]
    /\ todo' = [todo EXCEPT ![w] = Stores]
    /\ Move(w, "settle")
    /\ UNCHANGED <<holdStatus, signed, switches, lock, hotVars, paid, callVars, target, listed>>

\* markCasperGuardDecisionSettled, of settleSignedDecision.
MarkSettled(w) ==
    LET d == target[w]
    IN  /\ at[w] = "markSettled"
        /\ IF status[d] \in {"SIGNED", "EXPIRY_CHECK"} /\ d \in signed
              /\ holdStatus[d] = "RESERVED"
           THEN /\ status' = [status EXCEPT ![d] = "SETTLED"]
                /\ todo' = [todo EXCEPT ![w] = Stores]
                /\ Move(w, "settle") /\ UNCHANGED target
           ELSE Finish(w) /\ UNCHANGED <<status, todo>>
        /\ UNCHANGED <<holdStatus, signed, switches, lock, hotVars, paid, callVars, listed>>

\* The parallel settlement of both holds, first or repeated (repairSettledHoldCleanup).
SettleHolds(w) ==
    /\ at[w] \in {"settle", "repair"}
    /\ \E s \in todo[w] :
          /\ SettleIn(s, target[w])
          /\ todo' = [todo EXCEPT ![w] = @ \ {s}]
          /\ IF todo[w] = {s} THEN Finish(w) ELSE UNCHANGED <<at, target>>
    /\ UNCHANGED <<status, signed, switches, lock, paid, callVars, listed>>

MarkExpiryCheck(w) ==
    LET d == target[w]
    IN  /\ at[w] = "markExpiry"
        /\ status' = IF status[d] = "SIGNED" /\ d \in signed
                     THEN [status EXCEPT ![d] = "EXPIRY_CHECK"] ELSE status
        /\ Move(w, "reread")
        /\ UNCHANGED <<holdStatus, signed, switches, lock, hotVars, paid, callVars,
                       target, listed, todo>>

\* resolveCasperGuardTerminalFailure: the row is read, then marked, then released; a row
\* that is closed already has its hold released again.
ReadForTerminal(w) ==
    LET d == target[w]
    IN  /\ at[w] = "resolve"
        /\ IF status[d] \in Closed
           THEN Move(w, "release") /\ todo' = [todo EXCEPT ![w] = Stores]
           ELSE /\ Move(w, IF CanClose(d) THEN "markTerminal" ELSE "reread")
                /\ UNCHANGED todo
        /\ UNCHANGED <<pgVars, switches, lock, hotVars, paid, callVars, target, listed>>

MarkTerminal(w) ==
    LET d == target[w]
    IN  /\ at[w] = "markTerminal"
        /\ IF CanClose(d)
           THEN /\ \E st \in IF Kind[d] = "casper-deploy" THEN Closed
                             ELSE {"FAILED_TERMINAL"} :
                      status' = [status EXCEPT ![d] = st]
                /\ todo' = [todo EXCEPT ![w] = Stores]
                /\ Move(w, "release")
           ELSE Move(w, "reread") /\ UNCHANGED <<status, todo>>
        /\ UNCHANGED <<holdStatus, signed, switches, lock, hotVars, paid, callVars,
                       target, listed>>

ReleaseHolds(w) ==
    /\ w \in Workers /\ at[w] = "release"
    /\ \E s \in todo[w] :
          /\ ReleaseIn(s, target[w])
          /\ todo' = [todo EXCEPT ![w] = @ \ {s}]
          /\ IF todo[w] = {s} THEN Move(w, "reread") ELSE UNCHANGED at
    /\ UNCHANGED <<status, signed, switches, lock, paid, callVars, target, listed>>

\* resultFromCurrentDecision: the row that another request settled meanwhile is cleaned up.
Reread(w) ==
    /\ at[w] = "reread"
    /\ IF status[target[w]] = "SETTLED"
       THEN /\ Move(w, "repair") /\ todo' = [todo EXCEPT ![w] = Stores]
            /\ UNCHANGED target
       ELSE Finish(w) /\ UNCHANGED todo
    /\ UNCHANGED <<pgVars, switches, lock, hotVars, paid, callVars, listed>>

-----------------------------------------------------------------------------
(* revokeAgentDelegation and revokeAgentInFlight *)

\* suspendAgent comes first (the delegated key, another table, second).
SuspendForRevoke(r) ==
    /\ at[r] = "idle"
    /\ suspended' = TRUE
    /\ Move(r, "list")
    /\ UNCHANGED <<pgVars, denyAll, lock, hotVars, paid, callVars, target, listed, todo>>

\* listCasperGuardDecisionsForRevoke: the RESERVED ones are to be aborted.
ListReserved(r) ==
    /\ at[r] = "list"
    /\ listed' = [listed EXCEPT ![r] = {d \in Decisions : status[d] = "RESERVED"}]
    /\ Move(r, "abortNext")
    /\ UNCHANGED <<pgVars, switches, lock, hotVars, paid, callVars, target, todo>>

\* Mutant of AbortListed: the list is trusted, the row is not looked at again.
AbortBlindly(r, d) ==
    /\ at[r] = "abortNext" /\ d \in listed[r]
    /\ listed' = [listed EXCEPT ![r] = @ \ {d}]
    /\ status' = [status EXCEPT ![d] = "FAILED_TERMINAL"]
    /\ todo' = [todo EXCEPT ![r] = Stores]
    /\ target' = [target EXCEPT ![r] = d]
    /\ Move(r, "release")
    /\ UNCHANGED <<holdStatus, signed, switches, lock, hotVars, paid, callVars>>

\* failReservedDecision for the next decision of the list, whatever became of it since.
AbortListed(r, d) ==
    /\ at[r] = "abortNext" /\ d \in listed[r]
    /\ listed' = [listed EXCEPT ![r] = @ \ {d}]
    /\ IF CanClose(d)
       THEN /\ status' = [status EXCEPT ![d] = "FAILED_TERMINAL"]
            /\ todo' = [todo EXCEPT ![r] = Stores]
            /\ target' = [target EXCEPT ![r] = d]
            /\ Move(r, "release")
       ELSE UNCHANGED <<status, todo, target, at>>
    /\ UNCHANGED <<holdStatus, signed, switches, lock, hotVars, paid, callVars>>

ReleaseListed(r) ==
    /\ r \in Revokers /\ at[r] = "release"
    /\ \E s \in todo[r] :
          /\ ReleaseIn(s, target[r])
          /\ todo' = [todo EXCEPT ![r] = @ \ {s}]
          /\ IF todo[r] = {s}
             THEN Move(r, "abortNext") /\ target' = [target EXCEPT ![r] = NoDecision]
             ELSE UNCHANGED <<at, target>>
    /\ UNCHANGED <<status, signed, switches, lock, paid, callVars, listed>>

\* Mutant of EndRevoke: the revoke waits until nothing is reserved.
EndRevokeWhenNoneReserved(r) ==
    /\ at[r] = "abortNext" /\ listed[r] = {}
    /\ \A d \in Decisions : status[d] # "RESERVED"
    /\ Move(r, "idle")
    /\ UNCHANGED <<pgVars, switches, lock, hotVars, paid, callVars, target, listed, todo>>

EndRevoke(r) ==
    /\ at[r] = "abortNext" /\ listed[r] = {}
    /\ Move(r, "idle")
    /\ UNCHANGED <<pgVars, switches, lock, hotVars, paid, callVars, target, listed, todo>>

-----------------------------------------------------------------------------
(* The environment *)

\* setOrgKillSwitch and clearOrgKillSwitch.
SetKillSwitch(on) ==
    /\ "killSwitch" \in Events /\ denyAll # on
    /\ denyAll' = on
    /\ UNCHANGED <<pgVars, suspended, lock, hotVars, paid, callVars, requestVars, todo>>

\* suspendAgent by the operator, and reinstateAgent.
SetSuspended(on) ==
    /\ "suspend" \in Events /\ suspended # on
    /\ suspended' = on
    /\ UNCHANGED <<pgVars, denyAll, lock, hotVars, paid, callVars, requestVars, todo>>

\* The 30s of the lock (EX 30) are over.
LockExpires(k) ==
    /\ "lockExpiry" \in Events /\ lock[k] # NoDecision
    /\ lock' = [lock EXCEPT ![k] = NoDecision]
    /\ UNCHANGED <<pgVars, switches, hotVars, paid, callVars, requestVars, todo>>

\* The server instance that runs the call, or the request, stops; both stores live on.
HaltCall(d) ==
    /\ "halt" \in Events /\ call[d] \notin {"idle", "done", "dead"}
    /\ Goto(d, "dead")
    /\ todo' = [todo EXCEPT ![d] = {}]
    /\ UNCHANGED <<pgVars, switches, lock, hotVars, paid, answer, requestVars>>

\* An exception in a reconcile or a revoke has the same effect: nothing is caught there.
HaltRequest(p) ==
    /\ "halt" \in Events /\ at[p] # "idle"
    /\ Finish(p)
    /\ todo' = [todo EXCEPT ![p] = {}]
    /\ listed' = [r \in Revokers |-> IF r = p THEN {} ELSE listed[r]]
    /\ UNCHANGED <<pgVars, switches, lock, hotVars, paid, callVars>>

\* The agent's guarded fetch retries with the header of an ALLOW, and the service it pays
\* presents that to the facilitator itself.  A DENY or an error never yields a retry.
Redeem(d) ==
    /\ "redeem" \in Events /\ Kind[d] = "x402-payment"
    /\ call[d] = "done" /\ answer[d] = Answer("ALLOW", d) /\ CanPay(d)
    /\ paid' = [paid EXCEPT ![d] = @ + 1]
    /\ UNCHANGED <<pgVars, switches, lock, hotVars, callVars, requestVars, todo>>

\* Float arrives and is taken back, and time passes, in the hot tier.
HotEnvironment ==
    /\ \/ Hot!Tick
       \/ \E n \in 1 .. MaxFloat : Hot!ConfirmFloat(n)
       \/ \E t \in Teardowns : Hot!ReadFloat(t) \/ Hot!DecrFloat(t)
    /\ UNCHANGED <<pgVars, switches, lock, paid, callVars, requestVars, todo>>

-----------------------------------------------------------------------------

\* What a call, a reconcile and a revoke do once started.
CallStep(d) ==
    \/ ReadContended(d) \/ ReadLock(d) \/ ReadExisting(d) \/ Evaluate(d)
    \/ PersistDeny(d) \/ Reserve(d) \/ Insert(d) \/ UndoReserve(d) \/ ReplayWinner(d)
    \/ CheckOrg(d) \/ CheckAgent(d) \/ Sign(d) \/ MarkSigned(d) \/ Abort(d)
    \/ ReleaseAborted(d) \/ CheckLock(d) \/ DelLock(d)

ReconcileStep(w) ==
    \/ Observe(w) \/ MarkSettled(w) \/ SettleHolds(w) \/ MarkExpiryCheck(w)
    \/ ReadForTerminal(w) \/ MarkTerminal(w) \/ ReleaseHolds(w) \/ Reread(w)

RevokeStep(r) ==
    \/ ListReserved(r) \/ (\E d \in Decisions : AbortListed(r, d)) \/ ReleaseListed(r)
    \/ EndRevoke(r)

Next ==
    \/ \E d \in Decisions :
          AcquireLock(d) \/ CallStep(d) \/ Throw(d) \/ HaltCall(d) \/ Redeem(d)
    \/ \E w \in Workers : ReconcileStep(w) \/ \E d \in Decisions : ReadDecision(w, d)
    \/ \E r \in Revokers : SuspendForRevoke(r) \/ RevokeStep(r)
    \/ \E p \in Requests : HaltRequest(p)
    \/ \E on \in BOOLEAN : SetKillSwitch(on) \/ SetSuspended(on)
    \/ \E k \in Keys : LockExpires(k)
    \/ HotEnvironment

Spec == Init /\ [][Next]_vars

\* A request that was started goes on unless its instance stops; nothing waits for a lock to
\* expire.  Nothing makes an agent start a call or ask for a reconcile.
Fairness ==
    /\ \A d \in Decisions : WF_vars(CallStep(d))
    /\ \A w \in Workers : WF_vars(ReconcileStep(w))
    /\ \A r \in Revokers : WF_vars(RevokeStep(r))

FairSpec == Spec /\ Fairness

-----------------------------------------------------------------------------
(* Properties *)

\* Every store and every request holds a value of its kind.
TypeOK ==
    /\ status \in [Decisions -> {"none", "DENIED", "SETTLED"} \cup InFlight \cup Closed]
    /\ holdStatus \in [Decisions -> {"none", "RESERVED", "SETTLED", "RELEASED"}]
    /\ signed \in SUBSET Decisions
    /\ suspended \in BOOLEAN
    /\ lock \in [Keys -> Decisions \cup {NoDecision}]
    /\ denyAll \in BOOLEAN
    /\ Hot!TypeOK
    /\ paid \in [Decisions -> 0 .. MaxPaid]
    /\ call \in [Decisions -> {"idle", "contended", "readLock", "readExisting",
                               "evaluate", "persistDeny", "reserve", "insert",
                               "undoReplay", "undoThrow", "replay", "checkOrg",
                               "checkAgent", "sign", "markSigned", "abortDeny", "abort",
                               "release", "unlock", "delLock", "done", "dead"}]
    /\ answer \in [Decisions ->
                     [verdict : {"none", "ALLOW", "DENY", "CONFLICT", "IN_PROGRESS",
                                 "ERROR"},
                      about : Decisions \cup {NoDecision}]]
    /\ at \in [Requests -> {"idle", "observe", "markSettled", "settle", "repair",
                            "markExpiry", "resolve", "markTerminal", "release",
                            "reread", "list", "abortNext"}]
    /\ target \in [Requests -> Decisions \cup {NoDecision}]
    /\ listed \in [Revokers -> SUBSET Decisions]
    /\ todo \in [Decisions \cup Requests -> SUBSET Stores]

\* While a decision may still be paid, both stores hold its budget: no abort, reconcile,
\* revoke, replay, crash or failed command frees it before the decision is closed.
InFlightIsHeld ==
    \A d \in Decisions :
        status[d] \in InFlight => holdStatus[d] = "RESERVED" /\ d \in reservedHolds

\* Settlement and release exclude each other in both stores: the request that lost the
\* race for the decision row never touches the hold in the other direction.
NeverSettledAndReleased ==
    \A d \in Decisions :
        /\ status[d] = "SETTLED" => holdStatus[d] # "RELEASED" /\ d \in counted
        /\ status[d] \in Closed => holdStatus[d] # "SETTLED" /\ d \notin settledHolds

\* What the rows of Postgres may still pay, or have paid, in a spend window stays within the
\* cap, which only Redis ever checks: no abort, crash or refused command makes Redis forget a
\* payment that Postgres goes through with, and so take another one in its place.
SpendWithinCap ==
    \A t \in 0 .. hour :
        Total[{d \in Decisions : /\ status[d] \in InFlight \cup {"SETTLED"}
                                 /\ Hot!WindowStart(score[d]) = Hot!WindowStart(t)}]
            <= SpendCap

\* However calls of one key overlap, and even when the lock expires under them, those that
\* are allowed name one decision, and it was taken for the same request.
OneAllowPerKey ==
    \A d, e \in Decisions :
        /\ answer[d].verdict = "ALLOW" /\ answer[e].verdict = "ALLOW"
        /\ KeyOf[d] = KeyOf[e]
        => answer[d].about = answer[e].about /\ Request[d] = Request[e]

\* A decision settled by its own reader has moved money, and nothing is submitted or handed
\* out for redemption before the decision row is signed.
SettledWasPaid ==
    \A d \in Decisions :
        /\ status[d] = "SETTLED" /\ Kind[d] # "casper-deploy" => paid[d] > 0
        /\ paid[d] > 0 => d \in signed

Quiet ==
    /\ \A d \in Decisions : call[d] \in {"idle", "done"}
    /\ \A p \in Requests : at[p] = "idle"

\* Without crashes and store errors, once every request has ended no hold is orphaned in
\* either store, none is missing, nothing is left half authorized and no key is locked.
QuietIsClean ==
    /\ TypeOK
    /\ Quiet =>
         /\ \A k \in Keys : lock[k] = NoDecision
         /\ \A d \in Decisions :
               /\ status[d] # "RESERVED"
               /\ d \in reservedHolds <=> status[d] \in InFlight
               /\ holdStatus[d] = "RESERVED" <=> status[d] \in InFlight
               /\ d \in settledHolds <=> status[d] = "SETTLED"

\* Every authorize call that was started answers, unless its instance stops, and every
\* reconcile and every revoke ends.
RequestsEnd ==
    /\ \A d \in Decisions : (call[d] # "idle") ~> (call[d] \in {"done", "dead"})
    /\ \A p \in Requests : (at[p] # "idle") ~> (at[p] = "idle")

\* The lifecycle an agent sees.
StageOf ==
    [d \in Decisions |->
        CASE status[d] = "none" -> "new"
          [] status[d] = "DENIED" -> "refused"
          [] status[d] = "RESERVED" -> "promised"
          [] status[d] \in {"SIGNED", "EXPIRY_CHECK"} -> "committed"
          [] status[d] = "SETTLED" -> "paid"
          [] status[d] \in Closed -> "closed"]

Lifecycle == INSTANCE PaymentLifecycle
                WITH Payments <- Decisions, stage <- StageOf, held <- counted

\* Casper Guard implements the payment lifecycle, the spend window being its budget.
ImplementsLifecycle == Lifecycle!Spec

\* revokeAgentInFlight leaves a decision that is signed to settle.
RevokeSparesSigned ==
    [][\A r \in Revokers, d \in Decisions :
          AbortListed(r, d) /\ d \in signed => status'[d] = status[d]]_vars
=============================================================================
