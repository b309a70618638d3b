------------------------------ MODULE Settlement ------------------------------
(***************************************************************************)
(* What becomes of one authorized decision: the network slots of the       *)
(* deployment, the readers that settle it, the attempts and the anchor     *)
(* that prove it.                                                          *)
(*                                                                         *)
(* A job is one reconcile request, over HTTP or MCP, or one revoke; its    *)
(* steps are its awaits.  Of the decision's holds only the row in Postgres *)
(* is kept, which the transitions depend on; the hold in Redis, settled or *)
(* released next to it, is CasperGuard's.                                  *)
(***************************************************************************)
EXTENDS Integers, FiniteSets, FiniteSetsExt

CONSTANTS
    Deployments,   \* possible configurations of the slots: see Parts
    Jobs,
    TxHashes,      \* hashes that a chain or a caller reports
    MaxTries,      \* inserts of one attempt (5 in the code)
    MaxAttempts,   \* bound: attempts of the decision
    MaxTakeovers   \* bound: stale claims taken over

ASSUME SettlementAssumption ==
    /\ IsFiniteSet(Jobs)
    /\ MaxTries \in Nat \ {0} /\ MaxAttempts \in Nat /\ MaxTakeovers \in Nat

VARIABLES
    env,        \* env[n]: the parts the slot of network n is configured with
    kind, net,  \* of the decision
    decision,   \* its row
    held,       \* its hold in Postgres
    attempts,   \* its reconciliation attempts
    anchors,    \* its anchor rows by decision hash: status, and is the claim recent?
    moved,      \* moved[n]: how often its payment was executed on network n (up to 2)
    registry,   \* registry[n]: the hash anchored in the contract of network n
    job,        \* job[w]: where request w stands and what it has read
    reverted,   \* history: the contract refused an anchor
    crossed,    \* history: two requests observed the decision at a time, or one did in vain
    takeovers   \* history: stale claims taken over

config == <<env, kind, net>>
chain == <<moved, registry, reverted>>
history == <<crossed, takeovers>>
settlementVars == <<config, decision, held, attempts, anchors, chain, job, history>>

CasperNets == {"test", "main"}
Parts == {"signer", "rpc", "facilitator", "venue", "odra"}
Kinds == {"x402-payment", "cspr-trade", "casper-deploy"}
Final == {"SETTLED", "FAILED_TERMINAL"}
NoTxHash == "no tx"
NoHash == <<FALSE, NoTxHash>>

Resting == [at |-> "rest", slot |-> "test", hash |-> NoHash, obs |-> "none", tx |-> NoTxHash,
            n |-> 0, tries |-> 0, then |-> "rest"]
Becomes(w, next) == job' = [job EXCEPT ![w] = next]
To(w, at) == [job[w] EXCEPT !.at = at]

\* Requests that have looked at the decision and not yet recorded on it what they observed.
Observers ==
    {w \in Jobs : \/ job[w].at \in {"observe", "observeMcp", "attempt", "renumber", "markSettled"}
                  \/ job[w].at \in {"fail", "markFailed"} /\ job[w].obs = "failed"}

SettlementInit ==
    /\ env \in Deployments
    /\ kind \in Kinds
    /\ net \in CasperNets
    /\ decision = [status |-> "none", signed |-> FALSE, tx |-> NoTxHash]
    /\ held = "none"
    /\ attempts = {} /\ anchors = << >>
    /\ moved = [n \in CasperNets |-> 0]
    /\ registry = [n \in CasperNets |-> NoHash]
    /\ job = [w \in Jobs |-> Resting]
    /\ reverted = FALSE /\ crossed = FALSE /\ takeovers = 0
-----------------------------------------------------------------------------
(* Slots and authorization.                                                *)

\* A request is served from a slot with a signer.
SelectNetworkSlot(n) == {n} \cap {m \in CasperNets : "signer" \in env[m]}

\* The decision and its hold.
Authorized ==
    /\ decision.status = "none"
    /\ decision' = [decision EXCEPT !.status = "RESERVED"]
    /\ held' = "RESERVED"
    /\ UNCHANGED <<config, attempts, anchors, chain, job, history>>

\* The header selects the slot, and an intent of another network is refused.
HeaderServes(header) == SelectNetworkSlot(header) # {} /\ net = header

\* POST authorize-x402 makes the intent of the service's challenge, POST authorize-action
\* takes one of any kind.
AuthorizeX402(header) == kind = "x402-payment" /\ HeaderServes(header) /\ Authorized
AuthorizeAction(header) == HeaderServes(header) /\ Authorized

\* Over MCP the network of the intent selects the slot.
AuthorizeMcp == SelectNetworkSlot(net) # {} /\ Authorized

MarkSigned ==
    /\ decision.status = "RESERVED" /\ held = "RESERVED"
    /\ decision' = [decision EXCEPT !.status = "SIGNED", !.signed = TRUE]
    /\ UNCHANGED <<config, held, attempts, anchors, chain, job, history>>

\* The reader that buildNetworkSlot wires into a slot for this decision.
ReaderOf(slot) ==
    CASE "rpc" \notin env[slot] -> "none"
      [] "rpc" \in env[slot] /\ kind = "cspr-trade" -> "trade"
      [] "rpc" \in env[slot] /\ kind = "x402-payment" /\ "facilitator" \in env[slot] ->
             "facilitator"
      [] OTHER -> "node"

\* The network whose venue, node and registry the clients of a slot talk to.
NetworkOfSlot(slot) == slot
-----------------------------------------------------------------------------
(* A request reads the decision.                                           *)

\* Mutant of DecisionHash: the canonical form includes the status of the hold.
DecisionHashWithHold(r) == <<held = "SETTLED", r.tx>>

\* The fields that still vary once a decision is reserved.
DecisionHash(r) == <<r.signed, r.tx>>

Numbers == {a.n : a \in attempts}
NextAttemptNumber == Max(Numbers \cup {0}) + 1
IsAnchored(h) == h \in DOMAIN anchors /\ anchors[h].status = "confirmed"

\* What a request that reads a settled decision still has to do.
AnchorFrom(slot) ==
    IF IsAnchored(DecisionHash(decision)) \/ "odra" \notin env[slot] THEN "rest" ELSE "claim"

\* The request turns to the anchor, by way of the repair of the hold if it must.
TurnsToAnchor(w, slot, repairs) ==
    LET next == IF repairs THEN "settle" ELSE AnchorFrom(slot) IN
    Becomes(w, IF next = "rest" THEN Resting
            ELSE [Resting EXCEPT !.at = next, !.slot = slot, !.hash = DecisionHash(decision),
                                 !.then = IF repairs THEN AnchorFrom(slot) ELSE "rest"])

Reconciles(w, slot, at) ==
    /\ job[w] = Resting
    /\ IF decision.status = "SETTLED"
       THEN TurnsToAnchor(w, slot, TRUE)
       ELSE /\ decision.signed /\ decision.status \notin Final
            /\ Becomes(w, [Resting EXCEPT !.at = at, !.slot = slot, !.n = NextAttemptNumber])
    /\ crossed' = (crossed \/ (decision.status # "SETTLED" /\ Observers # {}))
    /\ UNCHANGED <<config, decision, held, attempts, anchors, chain, takeovers>>

\* Over HTTP the header selects the slot, whatever network the decision is of.
OpenReconcileHttp(w, header) ==
    \E slot \in SelectNetworkSlot(header) : Reconciles(w, slot, "observe")

\* Over MCP the legacy fields serve it, which mirror the testnet slot.
OpenReconcileMcp(w) == Reconciles(w, "test", "observeMcp")

\* A revoke lists the reserved decisions and fails them.
OpenRevoke(w) ==
    /\ job[w] = Resting
    /\ decision.status = "RESERVED"
    /\ Becomes(w, [Resting EXCEPT !.at = "fail"])
    /\ UNCHANGED <<config, decision, held, attempts, anchors, chain, history>>
-----------------------------------------------------------------------------
(* The settlement readers.                                                 *)

\* The trade client of a slot needs a venue, and puts its transactions to the slot's own node.
TradeClient(slot) == {n \in {NetworkOfSlot(slot)} : {"venue", "rpc"} \subseteq env[slot]}

\* submit builds a swap at the venue, signs it and puts it to the node.  A swap carries no
\* nonce: each one executes.
Swaps(slot) == IF ReaderOf(slot) = "trade" THEN TradeClient(slot) ELSE {}

\* settle has the facilitator redeem the signed authorization, which names its network and
\* carries a nonce.
Redeems(slot) == {n \in {net} : ReaderOf(slot) = "facilitator" /\ moved[n] = 0}

\* The answer may be lost after the execution, and every error is "failed".  No hash is
\* stored before the settlement, so the node reader finds none: pending.
Executes(w) == Swaps(job[w].slot) \cup Redeems(job[w].slot)

Answers(w) ==
    CASE ReaderOf(job[w].slot) \in {"none", "node"} ->
             IF job[w].at = "observeMcp" THEN {"pending"} ELSE {"settled", "pending", "failed"}
      [] OTHER -> {"failed"}

Observe(w) ==
    /\ job[w].at \in {"observe", "observeMcp"}
    /\ Cardinality(attempts) < MaxAttempts
    /\ \/ /\ \E n \in Executes(w) : moved' = [moved EXCEPT ![n] = IF @ = 2 THEN 2 ELSE @ + 1]
          /\ \/ \E t \in TxHashes :
                    Becomes(w, [To(w, "attempt") EXCEPT !.obs = "settled", !.tx = t])
             \/ Becomes(w, [To(w, "attempt") EXCEPT !.obs = "failed"])
       \/ /\ \E o \in Answers(w), t \in TxHashes \cup {NoTxHash} :
                /\ (o # "settled") => (t = NoTxHash)
                /\ Becomes(w, [To(w, "attempt") EXCEPT !.obs = o, !.tx = t])
          /\ UNCHANGED moved
    /\ UNCHANGED <<config, decision, held, attempts, anchors, registry, reverted, history>>

\* Mutant of Effect: a failed observation leaves the row to a later reconcile.
EffectRetriesFailed(o) == IF o = "settled" THEN "markSettled" ELSE "markExpiry"

\* What an observation does to the row.
Effect(o) ==
    CASE o = "settled" -> "markSettled" [] o = "pending" -> "markExpiry" [] o = "failed" -> "fail"

\* Mutant of UniqueNumber: the attempts have no unique index.
AnyNumber(n) == TRUE

\* UNIQUE (decision_id, attempt_number)
UniqueNumber(n) == n \notin Numbers

\* The insert, the last of MaxTries of which throws.
AppendAttempt(w) ==
    /\ job[w].at = "attempt"
    /\ IF UniqueNumber(job[w].n)
       THEN /\ attempts' = attempts \cup {[n |-> job[w].n, status |-> job[w].obs]}
            /\ UNCHANGED crossed
            /\ Becomes(w, [To(w, Effect(job[w].obs)) EXCEPT !.n = 0, !.tries = 0])
       ELSE /\ Becomes(w, IF job[w].tries + 1 = MaxTries THEN Resting
                          ELSE [To(w, "renumber") EXCEPT !.tries = @ + 1])
            /\ crossed' = (crossed \/ job[w].tries + 1 = MaxTries)
            /\ UNCHANGED attempts
    /\ UNCHANGED <<config, decision, held, anchors, chain, takeovers>>

Renumber(w) ==
    /\ job[w].at = "renumber"
    /\ Becomes(w, [To(w, "attempt") EXCEPT !.n = NextAttemptNumber])
    /\ UNCHANGED <<config, decision, held, attempts, anchors, chain, history>>
-----------------------------------------------------------------------------
(* The transitions of the row, and the holds behind them.                  *)

CanSettle == decision.status \in {"SIGNED", "EXPIRY_CHECK"} /\ decision.signed
             /\ held = "RESERVED"

MarkSettled(w) ==
    /\ job[w].at = "markSettled"
    /\ IF CanSettle
       THEN /\ decision' = [decision EXCEPT !.status = "SETTLED", !.tx = job[w].tx]
            /\ Becomes(w, [To(w, "settle") EXCEPT !.tx = NoTxHash, !.then = "refresh"])
       ELSE Becomes(w, [To(w, "refresh") EXCEPT !.tx = NoTxHash]) /\ UNCHANGED decision
    /\ UNCHANGED <<config, held, attempts, anchors, chain, history>>

SettleHoldRow(w) ==
    /\ job[w].at = "settle"
    /\ held' = IF held = "RESERVED" THEN "SETTLED" ELSE held
    /\ Becomes(w, IF job[w].then = "rest" THEN Resting
                  ELSE [To(w, job[w].then) EXCEPT !.then = "rest"])
    /\ UNCHANGED <<config, decision, attempts, anchors, chain, history>>

MarkExpiryCheck(w) ==
    /\ job[w].at = "markExpiry"
    /\ decision' = IF decision.status = "SIGNED"
                   THEN [decision EXCEPT !.status = "EXPIRY_CHECK"] ELSE decision
    /\ Becomes(w, To(w, "reread"))
    /\ UNCHANGED <<config, held, attempts, anchors, chain, history>>

\* A reconcile reads the row again; a revoke is done with the decision.
AfterFailure(w) == IF job[w].obs = "failed" THEN To(w, "reread") ELSE Resting

\* resolveCasperGuardTerminalFailure reads the row, marks it unless it is closed, and
\* releases the hold of a failed one.
ReadForFailure(w) ==
    /\ job[w].at = "fail"
    /\ Becomes(w, CASE decision.status = "SETTLED" -> AfterFailure(w)
                 [] decision.status = "FAILED_TERMINAL" -> To(w, "release")
                 [] OTHER -> To(w, "markFailed"))
    /\ UNCHANGED <<config, decision, held, attempts, anchors, chain, history>>

MarkFailed(w) ==
    /\ job[w].at = "markFailed"
    /\ IF decision.status \notin Final
       THEN /\ decision' = [decision EXCEPT !.status = "FAILED_TERMINAL"]
            /\ Becomes(w, To(w, "release"))
       ELSE Becomes(w, AfterFailure(w)) /\ UNCHANGED decision
    /\ UNCHANGED <<config, held, attempts, anchors, chain, history>>

ReleaseHoldRow(w) ==
    /\ job[w].at = "release"
    /\ held' = IF held = "RESERVED" THEN "RELEASED" ELSE held
    /\ Becomes(w, AfterFailure(w))
    /\ UNCHANGED <<config, decision, attempts, anchors, chain, history>>

\* After its own settlement a request goes on to the anchor; one that finds the settlement of
\* another first repairs the hold.
Refresh(w) ==
    /\ job[w].at \in {"refresh", "reread"}
    /\ IF decision.status = "SETTLED"
       THEN TurnsToAnchor(w, job[w].slot, job[w].at = "reread")
       ELSE Becomes(w, Resting)
    /\ UNCHANGED <<config, decision, held, attempts, anchors, chain, history>>

-----------------------------------------------------------------------------
(* The anchor.                                                             *)

SetAnchor(h, r) == anchors' = [k \in DOMAIN anchors \cup {h} |-> IF k = h THEN r ELSE anchors[k]]

\* Mutant of MayClaim: a submitted row is taken over whatever its age.
MayClaimAny(h) == h \notin DOMAIN anchors \/ anchors[h].status # "confirmed"

\* The conflict clause of the claim.
MayClaim(h) ==
    \/ h \notin DOMAIN anchors
    \/ anchors[h].status = "failed"
    \/ anchors[h].status = "submitted" /\ ~anchors[h].recent

Stale(h) == h \in DOMAIN anchors /\ anchors[h].status = "submitted" /\ ~anchors[h].recent

Claim(w) ==
    LET h == job[w].hash IN
    /\ job[w].at = "claim"
    /\ Stale(h) => takeovers < MaxTakeovers
    /\ IF MayClaim(h)
       THEN /\ SetAnchor(h, [status |-> "submitted", recent |-> TRUE])
            /\ takeovers' = takeovers + IF Stale(h) THEN 1 ELSE 0
            /\ Becomes(w, To(w, "submit"))
       ELSE Becomes(w, Resting) /\ UNCHANGED <<anchors, takeovers>>
    /\ UNCHANGED <<config, decision, held, attempts, moved, registry, reverted, crossed>>

\* A submitted row is older than staleSubmittedMs.
AnchorAges(h) ==
    /\ h \in DOMAIN anchors /\ anchors[h].status = "submitted" /\ anchors[h].recent
    /\ SetAnchor(h, [anchors[h] EXCEPT !.recent = FALSE])
    /\ UNCHANGED <<config, decision, held, attempts, chain, job, history>>

\* anchor_decision of the registry contract.
AnchorDecision(n, h) ==
    /\ registry' = IF registry[n] = NoHash THEN [registry EXCEPT ![n] = h] ELSE registry
    /\ reverted' = (reverted \/ registry[n] \notin {NoHash, h})

\* putTransaction: the node refuses the transaction, or accepts it and executes it or not (it
\* expires, or runs out of gas); the answer of an acceptance may be lost.  The order of
\* executions does not matter to the contract.
SubmitAnchor(w) ==
    /\ job[w].at = "submit"
    /\ \/ AnchorDecision(NetworkOfSlot(job[w].slot), job[w].hash)
       \/ UNCHANGED <<registry, reverted>>
    /\ \E answer \in {"confirm", "failAnchor"} : Becomes(w, To(w, answer))
    /\ UNCHANGED <<config, decision, held, attempts, anchors, moved, history>>

\* confirm and fail change a submitted row, whoever holds its claim now.
ResolveAnchor(w) ==
    LET h == job[w].hash IN
    /\ job[w].at \in {"confirm", "failAnchor"}
    /\ IF anchors[h].status = "submitted"
       THEN SetAnchor(h, [status |-> IF job[w].at = "confirm" THEN "confirmed" ELSE "failed",
                          recent |-> FALSE])
       ELSE UNCHANGED anchors
    /\ Becomes(w, Resting)
    /\ UNCHANGED <<config, decision, held, attempts, chain, history>>

\* The instance stops, or an await of the request throws.
StopJob(w) ==
    /\ job[w] # Resting
    /\ crossed' = (crossed \/ w \in Observers)
    /\ Becomes(w, Resting)
    /\ UNCHANGED <<config, decision, held, attempts, anchors, chain, takeovers>>
-----------------------------------------------------------------------------
Hashes == BOOLEAN \X (TxHashes \cup {NoTxHash})

JobStep(w) ==
    \/ \E header \in CasperNets : OpenReconcileHttp(w, header)
    \/ OpenReconcileMcp(w) \/ OpenRevoke(w)
    \/ Observe(w) \/ AppendAttempt(w) \/ Renumber(w)
    \/ MarkSettled(w) \/ SettleHoldRow(w) \/ MarkExpiryCheck(w)
    \/ ReadForFailure(w) \/ MarkFailed(w) \/ ReleaseHoldRow(w) \/ Refresh(w)
    \/ Claim(w) \/ SubmitAnchor(w) \/ ResolveAnchor(w) \/ StopJob(w)

SettlementNext ==
    \/ \E header \in CasperNets : AuthorizeX402(header) \/ AuthorizeAction(header)
    \/ AuthorizeMcp \/ MarkSigned
    \/ \E w \in Jobs : JobStep(w)
    \/ \E h \in Hashes : AnchorAges(h)

SettlementSpec == SettlementInit /\ [][SettlementNext]_settlementVars
-----------------------------------------------------------------------------
SettlementTypeOK ==
    /\ decision \in [status : {"none", "RESERVED", "SIGNED", "EXPIRY_CHECK"} \cup Final,
                     signed : BOOLEAN, tx : TxHashes \cup {NoTxHash}]
    /\ held \in {"none", "RESERVED", "SETTLED", "RELEASED"}
    /\ DOMAIN anchors \subseteq Hashes
    /\ \A h \in DOMAIN anchors : anchors[h].status \in {"submitted", "confirmed", "failed"}
    /\ moved \in [CasperNets -> 0..2]
    /\ registry \in [CasperNets -> Hashes]
    /\ \A w \in Jobs : DOMAIN job[w] = DOMAIN Resting

(* What is anchored is the hash of the settled row: no request anchors     *)
(* another, so the contract never refuses one, however settlements, claims *)
(* and late transactions interleave.                                       *)
AnchorsAgree ==
    /\ SettlementTypeOK
    /\ ~reverted
    /\ \A h \in {registry[n] : n \in CasperNets} \cup DOMAIN anchors :
           h # NoHash => decision.status = "SETTLED" /\ h = DecisionHash(decision)

Submitters == {w \in Jobs : job[w].at \in {"submit", "confirm", "failAnchor"}}

(* Two requests submit the same anchor only after a claim went stale.      *)
OneSubmitter == Cardinality(Submitters) <= 1 + takeovers

(* The attempts are numbered without a gap or a double, and an observation *)
(* is recorded before it changes the row: what a reader settled has its    *)
(* attempt.                                                                *)
AttemptsPrecedeEffects ==
    /\ Numbers = 1..Cardinality(attempts)     \* of records, so no number is used twice
    /\ decision.status = "SETTLED" => \E a \in attempts : a.status = "settled"

(* A payment is executed at most once, provided no two requests observed   *)
(* its decision at a time and none of them stopped before it recorded what *)
(* it had observed: a failure closes the row although the execution may    *)
(* have happened, and a settled row is not executed again.  (Without the   *)
(* provision a swap runs twice: it has no nonce and the row no lock.)      *)
MovedOnce == crossed \/ moved["test"] + moved["main"] <= 1

(* No mainnet intent is settled with the testnet clients, the case the     *)
(* comment at mcp.ts:546 says the routing by the intent's network rules    *)
(* out.                                                                    *)
MainnetMovesOnMainnet == net = "main" => moved["test"] = 0
=============================================================================
