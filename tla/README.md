# Casper AgentOps, formally

TLA+ models of the Casper AgentOps server: how an agent's payment is authorized, held,
settled or given back, how a settlement reaches the chain and is anchored, how treasury money
becomes an agent's float, how a policy edit reaches the authorizations that run beside it,
and who may act: accounts, members, admin keys, delegated keys and deployed fleets. The
models are written from the code in `src/src` (paths below are relative to the repository
root, the directory that holds `package.json`; the row `map` in `PROJECT.json` prefixes them
with `src/`).

Contents: [the system](#1-the-system), [plan](#2-plan), [modules and the code](#3-the-modules-and-the-code),
[runs](#4-the-runs), [bounds](#5-bounds), [fairness](#6-fairness), [proofs](#7-proofs),
[findings](#8-findings), [what is not modelled](#9-what-is-not-modelled).

## 1. The system

A Fastify server in TypeScript. Several instances may run against one Postgres (the cold
tier, source of truth) and one Redis (the hot tier, atomic Lua scripts). Inside an instance
every handler is interleaved with the others at each `await`; between instances every
statement and every script is. There are no message queues; the only loop that runs by
itself is the confirmation worker (`server.ts:142`, every 2000 ms).

| Component | State | Operations | Must hold |
| --- | --- | --- | --- |
| Spend windows and holds (`redis/lua`, `engines/ledger/window.ts`) | spend-window ZSETs, amounts hash, `reserved` counter, `reserved_holds` and `settled_holds` sets, float counters | `reserve-with-policy`, `settle`, `release`; the float promoted and taken back | cap per 30d window, velocity per hour, new holds within float; each hold leaves the counter once whatever is replayed |
| Casper Guard (`engines/casper-guard`) | decision row, hold row, idempotency lock | authorize, on-demand reconcile, abort | one decision per idempotency key; an in-flight decision is held in both stores; what Postgres may still pay fits the cap that Redis checks; settle and release exclude each other; nothing is orphaned |
| Control (`engines/control`) | org deny-all flag, agent suspension; policies, versions, assignments, org epoch; per-agent compiled blob and epoch mirror in Redis | kill switch, suspend, dials, flows, recompile; guarded read | an acknowledged edit is in every policy served afterwards |
| Provisioning (`engines/provisioning`, `allocation-eval.ts`) | org `allocation_reserved`/`committed`, agent `float_pending`/`confirmed`, allocation hashes, the pending index, ledger pairs | depositFor, confirmation sweep, teardown | counters equal the allocations in the phase; budget and treasury ceilings; promotion only on finality and once |
| Treasury deposits (`treasury-routes.ts`) | deposit intents, pooled connections | intent, verify by memo, credit by hash | a transfer is credited once, and an answered credit is not lost |
| Settlement and anchoring (`settlement-reader.ts`, `reconcile-worker.ts`, `config/casper-guard.ts`, Odra registry) | network slots, attempt rows, anchor rows, the registry contract | observe, record, settle or fail, claim, submit, confirm | one execution per decision, on its own network; an attempt before every effect; one anchored hash |
| Delegated keys (`engines/identity/delegation`, `custody`, `contracts/delegation`) | agent status, vault blob, `delegated_keys` rows, the account's keys, weights and thresholds | provision, grant and revoke (init, sign, execute, confirm), signing | vault and row agree; a grant is marked on evidence; no key takes over the account |
| Accounts (`engines/identity/account`, `oauth`) | users, sessions, tokens, provider links | register, login, verify, reset, callback | whatever an account has was proved; a reset ends older sessions |
| Members and admin keys (`engines/identity/org`, `access`) | memberships, invitations, API keys | invite, accept, demote, remove, issue, revoke | an org keeps an owner; one join per invitation; a revoked key stays out |
| Fleet deploy (`engines/control/graph-builder`, `policy-compile.ts`) | the canvas row, agents, policies and assignments | validate, compile, save, deploy | a deployed fleet is enforced as drawn; layers only narrow |
| Rate limit, monitoring, reports, wiring | counters, streams | | see section 9 |

How they interact:

* `authorizeWithStoredPolicy` (routes) takes a timestamp, resolves the effective policy
  through the epoch guard and calls `authorizeCasperGuardIntent`, which takes the Redis
  lock, reads the decision table, evaluates the policy, reserves in the hot tier, inserts
  decision and hold in one transaction, looks at the kill switch and at the suspension
  again, signs, and marks the row signed.
* `reconcile` is a request like any other: it asks the settlement reader of the decision's
  kind, which *may itself move the money* (x402 facilitator, trade venue), and settles or
  closes the decision; then it settles or releases both halves of the hold in parallel.
* revoke suspends the agent and aborts the decisions it lists as RESERVED.
* A reconcile is served from a network slot: over HTTP the one its header names, over MCP
  the one the legacy fields mirror (testnet). The slot decides which clients observe the
  decision, and its registry receives the hash of the settled row.
* A dial, an attached flow and a fleet deploy write policy versions; the dials then raise the
  organisation's epoch, which the next guarded read compares with the cached blob.
* The confirmation worker promotes `float_pending` to `float_confirmed`, the number that
  the hot tier's solvency gate reads. A teardown takes it back without waiting for holds.

What is hard here: Redis and Postgres are written one after the other with no transaction
over both; the idempotency lock has a 30 s life; three kinds of requests race to end one
decision; the payment's outcome may be unknown (a lost answer, a header redeemed
elsewhere); a policy edit is three writes in two stores; provisioning is six writes after a
check of a balance read before; and any instance may stop between any two of them. The
places in the code where each of these bites are the `hazards` of `PROJECT.json`, with the
property that watches each one, or the reason why none does.

## 2. Plan

Order: what moves money first.

1. **HotTier**. Done.
2. **PaymentLifecycle** (abstract) and **CasperGuard**, which implements it on top of
   HotTier. Done.
3. **Provisioning**, **PolicyEpoch**. Done.
4. **Settlement** (slots, readers, attempt log, anchors with the Odra registry) and
   **Deposits** (intents and credits over a connection pool). Done.
5. **Accounts**, **Members**, **AgentKeys** (with the two contract sessions), **GraphDeploy**
   (with policy compilation). Done.
6. Proofs of every safety property and of the refinement: section 7. Done.
7. Left: the composition of CasperGuard and PolicyEpoch, whose fingerprint carries the
   epoch; store errors *after* the effect (a commit whose answer is lost).

Abstract specification: PaymentLifecycle (what an agent may rely on), implemented by
CasperGuard. HotTier is no abstraction of it: CasperGuard's Redis steps are written with
HotTier's actions.

## 3. The modules and the code

`map` in `PROJECT.json` gives the lines of every definition. In outline:

**HotTier** is one agent's Redis keys with one action per script. It puts no order on its
callers, as the scripts claim safety under replay by themselves. `score` is the timestamp a
call captured before it waited, so any hour up to the present may reach the script. Amounts
are arbitrary naturals; sums over sets of payments are an additive measure `Total`, which
TLC gets as a table and the proofs as an assumption. The `consumed` counter is the constant
zero, because nothing writes its key. The guarded actions are the calls that write; a
refusal changes no key. The float key has two writers that know nothing of holds:
`confirmDeposit` adds to it, and `teardownAgent` reads it, moves the coins, and then lowers
it by what it had read. Both are here from the key's side (`ConfirmFloat`; `ReadFloat`,
`DecrFloat`, started at any time, again after a crash, and by several teardowns at once, so
that the key may fall below zero), and in full in Provisioning. `caught` (history) is what
was held when float was last taken.

**PaymentLifecycle** is what an agent may rely on: a payment is new, refused, promised,
committed, paid or closed, moves forward only, is held while it is promised or committed,
and only a payment that is closed or refused, or not begun, is out of the budget.

**CasperGuard** has one action per stretch of code between two awaits of
`authorizeCasperGuardIntent`, `reconcileCasperGuardDecision` and `revokeAgentInFlight`.
`call[d]`, `at[p]` and `target[p]` are program counters; `todo[p]` is the pair of
`Promise.all` branches that have yet to arrive in Redis and in Postgres. A decision id is
minted per call, so it names the call too. `Throw` is a store that refuses a command: the
code's own catch blocks decide what happens next (`AfterThrow`). `Observe` is the
settlement reader of the decision's kind, including the branches in which it submits the
payment, and the answers that get lost. Policy evaluation is one nondeterministic verdict
plus the script's own; the hot tier's steps are HotTier's, through INSTANCE, so each is one
by construction, and the float moves under them as it does there. Rows of kind
`evm-transfer` are refused by the table's CHECK (`0009_casper_guard.sql`), so
`markDecisionSettledByUser` is left out. An x402 payment with no facilitator configured is
settled from the caller's evidence, as a `casper-deploy` is.

**Provisioning** follows `depositFor` (gate, submit, on-chain funding, pending float,
record, index), `confirmDeposit` under `sweepPendingConfirmations`, and `teardownAgent` with
its return of the agent's coins, again one action per await. `coins` is what the funding
transfers put on an agent's account: a funding whose answer is lost, or that fails after it
was sent, leaves coins although the reserve is given back. `AssumesFinality` distinguishes
the live treasury client, which takes every submitted transfer for final
(`treasury-client.ts:58`), from an injected reader that asks. `record` keeps the reason a
hash is gone ("deleted" after a promotion, "cancelled" by a teardown) although Redis does
not, so that properties can speak of it; no guard reads the difference. A tick lists the
indexes of all agents at once, while the code lists each agent's when it comes to it.

**PolicyEpoch** names a rule after the edit that wrote it; a compiled policy is the set of
the latest edits of its scope's layers. `getEffectiveLayers` reads epoch and layers in one
snapshot (one statement or a REPEATABLE READ transaction), so it is one step; the SET of
the blob and the epoch mirror are further steps, which any other request may overtake.
`seen[p][g]` is the blob a request has in hand, and `floor[r]` which edits had been
acknowledged when the read of `r` began (history, read by no guard).

**Settlement** looks at one decision of any kind on any configuration of the two network
slots. A job is a reconcile over HTTP (slot from the header) or MCP (slot testnet) or a
revoke; `Executes` says on which network the clients of its slot would move the money, and
`moved[n]` counts how often that happened. The attempt number is computed from the row a
request read and collides on the unique index; the anchor's hash is the canonical form of
the row, of which only the signature and the transaction hash still vary. The anchor row is
claimed, goes stale, is taken over, and is confirmed or failed by whoever still waits; the
registry contract keeps the first hash and reverts another. Holds in Redis are CasperGuard's.
Decisions of kind `casper-deploy` stay pending over MCP, whose reader has no hash to ask for.

**Deposits** is the only module about connections: `conn[c]` is the transaction open on a
pooled connection, its locks and its uncommitted writes, because `verify-deposit` runs
`BEGIN`, its statements and `COMMIT` through `pool.query`, each of which may get another
connection (`treasury-routes.ts:308`; the comment at :509-512 of the same file calls this
unsafe and avoids it in the other route). `Sees`, `Locked` and `Contested` are Postgres: read
committed, row locks, a unique key written by a transaction in flight.

**Accounts**, **Members** and **AgentKeys** have one action per statement of their routes.
Amounts of state are small because each is about a check and a write that another request
may separate: the token that `consumeToken` spends before its purpose is done, the password
that a reset writes before it revokes sessions, the owners that a removal counts before it
deletes, the three lookups that decide about an admin key. AgentKeys follows a delegated key
from the vault to the account: `Sign` and `Execute` are the owner and the chain, which may
sign old deploys and execute them in any order; `overtook` (history) is the keys that were
provisioned while a grant was being confirmed; `GrantSession` and `RevokeSession` are the
Wasm sessions of `contracts/delegation` with the thresholds that `associated-keys.ts` puts
into them, on an account that may hold other keys before.

**GraphDeploy** is the canvas and its deploy: `ValidGraph`, `Compiled` and
`CompileSpend` are the pure functions (caps and rails; service scope, velocity and
allocation are narrowed alike and left out), and a deploy registers one agent per compiled role
(each may fail at its keypair), writes and assigns their policies, answers with the
bindings, and marks the canvas; a draft or another deploy of the same canvas may come
between any two steps. When two nodes share a role the later agent gets the policy
(`deploy.ts:184`); `Bindings` and `Offered` are what the answer names.

**Composed runs.** `MCDecision` and `MCControlPlane` extend several modules
that share no variable, and a variable `part` says which of them runs while the others
rest. They interact through the decision or the agent they are about and not through state,
so interleaving them would add states and no behaviour; one run then checks all of them. One
key is written by two modules that no run composes: HotTier's confirmed float is also
Provisioning's. HotTier therefore has every write of it, unordered, as an action of its own,
and Provisioning, which has them in order, has no holds.

The other `MC*` modules only give constants their values (`MCSettlement` the
configurations of the slots, for `MCDecision` and for `settlement_network`). The definitions that a comment
calls "Mutant of" are deliberately wrong versions of the definition after them; no
specification uses them. They record, for each property, a plausible mistake it catches.

## 4. The runs

Passing:

| Run | Question | Answer |
| --- | --- | --- |
| `decision` | Do the scripts stay consistent under any replay and late calls? Do dials of an agent and of its organisation reach a reader, while another agent gets a flow and instances stop? Two reconciles and a revoke over one decision: does its settlement happen once, and does the registry agree? | Counter = sum of holds, holds and settled partition what is counted, cap and velocity hold, and so does the float but for holds that one of two teardowns caught; a settled spend stays; on scopes assigned before, no acknowledged edit is missing from a served policy; the registry never reverts, one submitter unless a claim went stale, attempts without gap and before effects, one execution unless two requests observed at a time |
| `guard_calls` | Three overlapping calls of one key (two for the same request), a lock that may expire, a kill switch, a reconcile | One decision, no hold left behind in either store |
| `guard_reconcile` | Two reconciles and a revoke over a deploy and an x402 payment, which do not fit one spend window together, over two windows; answers get lost and headers are redeemed elsewhere | Nothing is settled that was not paid; rows that may still pay, or have paid, fit the cap, although Postgres never checks it; the abstract lifecycle is implemented |
| `guard_faults` | One reconcile and a revoke over two swaps of one key, with crashes, failing commands, lock expiry, suspension, and a teardown that takes the float | Budget is never freed under an in-flight decision, nothing is both settled and released |
| `guard_liveness` | Does everything end? | Calls answer and requests end, a revoke with a stale list included |
| `prov_teardown` | Teardown against sweep over two funded deposits | Counters exact, float backed by committed budget (`FloatIsBacked`) and covered by coins and final transfers (`FloatIsCovered`), nothing over-reclaimed, final deposits are promoted |
| `prov_budget` | Three deposits, two workers, failures and crashes | Both ceilings, one promotion and one ledger pair each |
| `control_plane` | Three overlapping requests on accounts, on members and keys, on an agent's delegated key, on two transfers over two connections; two deploys of one canvas | One credit per transfer; see the comments of the other properties, of which each that is conditional names the race it excepts |

Runs that end in a counterexample, one for each finding of section 8: `guard_revoke`,
`policy_first_dial`, `grant_confirm`, `settlement_network`.

Every `.cfg` switches deadlock checking off: these programs may really stop, since every
request may have ended and nobody need send another.

Properties that except a race (`HoldsWithinFloat`, `OwnerLostOnlyInRace`, `MovedOnce`,
`VaultServesActive`, `PromotionsAreEvidenced`, `ResetEndsOlderSessions`,
`CreditsSurviveUnmixed`) state exactly what the code guarantees:
a history variable records that the race happened, and the property says that nothing else
leads to the loss. `BlobMatchesEpoch` excepts the edits of finding 2 the same way. The
unconditional forms do not hold (section 8).

## 5. Bounds

* HotTier: three payments of amounts 1, 2, 2, one not float-backed, one payment an hour; two windows of two hours
  with the clock crossing the boundary. Three payments are enough for one to fill a window,
  one to be refused by it, and one to arrive late; two teardowns, so that one takes what the
  other has read. The theorems remove the bounds.
* CasperGuard: three calls of one key and a reconcile (`guard_calls`) show lock holder, contender and
  a call that acquires after expiry; elsewhere two decisions, because interference is between
  *requests* about one decision, of which there are up to four (call, two reconciles,
  revoke). `MaxPaid` caps transfers per decision; it is 2 in `guard_faults`, where the
  payments are swaps, which no nonce protects from a second submission. In
  `guard_reconcile` a window takes one of the two payments and the clock reaches the next
  one, so both can be in flight and each can have to wait for the other; crashes beside
  these races are left to the theorem. `guard_faults` has one hour, as nothing it checks
  reads the clock. `Events` names which moves of the environment a run explores; each is
  explored by some run.
* Provisioning: amounts 1, 2, 2 against a budget of 4 (or 3), so that not all fit and two
  different pairs do; two agents, so that a teardown has a neighbour it must not touch.
* PolicyEpoch: edits of the agent, of a neighbour and of the organisation, and a reader;
  two of overlapping scopes are the smallest race of mirrors. `policy_first_dial` needs two
  readers: one that compiles early and publishes late, one that is served. Epochs need no
  cap, each edit raises it at most twice.
* Settlement: two jobs are enough for every race of two writers, and a job starts again when
  it has ended; `MaxAttempts` bounds observations, `MaxTries` is the code's retry limit
  (smaller here, so that it is reached), `MaxTakeovers` stale claims. Three configurations of
  the slots: complete, mainnet with a registry only, no facilitator and no venue.
* Deposits: two connections, because what matters is own or other; two intents, two transfers
  and three requests, so that one may run inside another's transaction.
* Accounts, Members, AgentKeys: three requests, because some losses need a third one between
  two (a removal between two accepts; a revocation between a lookup and its fallback);
  one address, two users, two keys, two tokens and two invitations suffice for "the same" and
  "another". Callers are interchangeable, as are the
  connections of Deposits and the jobs and hashes of Settlement (symmetry). `grant_confirm` runs AgentKeys by itself
  with one deploy and two keys, the least that its counterexample needs.
* GraphDeploy: three canvases (two grants, two nodes of one role, an invalid one) and two
  deploys.

## 6. Fairness

* A call or request that has started goes on (weak fairness of its own steps): nothing in
  the code waits for anything but a store or a remote service, which are assumed to answer
  or to fail. Starting a call, asking for a reconcile and issuing a revoke carry no
  fairness: reconciliation is on demand, nothing in the server drives it, and so no
  property says that a decision is eventually settled.
* A crash is never fair; a halted request is over.
* The expiry of a lock (`EX 30`) carries no fairness, because nothing waits for it: who finds
  a key locked answers.
* The confirmation worker ticks for ever (`server.ts:142`); finality of a transfer is
  the chain's business and not assumed: `FinalDepositsResolve` speaks of final deposits.

## 7. Proofs

Every safety invariant, the one action property and the refinement that the passing runs
check are proved for all values of the constants: any number of payments, requests,
connections, workers, agents and edits, any amounts. Each component has one inductive
invariant (`IInv`, or a name with the component's prefix in `ControlPlaneProofs`), and its
theorems follow from it. In those modules a lemma per action, or per group of alike actions,
says that the step preserves it, and temporal logic is used only in the last line of a
theorem. The list `theorems` of `PROJECT.json` names the property each one states.

| Module | Theorems (property) | Hypothesis |
| --- | --- | --- |
| `HotTierProofs` | `TypeCorrect`, `CounterCorrect` (`CounterMatchesHolds`), `HoldsCorrect` (`HoldsAreCounted`), `CapHolds`, `VelocityHolds`, `FloatHolds`, `SettledIsFinal` (action property) | |
| `CasperGuardProofs` | `HeldWhileInFlight` (`InFlightIsHeld`), `SettleExcludesRelease` (`NeverSettledAndReleased`), `OneAllow` (`OneAllowPerKey`), `SettlementsArePaid` (`SettledWasPaid`), `CapHoldsAcrossStores` (`SpendWithinCap`), `LifecycleRefinement` | |
| | `CleanWhenQuiet` (`QuietIsClean`) | `NoFaults` |
| `ProvisioningProofs` | `CountersAreExact`, `CeilingsHold`, `OnePromotion`, `FloatHasCover` (`FloatIsCovered`), `ConfirmedHasBudget` | |
| | `SettledWhenQuiet` (`QuietIsSettled`) | `NoHalt` |
| | `FloatBacked` (`FloatIsBacked`) | `OneTeardown` |
| `PolicyEpochProofs` | `BlobsAreExact` (`BlobMatchesEpoch`), `RepeatedEditsReachReaders` | |
| | `ServesAreCurrent` (`ServedIsCurrent`) | `DialsAreRepeated` |
| `SettlementProofs` | `AnchorsHold`, `SubmittersAreClaimed`, `AttemptsComeFirst`, `ExecutedOnce` (`MovedOnce`) | |
| `DepositsProofs` | `OneCredit`, `CreditsAreKept` | |
| `AgentKeysProofs` | `VaultServes`, `PromotionsHaveEvidence`, `MasterAlwaysManages` (`NoKeyManagesAlone`) | |
| `ControlPlaneProofs` | Accounts: `AccountsHaveProof`, `ResetsEndSessions`; Members: `JoinsHold`, `RevokedKeysHold`, `OwnersHold`; GraphDeploy: `FleetsHold` | |

**Hypotheses.** Four theorems hold under a condition on the constants, which the run of the
same property meets too:

* `NoFaults`, `NoHalt`: no instance stops (and no store refuses a command). "Nothing is left
  behind" is false otherwise: section 9 and the hazards say what a crash leaves.
* `OneTeardown`: an agent is torn down by one request. A second teardown that overlaps the
  first reclaims the float the first one has read as well (the code does not refuse it), so
  the part of `FloatIsBacked` about reclaims needs it. The sum over all agents does not:
  `ConfirmedHasBudget` has no hypothesis.
* `DialsAreRepeated`: each edit dials a scope that is assigned a policy, as seeded
  organisations and agents after their first dial are. Run `policy_first_dial` is the
  counterexample without it. `RepeatedEditsReachReaders` says what is left in general: a
  policy that is served has every acknowledged edit that was not the first of its policy.

**Assumptions** on constants, each named in the module that declares them and evaluated by
TLC in its runs: sums over sets of payments are additive (`MeasureAssumption`,
`HotTierAssumption`, `AllocationAssumption`); amounts, dials and bounds are naturals; sets of requests whose
members are counted, and of agents whose float is added up, are finite (`RowsAssumption`,
`SettlementAssumption`, `MembersAssumption`, `AccountsAssumption`); names of different kinds
differ (`GuardAssumption`, `PolicyAssumption`, `DepositsAssumption`); a canvas lists its
nodes in order (`DeployAssumption`); a registered agent has a key (`KeysAssumption`).

**Why the invariants are as they are.**

* HotTier. `CapPerWindow` speaks of windows that begin no later than now, and the clock
  moves, so `CapAlways` speaks of every window start; a late call is stopped because the
  script sums everything *since* its window began, later windows too. `VelocityPerHour`
  likewise. `HoldsWithinFloat` needs `CounterMatchesHolds`, because the gate compares the
  float with the counter; `CounterMatchesHolds` needs `HoldsAreCounted`, which makes the zero
  clamp of `subtract_decimal` inert. A teardown's DECRBY leaves every hold of the moment
  behind in `caught`; a hold taken later passed a gate that saw the lowered float.
* CasperGuard. The row and the two halves of the hold disagree for a while: `RowMatchesHold`
  and `RowMatchesHotTier` say which status allows which hold, and `CallsAgree` and
  `RequestsAgree` what each step of a request may rely on (a call at "insert" has its hold in
  Redis; a request that releases has closed the row itself). `OneRowPerKey` stands for the
  unique index, on which `OneAllowPerKey` rests once the lock has expired. `CleanWhenQuiet` needs
  a second invariant on top: a disagreement always has a request that is about to mend it.
  `SpendWithinCap` speaks of rows of Postgres and follows from a layer (`CapAlways`) that
  speaks of the members Redis counts, since by `IInv` a row that may still pay, or has paid,
  is counted; a late insert after a lost hold would break exactly that.
* Provisioning. The counters are integers; that they never go negative is a consequence.
  `RecordMatches` ties the record to the step of its `depositFor`, `OneFinisher` is the single
  winner of the promotion script. `FloatIsBacked` is a sum over agents, which a teardown
  lowers in two commands: `Owed` is what one has taken from the float and not yet from the
  committed budget, and the invariant is that float and debts together stay within it. The
  sum is the community modules' fold; that it is the sum of the partial sums over subsets,
  that the order of adding does not matter and what an update does to it
  (`SumUpdate`) are lemmas of that module, proved from the least set that would violate them.
* PolicyEpoch. `Sound` says of every blob, cached or in some request's hands, that it covers each
  edit up to its epoch that did not write the first version of its policy, and
  `ReaderMatches` what a reader has compared so far. `BlobMatchesEpoch` excepts the edits that
  wrote a policy's first version, because of the finding of section 8; the first version of
  the property had no such exception, and does not hold.
* Settlement. `JobMatches` is a record of what each request has read and done, and attempts,
  decision and anchors only move forward (`Grows`), which keeps it true while others write.
  `OneSubmitter` counts: each submitter but one was taken over. `MovedOnce`: what was executed
  is known to the one request that observes, or recorded and the row closed.
* Deposits. `Requests` and `Postgres` describe locks and uncommitted writes; the unique index
  alone gives `CreditedOnce`, with no assumption about connections. `CreditsSurviveUnmixed`
  needs that each transaction is of one request (`OwnTransaction`): its connection is open, it
  locked the intent's row at the recheck, and it has written that row's credit and nothing else.
* AgentKeys. At most one row is ACTIVE (the unique index), a key that a request has read is
  ACTIVE or was revoked since, and the account is as it was created, with no delegated key,
  or has the weights and thresholds of a provisioned one (`AccountMatches`). Promotions are a
  layer on top (`GrantsMatch`): the key a confirmation holds is the ACTIVE one, or there is none,
  or the ACTIVE one was inserted meanwhile.
* Accounts counts passwords against spent reset tokens, plus one for each reset that has
  spent its token and not yet written. Members: a guarded write is harmless if it leaves an
  owner besides the one it is about. GraphDeploy: a layer once assigned stays, and each step of a
  deploy knows which agents have theirs. That the narrowest cap over a set of layers exists,
  and that the agent of a role is the last node's, are again proved from a least counterexample.

**Only model-checked**: the liveness properties (`RequestsEnd` and
`FinalDepositsResolve`), because fairness needs ENABLED, which the prover does not handle.
The four violated properties have counterexamples and no proof. The proofs are about each
component's own specification; that composed runs change no behaviour is the argument of
section 3.

## 8. Findings

Each is a run that ends in a counterexample, with the code's lines in `PROJECT.json`.

1. `guard_revoke`: a revoke closes a decision that was signed between its listing and its
   abort, although the comment says signed decisions are left alone.
2. `policy_first_dial`: the first dial of a scope raises the epoch and assigns the policy in
   two transactions; a reader between them may leave an old blob with the new epoch for good.
3. `grant_confirm`: the confirmation of a grant verifies the key of the row it read, and then
   marks whichever row is ACTIVE. If the key is revoked and another one provisioned in between,
   the new row is granted with a key the account never had, against "NO BLIND PROMOTE"
   (`delegation-routes.ts:190-193`). `PromotionsAreEvidenced` shows there is no other way.
4. `settlement_network`: a reconcile over MCP settles a mainnet decision with the testnet
   slot's reader (and anchors it with its registry); the comment at `mcp.ts:544` rules this
   out for authorizations, and reconciles have no such routing. Over HTTP the caller's header
   decides, whatever network the decision is of.

The models also reach, or the reading met, the following, which no run asserts either way
(those that a race or a crash causes are hazards with their line):

* settled spend is never drawn from the float: the gate reads `consumed`
  (`reserve-with-policy.lua:144`), which no code writes, and `settle.lua` takes the payment
  out of `reserved`;
* if the service redeems the signed header itself, reconcile reads the facilitator's refusal
  as failure and frees the budget of a payment that happened (`settlement-reader.ts:161`);
* two reconciles that observe an open swap at a time submit it twice, and so does one that
  stopped before it recorded its attempt (`settlement-reader.ts:253`); `settled` is not
  `confirmed on chain`: a confirmed anchor row may stand for a transaction that never executed
  (`reconcile-worker.ts:335-340`);
* a teardown takes the float from under holds that are outstanding (`teardown.ts:26-30` says so),
  and two that overlap take it twice (`teardown.ts:135`), below zero;
* the live treasury client answers that any transfer is final (`treasury-client.ts:58`), so
  "promote on finality" (README.md:151) holds only for an injected reader; the sweep asks one
  network's gateway (`server.ts:146`), harmless as long as finality is assumed;
* a deposit past its gate and not yet indexed outlives its agent's teardown
  (`teardown.ts:98`), and a teardown sweeps the coins of a deposit in flight. Nothing but
  tests calls `teardownAgent` and `sweepAgentWcsprOnChain`;
* attaching a flow neither recompiles nor mirrors, so an agent with a cached blob keeps its
  old policy (`attach-trading-flow.ts:48`);
* README.md:118 names a slippage cap and a risk label allowlist before the trade executor;
  `createCsprTradeExecutor` has no caller, and the settlement reader quotes and submits
  without those checks;
* a credit that was answered may be lost when its statements ran inside another request's
  transaction (`treasury-routes.ts:308`); credit by hash takes the amount from the caller
  (`:495`) and does not compare the destination; `expires_at` of an intent is never enforced;
  the scan for a memo covers the last 100 blocks;
* two owners may remove each other, leaving none (`members-routes.ts:142`); suspending or
  reinstating an agent revives a retired one (`kill-switch.ts:33`); two provisionings at a
  time leave a vault blob that is not the ACTIVE row's; the tool that creates an agent over
  MCP gives it no keypair (`mcp.ts:604`), unlike the route;
* when two nodes of a canvas share a role, the first agent gets no policy of its own
  (`deploy.ts:184`), and a deploy that fails half way leaves agents with keypairs and no
  policy. `configToGraph` is inverse to the compiler up to ids and layout only
  (`compiler.ts:18`);
* a `casper-deploy` decision never settles over MCP, and the evm-transfer path
  (`mcp.ts:775-855`) cannot be reached because the table refuses the kind
  (`0009_casper_guard.sql:12`).

## 9. What is not modelled

* The composition of CasperGuard and PolicyEpoch (a payment that is retried after a policy
  edit) and a store that applies a command and then reports an error.
* Left out for good: monitoring, e-mail and reports (best-effort, or queries; nothing reads
  them back), the rate limiter (one atomic counter), chain clients and cryptography (their
  outcomes are nondeterministic answers where they are called), configuration parsing and
  wiring.
* Abstracted: the content of policy checks (a verdict), of rules (the edit that wrote them),
  decimal-string arithmetic (naturals), HTTP parsing, names, layout and wording. Expiry of
  invitations and tokens is left out: it only makes them fail, as being spent does.
* Not covered inside modelled parts: teardowns that are started again after a crash; a hold
  that a crash leaves between the Redis reserve and the insert, which no code removes.
