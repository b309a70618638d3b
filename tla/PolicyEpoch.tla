------------------------------ MODULE PolicyEpoch ------------------------------
(***************************************************************************)
(* How an edit of a spend policy reaches the authorizations of an          *)
(* organisation: the edit commits in Postgres and raises the policy epoch, *)
(* recompiles the blob of every agent it touches and mirrors the epoch to  *)
(* a Redis counter; a reader serves the blob of its agent when the blob is *)
(* not behind the counter and recompiles it otherwise.  Edits and readers  *)
(* run concurrently and may stop between any two awaits.                   *)
(*                                                                         *)
(* A rule is named by the edit that wrote it: a compiled policy is the set *)
(* of edits in force (policy-compile.ts intersects them, in any order).    *)
(* No route writes a team policy, so the scopes are the organisation and   *)
(* its agents.                                                             *)
(***************************************************************************)
EXTENDS Integers, FiniteSets

CONSTANTS
    Agents,     \* active agents
    Org,        \* the organisation's own scope
    Edits,      \* edits of a spend policy
    ScopeOf,    \* ScopeOf[e]: the scope edit e writes
    Attaches,   \* edits made by attachTradingFlow; the others are dials
    Seeded,     \* scopes with an assigned policy from the start, named after the scope
    Readers,    \* authorize calls and other users of the effective policy
    ReadsFor    \* ReadsFor[r]: the agent whose policy r asks for

Scopes == Agents \cup {Org}

ASSUME PolicyAssumption ==
    /\ Org \notin Agents
    /\ ScopeOf \in [Edits -> Scopes]
    /\ Attaches \subseteq Edits
    /\ \A e \in Attaches : ScopeOf[e] \in Agents
    /\ Seeded \subseteq Scopes
    /\ ReadsFor \in [Readers -> Agents]
    /\ Edits \cap Readers = {} /\ Edits \cap Scopes = {}

VARIABLES
    \* Postgres
    epoch,      \* orgs.policy_epoch
    order,      \* order[e]: the epoch the version of e was committed with, 0 before
    policyOf,   \* policyOf[e]: the policy e writes a version of; e itself if it is new
    assigned,   \* policies with an assignment row
    \* Redis
    counter,    \* the mirror of the epoch, Unset when the key is absent
    blob,       \* blob[g]: the published effective policy of g
    \* the requests
    at,         \* at[p]: where edit or reader p stands
    todo,       \* todo[p]: agents p has still to recompile
    seen,       \* seen[p][g]: the policy of g that p has read or compiled
    floor       \* floor[r]: edits acknowledged before the current read of r began

pgVars == <<epoch, order, policyOf, assigned>>
redisVars == <<counter, blob>>
requestVars == <<at, todo, seen, floor>>
policyVars == <<pgVars, redisVars, requestVars>>

Requests == Edits \cup Readers
Policies == Seeded \cup Edits
Unset == -1
NoBlob == [epoch |-> Unset, rules |-> {}]

\* The seed of a new organisation ends with the first bump, and may stop before it.
PolicyInit ==
    /\ epoch = 0
    /\ order = [e \in Edits |-> 0]
    /\ policyOf = [e \in Edits |-> e]
    /\ assigned = Seeded
    /\ counter \in {Unset, 0}
    /\ blob = [g \in Agents |-> NoBlob]
    /\ at = [p \in Requests |-> "idle"]
    /\ todo = [p \in Requests |-> {}]
    /\ seen = [p \in Requests |-> [g \in Agents |-> NoBlob]]
    /\ floor = [r \in Readers |-> {}]

Move(p, step) == at' = [at EXCEPT ![p] = step]

\* The agents whose effective policy a scope takes part in.
Touched(scope) == IF scope = Org THEN Agents ELSE {scope}
PolicyScope(p) == IF p \in Edits THEN ScopeOf[p] ELSE p

-----------------------------------------------------------------------------
(* The dial of an agent or of the organisation, and attachTradingFlow *)

\* A dial versions the policy its scope is assigned, if any; assignment ids are random, so
\* any of them may come first.
LookupAssignment(e) ==
    LET existing == {p \in assigned : PolicyScope(p) = ScopeOf[e]}
    IN  /\ at[e] = "idle"
        /\ IF existing = {}
           THEN UNCHANGED policyOf
           ELSE \E p \in existing : policyOf' = [policyOf EXCEPT ![e] = p]
        /\ Move(e, "create")
        /\ UNCHANGED <<epoch, order, assigned, redisVars, todo, seen, floor>>

\* POST /v1/agents/:id/policy and POST /v1/orgs/:orgId/policy.
DialAgent(e) == ScopeOf[e] # Org /\ e \notin Attaches /\ LookupAssignment(e)
DialOrg(e) == ScopeOf[e] = Org /\ LookupAssignment(e)

\* A flow is attached over HTTP or MCP, and always writes a new policy.
AttachTradingFlow(e) ==
    /\ e \in Attaches /\ at[e] = "idle"
    /\ Move(e, "create")
    /\ UNCHANGED <<pgVars, redisVars, todo, seen, floor>>

\* createPolicyVersion: version and epoch move in one transaction.
CreatePolicyVersion(e) ==
    /\ at[e] = "create"
    /\ epoch' = epoch + 1
    /\ order' = [order EXCEPT ![e] = epoch + 1]
    /\ IF policyOf[e] = e
       THEN Move(e, IF e \in Attaches THEN "allocation" ELSE "assign") /\ UNCHANGED todo
       ELSE Move(e, "recompile") /\ todo' = [todo EXCEPT ![e] = Touched(ScopeOf[e])]
    /\ UNCHANGED <<policyOf, assigned, redisVars, seen, floor>>

\* A flow writes an allocation policy too, which nothing assigns.
CreateAllocationVersion(e) ==
    /\ at[e] = "allocation"
    /\ epoch' = epoch + 1
    /\ Move(e, "assign")
    /\ UNCHANGED <<order, policyOf, assigned, redisVars, todo, seen, floor>>

\* assignPolicy, a statement of its own.  A flow ends here.
AssignPolicy(e) ==
    /\ at[e] = "assign"
    /\ assigned' = assigned \cup {e}
    /\ IF e \in Attaches
       THEN Move(e, "acknowledged") /\ UNCHANGED todo
       ELSE Move(e, "recompile") /\ todo' = [todo EXCEPT ![e] = Touched(ScopeOf[e])]
    /\ UNCHANGED <<epoch, order, policyOf, redisVars, seen, floor>>

-----------------------------------------------------------------------------
(* recompileAgentPolicy, run by dials and by readers *)

\* Mutant of LayersInForce: the layers above the agent are not walked.
OwnLayer(g) ==
    {e \in Edits :
        /\ order[e] > 0
        /\ policyOf[e] \in assigned
        /\ ScopeOf[e] = g
        /\ \A f \in Edits : policyOf[f] = policyOf[e] => order[f] <= order[e]}

\* layersForClass: the latest version of every policy assigned to g or to its organisation.
LayersInForce(g) ==
    {e \in Edits :
        /\ order[e] > 0
        /\ policyOf[e] \in assigned
        /\ g \in Touched(ScopeOf[e])
        /\ \A f \in Edits : policyOf[f] = policyOf[e] => order[f] <= order[e]}

\* getEffectiveLayers reads epoch and layers in one snapshot; compile keeps both.
ReadEffectiveLayers(p, g) ==
    /\ at[p] = "recompile" /\ g \in todo[p] /\ seen[p][g] = NoBlob
    /\ seen' = [seen EXCEPT ![p][g] = [epoch |-> epoch, rules |-> LayersInForce(g)]]
    /\ UNCHANGED <<pgVars, redisVars, at, todo, floor>>

\* publishEffectivePolicy: an unconditional SET.  A dial forgets what it has published, a reader
\* answers with it.
PublishEffectivePolicy(p, g) ==
    /\ at[p] = "recompile" /\ g \in todo[p] /\ seen[p][g] # NoBlob
    /\ blob' = [blob EXCEPT ![g] = seen[p][g]]
    /\ todo' = [todo EXCEPT ![p] = @ \ {g}]
    /\ seen' = IF p \in Edits THEN [seen EXCEPT ![p][g] = NoBlob] ELSE seen
    /\ IF todo[p] = {g} THEN Move(p, "bump") ELSE UNCHANGED at
    /\ UNCHANGED <<pgVars, counter, floor>>

\* epoch-bump.lua: the counter only advances.
Advanced(n) == IF n > counter THEN n ELSE counter

\* A dial mirrors the epoch of its own version, a reader that of the blob it compiled.
BumpOrgEpoch(p) ==
    /\ at[p] = "bump"
    /\ counter' = Advanced(IF p \in Edits THEN order[p] ELSE seen[p][ReadsFor[p]].epoch)
    /\ Move(p, IF p \in Edits THEN "acknowledged" ELSE "served")
    /\ UNCHANGED <<pgVars, blob, todo, seen, floor>>

-----------------------------------------------------------------------------
(* resolveEffectivePolicy *)

Acknowledged(g) == {e \in Edits : at[e] = "acknowledged" /\ g \in Touched(ScopeOf[e])}

\* The two GETs go out together on one connection, which keeps their order.
ReadBlob(r) ==
    LET g == ReadsFor[r]
    IN  /\ r \in Readers /\ at[r] \in {"idle", "served"}
        /\ seen' = [seen EXCEPT ![r][g] = blob[g]]
        /\ floor' = [floor EXCEPT ![r] = Acknowledged(g)]
        /\ Move(r, "decide")
        /\ UNCHANGED <<pgVars, redisVars, todo>>

\* Mutant of IsCacheFresh: any blob will do.
IsCached(b, current) == b # NoBlob /\ current # Unset

IsCacheFresh(b, current) == b # NoBlob /\ current # Unset /\ b.epoch >= current

ReadCounterAndDecide(r) ==
    LET g == ReadsFor[r]
    IN  /\ at[r] = "decide"
        /\ IF IsCacheFresh(seen[r][g], counter)
           THEN Move(r, "served") /\ UNCHANGED <<todo, seen>>
           ELSE /\ Move(r, "recompile")
                /\ todo' = [todo EXCEPT ![r] = {g}]
                /\ seen' = [seen EXCEPT ![r][g] = NoBlob]
        /\ UNCHANGED <<pgVars, redisVars, floor>>

-----------------------------------------------------------------------------

\* The server instance that runs the request stops.
Halt(p) ==
    /\ at[p] \notin {"idle", "served", "acknowledged", "halted"}
    /\ Move(p, IF p \in Edits THEN "halted" ELSE "idle")
    /\ todo' = [todo EXCEPT ![p] = {}]
    /\ seen' = [seen EXCEPT ![p] = [g \in Agents |-> NoBlob]]
    /\ floor' = IF p \in Readers THEN [floor EXCEPT ![p] = {}] ELSE floor
    /\ UNCHANGED <<pgVars, redisVars>>

PolicyNext ==
    \/ \E e \in Edits :
          \/ DialAgent(e) \/ DialOrg(e) \/ AttachTradingFlow(e)
          \/ CreatePolicyVersion(e) \/ CreateAllocationVersion(e) \/ AssignPolicy(e)
    \/ \E p \in Requests :
          \/ \E g \in Agents : ReadEffectiveLayers(p, g) \/ PublishEffectivePolicy(p, g)
          \/ BumpOrgEpoch(p) \/ Halt(p)
    \/ \E r \in Readers : ReadBlob(r) \/ ReadCounterAndDecide(r)

PolicySpec == PolicyInit /\ [][PolicyNext]_policyVars

-----------------------------------------------------------------------------
(* Properties *)

Blob == [epoch : Nat \cup {Unset}, rules : SUBSET Edits]

\* Every table, key and request holds a value of its kind.
PolicyTypeOK ==
    /\ epoch \in Nat
    /\ order \in [Edits -> Nat]
    /\ policyOf \in [Edits -> Policies]
    /\ assigned \in SUBSET Policies
    /\ counter \in Nat \cup {Unset}
    /\ blob \in [Agents -> Blob]
    /\ at \in [Requests -> {"idle", "create", "allocation", "assign", "recompile", "bump",
                            "acknowledged", "decide", "served", "halted"}]
    /\ todo \in [Requests -> SUBSET Agents]
    /\ seen \in [Requests -> [Agents -> Blob]]
    /\ floor \in [Readers -> SUBSET Edits]

\* Rules cover an edit when they have its version of the policy or a later one.
Covers(rules, e) == \E f \in rules : policyOf[f] = policyOf[e] /\ order[f] >= order[e]

\* store.ts, getEffectiveLayers: the epoch of a published blob and its rules agree, so that
\* comparing epochs is enough: every edit up to the blob's epoch is in its rules, unless it
\* wrote the first version of its policy.  That one is assigned after its version has raised
\* the epoch, and of it this cannot be said.
BlobMatchesEpoch ==
  /\ PolicyTypeOK
  /\ \A g \in Agents, e \in Edits :
        /\ g \in Touched(ScopeOf[e]) /\ policyOf[e] # e
        /\ order[e] \in 1 .. blob[g].epoch
        => Covers(blob[g].rules, e)

\* policy-epoch-guard.ts, "never a stale serve": a policy that is served has every edit that
\* was acknowledged before its read began, whatever late publish or bump happens since.
ServedIsCurrent ==
    \A r \in Readers :
        at[r] = "served" => \A e \in floor[r] : Covers(seen[r][ReadsFor[r]].rules, e)
=============================================================================
