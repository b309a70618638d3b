------------------------------ MODULE GraphDeploy ------------------------------
(***************************************************************************)
(* The visual builder: a canvas is validated, compiled and deployed, which *)
(* registers an agent per Agent node, gives each a keypair, writes a spend *)
(* policy per role and assigns it, and offers the drawn grants for the     *)
(* owner to sign.  Every step of a deploy is a call of its own: another    *)
(* deploy of the same canvas, or a draft saved over it, may come between,  *)
(* and a deploy may end after any step.                                    *)
(*                                                                         *)
(* Of a canvas the parts that validation and the policies look at are      *)
(* kept: names, services, velocities and positions are carried through or  *)
(* dropped alike.  A policy is its cap and its rails.                      *)
(***************************************************************************)
EXTENDS Naturals, Sequences, FiniteSets

CONSTANTS
    Canvases,     \* graphs that are drawn: ceilings, fleets, rooted, nodes, grants
    OrgSpend,     \* the spend policy of the organisation
    Deploys       \* deploy requests, each of which is made once

\* A canvas lists its nodes in order; spend caps are amounts.
ASSUME DeployAssumption ==
    /\ OrgSpend.cap \in Nat
    /\ \A g \in Canvases :
           /\ g.nodes \in Seq({g.nodes[i] : i \in DOMAIN g.nodes})
           /\ \A i \in DOMAIN g.nodes : g.nodes[i].cap \in Nat

VARIABLES
    stored,       \* builder_graphs: the canvas, deployed_at, and role_bindings
    fleet,        \* agents, in the order of their registration: has it a keypair?
    layers,       \* layers[a]: agent-scoped spend policies assigned to agent a
    deployer      \* deployer[q]: where deploy q stands and what it has created

deployVars == <<stored, fleet, layers, deployer>>

Rest == [at |-> "new"]
Turn(q, next) == deployer' = [deployer EXCEPT ![q] = next]

DeployInit ==
    /\ \E g \in Canvases : stored = [graph |-> g, deployed |-> FALSE, bound |-> << >>]
    /\ fleet = << >> /\ layers = << >>
    /\ deployer = [q \in Deploys |-> Rest]
-----------------------------------------------------------------------------
(* validateGraph.                                                          *)

TradersAreGuarded(g) ==
    \A i \in DOMAIN g.nodes : "trade" \in g.nodes[i].rails => "trade" \in g.nodes[i].guards

ValidGraph(g) ==
    /\ Len(g.ceilings) = 1 /\ g.fleets > 0 /\ g.rooted
    /\ \A i \in DOMAIN g.nodes : g.nodes[i].parents = 1 /\ g.nodes[i].cap <= g.ceilings[1]
    /\ TradersAreGuarded(g)
-----------------------------------------------------------------------------
(* compileGraphToConfig.                                                   *)

Compiled(g) ==
    [ceiling |-> g.ceilings[1],
     roles |-> [i \in DOMAIN g.nodes |-> [role |-> g.nodes[i].role, guards |-> g.nodes[i].guards,
                spend |-> [cap |-> g.nodes[i].cap, rails |-> g.nodes[i].rails]]],
     grants |-> g.grants]

-----------------------------------------------------------------------------
(* compileSpend: caps take the minimum, allowlists the intersection.       *)

CompileSpend(S) ==
    [cap |-> CHOOSE n \in {p.cap : p \in S} : \A p \in S : n <= p.cap,
     rails |-> {r \in UNION {p.rails : p \in S} : \A p \in S : r \in p.rails}]

EnforcedOn(a) == CompileSpend(layers[a] \cup {OrgSpend})
-----------------------------------------------------------------------------
(* The routes.                                                             *)

\* The upsert keeps deployed_at and role_bindings.
Upsert(g) == stored' = [stored EXCEPT !.graph = g]

SaveGraph(g) ==
    /\ Upsert(g)
    /\ UNCHANGED <<fleet, layers, deployer>>

\* The canvas of the request is saved before anything is created.
Deploy(q, g) ==
    /\ deployer[q] = Rest
    /\ Upsert(g)
    /\ Turn(q, IF ValidGraph(g)
               THEN [at |-> IF g.nodes = << >> THEN "mark" ELSE "register", graph |-> g,
                     made |-> << >>, done |-> 0]
               ELSE [at |-> "refused"])
    /\ UNCHANGED <<fleet, layers>>

RegisterNode(q) ==
    LET d == deployer[q] IN
    /\ d.at = "register"
    /\ fleet' = Append(fleet, [key |-> FALSE])
    /\ layers' = Append(layers, {})
    /\ Turn(q, [d EXCEPT !.at = "provision", !.made = Append(@, Len(fleet) + 1)])
    /\ UNCHANGED stored

\* The vault may fail, and the agent then has no keypair.
Provision(q) ==
    LET d == deployer[q] IN
    /\ d.at = "provision"
    /\ \E ok \in BOOLEAN : fleet' = [fleet EXCEPT ![d.made[Len(d.made)]].key = ok]
    /\ Turn(q, [d EXCEPT !.at = IF Len(d.made) < Len(d.graph.nodes) THEN "register" ELSE "write"])
    /\ UNCHANGED <<stored, layers>>

\* Agents a deploy made for the nodes i that satisfy a condition, by node.
MadeFor(d, role) == {i \in DOMAIN d.made : d.graph.nodes[i].role = role}

\* Mutant of RoleAgent: the first agent of a role keeps it.
RoleAgentFirst(d, role) ==
    d.made[CHOOSE i \in MadeFor(d, role) : \A j \in MadeFor(d, role) : i <= j]

\* roleAssignments: the last agent of a role takes it.
RoleAgent(d, role) == d.made[CHOOSE i \in MadeFor(d, role) : \A j \in MadeFor(d, role) : j <= i]

\* The spend policy and the allocation policy, which is assigned to nobody.
WriteVersions(q) ==
    /\ deployer[q].at = "write"
    /\ Turn(q, [deployer[q] EXCEPT !.at = "assign"])
    /\ UNCHANGED <<stored, fleet, layers>>

AssignSpend(q) ==
    LET d == deployer[q]
        r == Compiled(d.graph).roles[d.done + 1] IN
    /\ d.at = "assign"
    /\ layers' = [layers EXCEPT ![RoleAgent(d, r.role)] = @ \cup {r.spend}]
    /\ Turn(q, [d EXCEPT !.done = @ + 1,
                         !.at = IF d.done + 1 < Len(d.graph.nodes) THEN "write" ELSE "mark"])
    /\ UNCHANGED <<stored, fleet>>

Roles(d) == {d.graph.nodes[i].role : i \in DOMAIN d.graph.nodes}

\* roleBindings: the agents are listed in order, so the last one of a role stays.
Bindings(d) == [r \in Roles(d) |->
    d.made[CHOOSE i \in MadeFor(d, r) : \A j \in MadeFor(d, r) : j <= i]]

MarkGraphDeployed(q) ==
    LET d == deployer[q] IN
    /\ d.at = "mark"
    /\ stored' = [stored EXCEPT !.deployed = TRUE, !.bound = Bindings(d)]
    /\ Turn(q, [d EXCEPT !.at = "answered"])
    /\ UNCHANGED <<fleet, layers>>

\* A call fails, or the instance stops: what was created stays.
StopDeploy(q) ==
    /\ deployer[q].at \in {"register", "provision", "write", "assign", "mark"}
    /\ Turn(q, [at |-> "failed"])
    /\ UNCHANGED <<stored, fleet, layers>>

DeployNext ==
    \/ \E g \in Canvases : SaveGraph(g)
    \/ \E q \in Deploys, g \in Canvases : Deploy(q, g)
    \/ \E q \in Deploys :
           \/ RegisterNode(q) \/ Provision(q) \/ WriteVersions(q) \/ AssignSpend(q)
           \/ MarkGraphDeployed(q) \/ StopDeploy(q)

DeploySpec == DeployInit /\ [][DeployNext]_deployVars
-----------------------------------------------------------------------------
DeployTypeOK ==
    /\ stored.graph \in Canvases /\ stored.deployed \in BOOLEAN
    /\ \A a \in DOMAIN fleet : fleet[a].key \in BOOLEAN
    /\ DOMAIN layers = DOMAIN fleet

\* The last node drawn with an id, by way of nodeIdByRole and agentIdByNodeId.
NodeIdOf(d, i) ==
    d.graph.nodes[CHOOSE j \in MadeFor(d, d.graph.nodes[i].role) :
                      \A k \in MadeFor(d, d.graph.nodes[i].role) : k <= j].id
WithId(d, id) == {i \in DOMAIN d.made : NodeIdOf(d, i) = id}

\* pendingGrants: for each drawn grant the last agent of its node, if it has a keypair.
Offered(d) ==
    {a \in {d.made[CHOOSE i \in WithId(d, id) : \A j \in WithId(d, id) : j <= i] :
               id \in {g \in {d.graph.grants[n] : n \in DOMAIN d.graph.grants} :
                          WithId(d, g) # {}}} :
        fleet[a].key}

Answered == {deployer[q] : q \in {p \in Deploys : deployer[p].at = "answered"}}

NodeOf(d, a) == d.graph.nodes[CHOOSE i \in DOMAIN d.made : d.made[i] = a]
Within(a, node, ceiling) ==
    /\ layers[a] # {}
    /\ EnforcedOn(a).cap <= node.cap /\ node.cap <= ceiling
    /\ EnforcedOn(a).rails \subseteq node.rails
    /\ "trade" \in EnforcedOn(a).rails => "trade" \in node.guards

(* What a deploy that answered says of its agents is enforced: an agent it *)
(* binds to a role, or offers to the owner for a grant, has a policy of its*)
(* own, within what its node was drawn with and within the ceiling, however*)
(* two deploys and a draft interleave and whichever failed before.  The    *)
(* canvas says it is deployed only with such agents.                       *)
FleetsAreEnforced ==
    /\ DeployTypeOK
    /\ \A d \in Answered : \A a \in {Bindings(d)[r] : r \in Roles(d)} \cup Offered(d) :
           Within(a, NodeOf(d, a), d.graph.ceilings[1])
    /\ stored.deployed => \E d \in Answered : stored.bound = Bindings(d)
=============================================================================
