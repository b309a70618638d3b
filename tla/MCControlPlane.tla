--------------------------- MODULE MCControlPlane ---------------------------
(***************************************************************************)
(* The tables of the control plane on small instances: accounts, members,  *)
(* the keys of an agent, the fleets the builder deploys, and the deposits  *)
(* of the treasury.  No two of these parts share a table, so one run       *)
(* explores each of them next to the others at rest: part says which one   *)
(* runs.                                                                   *)
(*                                                                         *)
(* The canvases are a fleet with two grants, a fleet with two nodes of one *)
(* role, and a trader without its guard.                                   *)
(***************************************************************************)
EXTENDS Accounts, Members, AgentKeys, GraphDeploy, Deposits, TLC

VARIABLE part

Node(i, r, c, R, G) ==
    [id |-> i, role |-> r, cap |-> c, rails |-> R, guards |-> G, parents |-> 1]
Graph(N, G) == [ceilings |-> <<2>>, fleets |-> 1, rooted |-> TRUE, nodes |-> N, grants |-> G]
Drawn ==
    {Graph(<<Node(1, "buyer", 1, {"pay"}, {}), Node(2, "trader", 2, {"trade"}, {"trade"})>>,
           <<2, 1>>),
     Graph(<<Node(1, "trader", 2, {"pay", "trade"}, {"trade"}), Node(2, "trader", 1, {"pay"}, {})>>,
           <<1, 2>>),
     Graph(<<Node(1, "trader", 1, {"trade"}, {})>>, << >>)}
OrgPolicy == [cap |-> 3, rails |-> {"pay", "trade"}]

\* The parts at rest start in one of their initial states.
ControlInit ==
    /\ part \in {"accounts", "members", "keys", "builder", "deposits"}
    /\ AccountsInit /\ MembersInit /\ KeysInit /\ DeployInit /\ DepositsInit
    /\ part = "members" \/ adminKey = Absent
    /\ part = "keys" \/ (agent = "none" /\ account.others = 0)
    /\ part = "builder" \/ stored.graph = CHOOSE g \in Canvases : TRUE

ControlNext ==
    \/ part = "accounts" /\ AccountsNext
       /\ UNCHANGED <<part, memberVars, keyVars, deployVars, depositVars>>
    \/ part = "members" /\ MembersNext
       /\ UNCHANGED <<part, accountVars, keyVars, deployVars, depositVars>>
    \/ part = "keys" /\ KeysNext
       /\ UNCHANGED <<part, accountVars, memberVars, deployVars, depositVars>>
    \/ part = "builder" /\ DeployNext
       /\ UNCHANGED <<part, accountVars, memberVars, keyVars, depositVars>>
    \/ part = "deposits" /\ DepositsNext
       /\ UNCHANGED <<part, accountVars, memberVars, keyVars, deployVars>>

ControlSpec ==
    ControlInit
    /\ [][ControlNext]_<<part, accountVars, memberVars, keyVars, deployVars, depositVars>>

\* Requests and connections are interchangeable: the callers of one part name those of the
\* others too.
Symmetric == Permutations(Callers) \cup Permutations(Conns)
=============================================================================
