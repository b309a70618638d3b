------------------------------ MODULE MCSettlement ------------------------------
(***************************************************************************)
(* Constants of the settlement for TLC.  Deployments: both networks        *)
(* complete; mainnet with a signer for anchors only; no facilitator, venue *)
(* or registry, and a mainnet that has a node.                             *)
(***************************************************************************)
EXTENDS Settlement

All == {"signer", "rpc", "facilitator", "venue", "odra"}
Deployed ==
    {[n \in CasperNets |-> IF n = "test" THEN d[1] ELSE d[2]] :
        d \in {<<All, All>>, <<All, {"odra"}>>, <<{"signer"}, {"signer", "rpc"}>>}}
=============================================================================
