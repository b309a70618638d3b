---------------------------- MODULE MCPolicyEpoch ----------------------------
(***************************************************************************)
(* Constants of the policy epoch for TLC: edit u writes the scope of agent *)
(* g1, v that of agent g2, w the organisation; every reader asks for g1.   *)
(***************************************************************************)
EXTENDS PolicyEpoch

CONSTANTS g1, g2, u, v, w, org, r1, r2

MCScopeOf == [e \in Edits |-> IF e = w THEN org ELSE IF e = v THEN g2 ELSE g1]
MCReadsFor == [r \in Readers |-> g1]
=============================================================================
