---------------------------- MODULE MCProvisioning ----------------------------
(***************************************************************************)
(* Constants of provisioning for TLC: allocations x and y fund agent g1,   *)
(* z funds g2; teardown t1 retires g1.                                     *)
(***************************************************************************)
EXTENDS Provisioning, TLC, FiniteSetsExt

CONSTANTS x, y, z, g1, g2

MCAgentOf == [a \in Allocations |-> IF a = z THEN g2 ELSE g1]
MCAmount == [a \in Allocations |-> IF a = x THEN 1 ELSE 2]
MCTotal == [S \in SUBSET Allocations |-> MapThenSumSet(LAMBDA a : MCAmount[a], S)]
MCTornDown == [t \in Teardowns |-> g1]
=============================================================================
