------------------------------ MODULE MCDecision ------------------------------
(***************************************************************************)
(* What a decision meets before and after Casper Guard's own rows, on      *)
(* small instances: the spend windows and holds of the hot tier, the       *)
(* effective policy with its epoch, and the attempts and anchors of its    *)
(* settlement.  No two of them share a key or a table, so one run explores *)
(* each next to the others at rest: part says which one runs.              *)
(*                                                                         *)
(* Three payments of different amounts, one of them not float-backed.      *)
(* Edit u writes the scope of agent g1, v that of agent g2, w the          *)
(* organisation; every reader asks for g1.                                 *)
(***************************************************************************)
EXTENDS HotTier, PolicyEpoch, MCSettlement, TLC

CONSTANTS p1, p2, p3, g1, g2, u, v, w, org

VARIABLE part

MCAmount == p1 :> 1 @@ p2 :> 2 @@ p3 :> 2
MCTotal == [S \in SUBSET Payments |-> MapThenSumSet(LAMBDA p : MCAmount[p], S)]
MCFloatBacked == {p1, p2}

MCScopeOf == [e \in Edits |-> IF e = w THEN org ELSE IF e = v THEN g2 ELSE g1]
MCReadsFor == [r \in Readers |-> g1]

\* The parts at rest start in one of their initial states.
DecisionInit ==
    /\ part \in {"hotTier", "policy", "settlement"}
    /\ Init /\ PolicyInit /\ SettlementInit
    /\ part = "policy" \/ counter = Unset
    /\ \/ part = "settlement"
       \/ env = (CHOOSE e \in Deployments : TRUE) /\ kind = "x402-payment" /\ net = "test"

DecisionNext ==
    \/ part = "hotTier" /\ Next /\ UNCHANGED <<part, policyVars, settlementVars>>
    \/ part = "policy" /\ PolicyNext /\ UNCHANGED <<part, vars, settlementVars>>
    \/ part = "settlement" /\ SettlementNext /\ UNCHANGED <<part, vars, policyVars>>

DecisionSpec == DecisionInit /\ [][DecisionNext]_<<part, vars, policyVars, settlementVars>>

\* The requests and the hashes of the settlement are interchangeable.
Symmetric == Permutations(Jobs) \cup Permutations(TxHashes)
=============================================================================
