---------------------------- MODULE MCCasperGuard ----------------------------
(***************************************************************************)
(* Constants of Casper Guard for TLC.  Calls a, b and c; which of them     *)
(* share a key, a request and a kind is chosen by the definitions a .cfg   *)
(* names.  Every payment is one base unit.                                 *)
(***************************************************************************)
EXTENDS CasperGuard, TLC

CONSTANTS a, b, c, k1, k2, w1, w2

\* All calls retry one key; c carries another request with it.
OneKey == [d \in Decisions |-> k1]
TwoRequests == [d \in Decisions |-> IF d = c THEN "other" ELSE "same"]

\* Two keys, one call each.
OwnKeys == [d \in Decisions |-> IF d = b THEN k2 ELSE k1]
OneRequest == [d \in Decisions |-> "same"]

AllX402 == [d \in Decisions |-> "x402-payment"]
AllTrades == [d \in Decisions |-> "cspr-trade"]
DeployAndX402 == [d \in Decisions |-> IF d = a THEN "casper-deploy" ELSE "x402-payment"]

\* Reconcile requests are interchangeable.
WorkerSymmetry == Permutations(Workers)

UnitAmount == [d \in Decisions |-> 1]
UnitTotal == [S \in SUBSET Decisions |-> Cardinality(S)]
=============================================================================
