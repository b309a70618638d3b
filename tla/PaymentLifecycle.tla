--------------------------- MODULE PaymentLifecycle ---------------------------
(***************************************************************************)
(* What Casper Guard promises about the payments of an agent: the budget   *)
(* holds a payment from before it is promised until it is paid or closed,  *)
(* a key is promised at most once, and paid and closed exclude each other  *)
(* for good.  Stores, locks, requests and replays are not visible here.    *)
(***************************************************************************)
CONSTANTS
    Payments,   \* payments an agent may ask for
    KeyOf       \* KeyOf[p]: the idempotency key p was asked with

VARIABLES
    stage,      \* stage[p]: new, refused, promised, committed, paid or closed
    held        \* payments that count against the budget

vars == <<stage, held>>

Init ==
    /\ stage = [p \in Payments |-> "new"]
    /\ held = {}

\* No payment of p's key has left the stage new.
KeyIsFree(p) == \A q \in Payments : KeyOf[q] = KeyOf[p] => stage[q] = "new"

Advance(p, from, to) ==
    /\ stage[p] \in from
    /\ stage' = [stage EXCEPT ![p] = to]
    /\ UNCHANGED held

Hold(p) ==
    /\ stage[p] = "new"
    /\ held' = held \cup {p}
    /\ UNCHANGED stage

\* The budget forgets a payment that was never promised, or that came to nothing.
Forget(p) ==
    /\ stage[p] \in {"new", "closed"}
    /\ held' = held \ {p}
    /\ UNCHANGED stage

Refuse(p) == KeyIsFree(p) /\ p \notin held /\ Advance(p, {"new"}, "refused")
Promise(p) == KeyIsFree(p) /\ p \in held /\ Advance(p, {"new"}, "promised")
Commit(p) == Advance(p, {"promised"}, "committed")
Pay(p) == Advance(p, {"committed"}, "paid")
Close(p) == Advance(p, {"promised", "committed"}, "closed")

Next ==
    \E p \in Payments :
        \/ Hold(p) \/ Forget(p) \/ Refuse(p) \/ Promise(p)
        \/ Commit(p) \/ Pay(p) \/ Close(p)

Spec == Init /\ [][Next]_vars
=============================================================================
