-------------------------------- MODULE Deposits --------------------------------
(***************************************************************************)
(* Crediting transfers to the treasury.  A transfer to the operator wallet *)
(* is credited against the deposit intent whose number it carries (verify- *)
(* deposit), or by its hash (deposit-by-hash); the rows of                 *)
(* treasury_deposit_intents are the organisation's balance.                *)
(*                                                                         *)
(* Every statement goes to whichever pooled connection is free, the BEGIN, *)
(* COMMIT and ROLLBACK of verify-deposit included, so a transaction is a   *)
(* state of a connection and not of a request: what runs on a connection   *)
(* while its transaction is open is committed or rolled back with it.      *)
(*                                                                         *)
(* A row is named by its unique ref_id: the number of an intent, or, for a *)
(* row of deposit-by-hash, the number derived from the hash.  Rows are of  *)
(* one organisation and one network; amounts are left out.                 *)
(***************************************************************************)
EXTENDS Naturals, FiniteSets

CONSTANTS
    Conns,       \* connections of the pool
    Refs,        \* numbers of deposit intents
    Txs,         \* transfers
    Tellers      \* requests, each of which is made once

VARIABLES
    row,         \* committed rows: row[k], k a ref or a tx
    conn,        \* conn[c]: is a transaction open or aborted, its locks and its writes
    memo,        \* the chain: memo[t], the ref a final transfer carries, or why none
    teller,      \* teller[q]: where request q stands and what it has read
    acked,       \* history: transfers whose credit was answered to somebody
    mixed        \* history: a statement met a transaction that its request did not open

depositVars == <<row, conn, memo, teller, acked, mixed>>

RowIds == Refs \cup Txs
NoTx == "no tx"
NoMemo == "no memo"       \* a transfer without a number
NotSent == "not sent"
Free == [open |-> FALSE, aborted |-> FALSE, locks |-> {}, writes |-> << >>]
NoRow == [status |-> "none", tx |-> NoTx]
Credit(t) == [status |-> "credited", tx |-> t]

\* The number of an intent is at most 2 * 10^9 and a derived one is 60 bits of a hash; the
\* unique ref_id would refuse the row of a hash that collided.
ASSUME DepositsAssumption ==
    /\ Refs \cap Txs = {}
    /\ NoTx \notin Txs /\ {NoMemo, NotSent} \cap Refs = {}

Fresh == [at |-> "fresh"]
Replied == [at |-> "replied"]
StepTo(q, next) == teller' = [teller EXCEPT ![q] = next]
With(q, at) == [teller[q] EXCEPT !.at = at]

DepositsInit ==
    /\ row = [k \in RowIds |-> NoRow]
    /\ conn = [c \in Conns |-> Free]
    /\ memo = [t \in Txs |-> NotSent]
    /\ teller = [q \in Tellers |-> Fresh]
    /\ acked = {} /\ mixed = FALSE

Transfer(t, m) ==
    /\ memo[t] = NotSent
    /\ memo' = [memo EXCEPT ![t] = m]
    /\ UNCHANGED <<row, conn, teller, acked, mixed>>
-----------------------------------------------------------------------------
(* Postgres.                                                               *)

\* What a statement on connection c sees.
Sees(c, k) == IF k \in DOMAIN conn[c].writes THEN conn[c].writes[k] ELSE row[k]

Others(c) == Conns \ {c}
Locked(c, k) == \E d \in Others(c) : k \in conn[d].locks
\* Another transaction has written the unique tx and has not ended.
Contested(c, t) == \E d \in Others(c) : \E k \in DOMAIN conn[d].writes : conn[d].writes[k].tx = t
Taken(c, k, t) == \E j \in RowIds \ {k} : Sees(c, j).tx = t

Overlaid(f, k, r) == [j \in DOMAIN f \cup {k} |-> IF j = k THEN r ELSE f[j]]

Write(c, k, r) ==
    IF conn[c].open
    THEN /\ conn' = [conn EXCEPT ![c].locks = @ \cup {k}, ![c].writes = Overlaid(@, k, r)]
         /\ UNCHANGED row
    ELSE row' = [row EXCEPT ![k] = r] /\ UNCHANGED conn

Abort(c) == conn' = IF conn[c].open THEN [conn EXCEPT ![c].aborted = TRUE] ELSE conn

\* q runs a statement on c; a request that has begun knows, in history, on which connection.
Runs(q, c) ==
    mixed' = (mixed \/ IF "on" \in DOMAIN teller[q] THEN c # teller[q].on ELSE conn[c].open)
-----------------------------------------------------------------------------
(* POST /v1/treasury/deposit-intent.                                       *)

DepositIntent(k, c) ==
    /\ Sees(c, k) = NoRow /\ ~Locked(c, k) /\ ~conn[c].aborted
    /\ Write(c, k, [status |-> "pending", tx |-> NoTx])
    /\ mixed' = (mixed \/ conn[c].open)
    /\ UNCHANGED <<memo, teller, acked>>
-----------------------------------------------------------------------------
(* POST /v1/treasury/verify-deposit.                                       *)

LoadIntent(q, k, c) ==
    /\ teller[q] = Fresh
    /\ ~conn[c].aborted
    /\ StepTo(q, IF Sees(c, k).status = "pending" THEN [at |-> "scan", ref |-> k] ELSE Replied)
    /\ Runs(q, c)
    /\ UNCHANGED <<row, conn, memo, acked>>

\* The scan of the recent blocks, newest first.
FindTransferByRefId(q) ==
    /\ teller[q].at = "scan"
    /\ \E t \in Txs :
           /\ memo[t] = teller[q].ref
           /\ StepTo(q, [at |-> "begin", ref |-> teller[q].ref, tx |-> t])
    /\ UNCHANGED <<row, conn, memo, acked, mixed>>

\* A second BEGIN in an open transaction is a warning.
Begin(q, c) ==
    /\ teller[q].at = "begin"
    /\ conn' = [conn EXCEPT ![c].open = TRUE]
    /\ mixed' = (mixed \/ conn[c].open)
    /\ StepTo(q, [at |-> "recheck", ref |-> teller[q].ref, tx |-> teller[q].tx, on |-> c])
    /\ UNCHANGED <<row, memo, acked>>

Recheck(q, c) ==
    LET k == teller[q].ref IN
    /\ teller[q].at = "recheck"
    /\ ~Locked(c, k)
    /\ IF conn[c].aborted
       THEN StepTo(q, With(q, "rollback")) /\ UNCHANGED conn
       ELSE /\ conn' = IF conn[c].open THEN [conn EXCEPT ![c].locks = @ \cup {k}] ELSE conn
            /\ StepTo(q, With(q, IF Sees(c, k).status = "credited" THEN "rollback" ELSE "deposit"))
    /\ Runs(q, c)
    /\ UNCHANGED <<row, memo, acked>>

\* The gateway sends the amount from the operator to itself, or throws.
GatewayDeposit(q) ==
    /\ teller[q].at = "deposit"
    /\ \E next \in {"update", "rollback"} : StepTo(q, With(q, next))
    /\ UNCHANGED <<row, conn, memo, acked, mixed>>

\* Mutant of Unique: the index on deploy_hash is dropped.
UniqueDropped(c, k, t) == TRUE

\* Does the unique index on deploy_hash let row k have tx t?
Unique(c, k, t) == ~Taken(c, k, t)

UpdateCredited(q, c) ==
    LET k == teller[q].ref
        t == teller[q].tx IN
    /\ teller[q].at = "update"
    /\ ~Locked(c, k) /\ ~Contested(c, t)
    /\ IF conn[c].aborted \/ ~Unique(c, k, t)
       THEN Abort(c) /\ StepTo(q, With(q, "rollback")) /\ UNCHANGED row
       ELSE Write(c, k, Credit(t)) /\ StepTo(q, With(q, "commit"))
    /\ Runs(q, c)
    /\ UNCHANGED <<memo, acked>>

Ends(c, commit) ==
    /\ conn' = [conn EXCEPT ![c] = Free]
    /\ row' = IF commit /\ ~conn[c].aborted THEN [k \in RowIds |-> Sees(c, k)] ELSE row

\* Mutant of Commit: the request answers with its transaction still open.
CommitForgotten(q, c) ==
    /\ teller[q].at = "commit"
    /\ acked' = acked \cup {teller[q].tx}
    /\ Runs(q, c)
    /\ StepTo(q, Replied)
    /\ UNCHANGED <<row, conn, memo>>

Commit(q, c) ==
    /\ teller[q].at = "commit"
    /\ Ends(c, TRUE)
    /\ acked' = acked \cup {teller[q].tx}
    /\ Runs(q, c)
    /\ StepTo(q, Replied)
    /\ UNCHANGED memo

Rollback(q, c) ==
    /\ teller[q].at = "rollback"
    /\ Ends(c, FALSE)
    /\ Runs(q, c)
    /\ StepTo(q, Replied)
    /\ UNCHANGED <<memo, acked>>
-----------------------------------------------------------------------------
(* POST /v1/treasury/deposit-by-hash: look, ask the node, insert.          *)

FindCredited(q, t, c) ==
    /\ teller[q] = Fresh
    /\ ~conn[c].aborted
    /\ StepTo(q, IF \E k \in RowIds : Sees(c, k) = Credit(t) THEN Replied
               ELSE [at |-> "askNode", tx |-> t])
    /\ Runs(q, c)
    /\ UNCHANGED <<row, conn, memo, acked>>

AskNode(q) ==
    /\ teller[q].at = "askNode"
    /\ StepTo(q, IF memo[teller[q].tx] = NotSent THEN Replied ELSE With(q, "insert"))
    /\ UNCHANGED <<row, conn, memo, acked, mixed>>

\* INSERT ... ON CONFLICT DO NOTHING; a statement in an aborted transaction throws.
InsertCredited(q, c) ==
    LET t == teller[q].tx IN
    /\ teller[q].at = "insert"
    /\ ~Locked(c, t) /\ ~Contested(c, t)
    /\ IF conn[c].aborted \/ ~Unique(c, t, t) \/ Sees(c, t) # NoRow
       THEN UNCHANGED <<row, conn, acked>>
       ELSE Write(c, t, Credit(t)) /\ acked' = acked \cup {t}
    /\ Runs(q, c)
    /\ StepTo(q, Replied)
    /\ UNCHANGED memo
-----------------------------------------------------------------------------
\* A call fails or the instance stops: its open transactions are rolled back by the server
\* when the connections break, which then break for every request of the instance.
StopInstance ==
    /\ \E q \in Tellers : teller[q] \notin {Fresh, Replied}
    /\ conn' = [c \in Conns |-> Free]
    /\ teller' = [q \in Tellers |-> IF teller[q] = Fresh THEN Fresh ELSE Replied]
    /\ UNCHANGED <<row, memo, acked, mixed>>

TellerStep(q, c) ==
    \/ \E k \in Refs : LoadIntent(q, k, c)
    \/ Begin(q, c) \/ Recheck(q, c) \/ UpdateCredited(q, c) \/ Commit(q, c) \/ Rollback(q, c)
    \/ \E t \in Txs : FindCredited(q, t, c)
    \/ InsertCredited(q, c)

DepositsNext ==
    \/ \E t \in Txs, m \in Refs \cup {NoMemo} : Transfer(t, m)
    \/ \E k \in Refs, c \in Conns : DepositIntent(k, c)
    \/ \E q \in Tellers, c \in Conns : TellerStep(q, c)
    \/ \E q \in Tellers : FindTransferByRefId(q) \/ GatewayDeposit(q) \/ AskNode(q)
    \/ StopInstance

DepositsSpec == DepositsInit /\ [][DepositsNext]_depositVars
-----------------------------------------------------------------------------
DepositsTypeOK ==
    /\ \A k \in RowIds : row[k] \in
           [status : {"none", "pending", "credited"}, tx : Txs \cup {NoTx}]
    /\ \A c \in Conns :
           /\ conn[c].open \in BOOLEAN /\ conn[c].aborted \in BOOLEAN
           /\ DOMAIN conn[c].writes \subseteq conn[c].locks /\ conn[c].locks \subseteq RowIds
    /\ acked \subseteq Txs

CreditsOf(t) == {k \in RowIds : row[k] = Credit(t)}

(* A transfer is credited at most once, by whichever route and however the *)
(* statements of the requests fall on the connections, and an intent is    *)
(* credited with the transfer that carries its number.                     *)
CreditedOnce ==
    /\ DepositsTypeOK
    /\ \A t \in Txs : Cardinality(CreditsOf(t)) <= 1
    /\ \A k \in Refs : row[k].status = "credited" => memo[row[k].tx] = k
(* A credit that was answered is not lost, provided every request's        *)
(* statements ran on the connection whose transaction it had opened and on *)
(* no other's.                                                             *)
CreditsSurviveUnmixed == mixed \/ \A t \in acked : CreditsOf(t) # {}
=============================================================================
