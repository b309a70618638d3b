---------------------------- MODULE DepositsProofs ----------------------------
(***************************************************************************)
(* Proofs about the crediting of treasury deposits, for any number of      *)
(* connections, intents, transfers and requests.                           *)
(***************************************************************************)
EXTENDS Deposits, FiniteSetTheorems, TLAPS

-----------------------------------------------------------------------------
(* The inductive invariant: what Postgres keeps whoever runs a statement   *)
(* on whichever connection, and what the requests know of it.              *)

DepositRow == [status : {"none", "pending", "credited"}, tx : Txs \cup {NoTx}]

\* A row of an intent is credited with the transfer that carries its number.
Proper(k, r) ==
    /\ r \in DepositRow
    /\ r.status = "credited" <=> r.tx \in Txs
    /\ k \in Refs /\ r.status = "credited" => memo[r.tx] = k

\* Only an open transaction holds locks, and it has locked what it has written.
ProperConn(c) ==
    LET x == conn[c]
    IN  /\ x \in [open : BOOLEAN, aborted : BOOLEAN, locks : SUBSET RowIds, writes : {x.writes}]
        /\ DOMAIN x.writes \subseteq x.locks
        /\ \A k \in DOMAIN x.writes : Proper(k, x.writes[k])
        /\ ~x.open => ~x.aborted /\ x.locks = {} /\ DOMAIN x.writes = {}

Tables ==
    /\ DOMAIN row = RowIds /\ \A k \in RowIds : Proper(k, row[k])
    /\ DOMAIN conn = Conns /\ \A c \in Conns : ProperConn(c)
    /\ \A t \in DOMAIN memo : memo[t] \in Refs \cup {NoMemo, NotSent}
    /\ DOMAIN memo = Txs

LocksExclude == \A c, d \in Conns : \A k \in conn[c].locks : k \in conn[d].locks => c = d

\* No transfer is in two rows: of what is committed, of what one connection sees, and of what
\* two transactions have written.
CommittedUnique ==
    \A j, k \in RowIds : row[j].tx \in Txs /\ row[j].tx = row[k].tx => j = k
SeenUnique ==
    \A c \in Conns : \A j, k \in RowIds : Sees(c, j).tx \in Txs /\ Sees(c, j).tx = Sees(c, k).tx
                                             => j = k
WrittenUnique ==
    \A c, d \in Conns : \A j \in DOMAIN conn[c].writes, k \in DOMAIN conn[d].writes :
        conn[c].writes[j].tx \in Txs /\ conn[c].writes[j].tx = conn[d].writes[k].tx => c = d

Postgres == Tables /\ LocksExclude /\ CommittedUnique /\ SeenUnique /\ WrittenUnique

\* The requests: verify-deposit looks for a transfer that carries the number of its intent.
Scanning == [at : {"scan"}, ref : Refs]
Beginning == [at : {"begin"}, ref : Refs, tx : Txs]
Transacting == [at : {"recheck", "deposit", "update", "commit", "rollback"},
                ref : Refs, tx : Txs, on : Conns]
Inserting == [at : {"askNode", "insert"}, tx : Txs]

ProperTeller(q) ==
    LET x == teller[q]
    IN  /\ x \in {Fresh, Replied} \cup Scanning \cup Beginning \cup Transacting \cup Inserting
        /\ x \in Beginning \cup Transacting => memo[x.tx] = x.ref

Requests == DOMAIN teller = Tellers /\ \A q \in Tellers : ProperTeller(q)

\* While no statement met a transaction of another request: a transaction is of one request,
\* which has its intent's row locked from the recheck on, has written only its credit, and
\* finds the row as it read it.
OwnTransaction(q) ==
    LET x == teller[q]
        y == conn[x.on]
    IN  x \in Transacting =>
            /\ y.open
            /\ x.at # "rollback" => ~y.aborted
            /\ x.at \in {"recheck", "deposit", "update"} => DOMAIN y.writes = {}
            /\ x.at \in {"deposit", "update", "commit"} =>
                  x.ref \in y.locks /\ row[x.ref].status # "credited"
            /\ x.at = "commit" =>
                  DOMAIN y.writes = {x.ref} /\ y.writes[x.ref] = Credit(x.tx)

OneEach ==
    \A p, q \in Tellers : teller[p] \in Transacting /\ teller[q] \in Transacting
                             /\ teller[p].on = teller[q].on => p = q

Acknowledged == \A t \in acked : \E k \in RowIds : row[k] = Credit(t)

IInv ==
    /\ Postgres
    /\ Requests
    /\ acked \subseteq Txs
    /\ mixed \/ (OneEach /\ Acknowledged /\ \A q \in Tellers : OwnTransaction(q))

-----------------------------------------------------------------------------
(* Postgres *)

\* What a write changes: the connection's transaction, or the committed row.
LEMMA WriteEffect ==
    ASSUME Tables, NEW c \in Conns, NEW k \in RowIds, NEW r, Write(c, k, r)
    PROVE  \/ /\ conn[c].open /\ UNCHANGED row /\ DOMAIN conn' = Conns
              /\ \A d \in Others(c) : conn'[d] = conn[d]
              /\ \E w : /\ conn'[c] \in [open : {conn[c].open}, aborted : {conn[c].aborted},
                                          locks : {conn[c].locks \cup {k}}, writes : {w}]
                        /\ DOMAIN w = DOMAIN conn[c].writes \cup {k} /\ w[k] = r
                        /\ \A j \in DOMAIN conn[c].writes \ {k} : w[j] = conn[c].writes[j]
           \/ /\ ~conn[c].open /\ UNCHANGED conn /\ DOMAIN row' = RowIds /\ row'[k] = r
              /\ \A j \in RowIds \ {k} : row'[j] = row[j]
<1>0. /\ DOMAIN conn = Conns /\ DOMAIN row = RowIds
      /\ conn[c] \in [open : BOOLEAN, aborted : BOOLEAN, locks : SUBSET RowIds,
                       writes : {conn[c].writes}]
  BY DEF Tables, ProperConn
<1>1. CASE conn[c].open
  <2> DEFINE w == Overlaid(conn[c].writes, k, r)
  <2>1. /\ DOMAIN w = DOMAIN conn[c].writes \cup {k} /\ w[k] = r
        /\ \A j \in DOMAIN conn[c].writes \ {k} : w[j] = conn[c].writes[j]
    BY DEF Overlaid
  <2>2. /\ conn' = [conn EXCEPT ![c] = [[conn[c] EXCEPT !.locks = conn[c].locks \cup {k}]
                                           EXCEPT !.writes = w]]
        /\ row' = row
    BY <1>0, <1>1 DEF Write
  <2> HIDE DEF w
  <2>3. [conn[c] EXCEPT !.locks = conn[c].locks \cup {k}]
          \in [open : {conn[c].open}, aborted : {conn[c].aborted},
               locks : {conn[c].locks \cup {k}}, writes : {conn[c].writes}]
    BY <1>0
  <2>4. [[conn[c] EXCEPT !.locks = conn[c].locks \cup {k}] EXCEPT !.writes = w]
          \in [open : {conn[c].open}, aborted : {conn[c].aborted},
               locks : {conn[c].locks \cup {k}}, writes : {w}]
    BY <2>3
  <2>5. DOMAIN conn' = Conns /\ \A d \in Conns \ {c} : conn'[d] = conn[d]
    BY <1>0, <2>2
  <2>6. conn'[c] \in [open : {conn[c].open}, aborted : {conn[c].aborted},
                      locks : {conn[c].locks \cup {k}}, writes : {w}]
    BY <1>0, <2>2, <2>4
  <2> QED
    BY <1>1, <2>1, <2>2, <2>5, <2>6 DEF Others
<1>2. CASE ~conn[c].open
  BY <1>0, <1>2 DEF Write
<1> QED
  BY <1>1, <1>2

\* A write that the unique index and the locks let through keeps the tables in order.
LEMMA WritePreserves ==
    ASSUME Postgres, UNCHANGED memo, NEW c \in Conns, NEW k \in RowIds, NEW r, Proper(k, r),
           ~Locked(c, k), Write(c, k, r),
           r.tx \in Txs => ~Taken(c, k, r.tx) /\ ~Contested(c, r.tx)
    PROVE  Postgres'
<1>0. /\ DOMAIN conn = Conns /\ DOMAIN row = RowIds
      /\ \A d \in Conns : ProperConn(d) /\ DOMAIN conn[d].writes \subseteq conn[d].locks
                          /\ DOMAIN conn[d].writes \subseteq RowIds
      /\ \A j \in RowIds : Proper(j, row[j])
  BY DEF Postgres, Tables, ProperConn
<1>1. \A d \in Others(c) : k \notin conn[d].locks /\ k \notin DOMAIN conn[d].writes
  BY <1>0 DEF Locked, Others
<1>2. r.tx \in Txs => /\ \A j \in RowIds \ {k} : Sees(c, j).tx # r.tx
                      /\ \A d \in Others(c) : \A j \in DOMAIN conn[d].writes :
                             conn[d].writes[j].tx # r.tx
  BY DEF Taken, Contested
<1>3. Proper(k, r)' /\ \A j \in RowIds : Proper(j, row[j])' \/ row'[j] # row[j]
  BY <1>0 DEF Proper
<1>4. CASE /\ conn[c].open /\ UNCHANGED row /\ DOMAIN conn' = Conns
           /\ \A d \in Others(c) : conn'[d] = conn[d]
           /\ \E w : /\ conn'[c] \in [open : {conn[c].open}, aborted : {conn[c].aborted},
                                       locks : {conn[c].locks \cup {k}}, writes : {w}]
                     /\ DOMAIN w = DOMAIN conn[c].writes \cup {k} /\ w[k] = r
                     /\ \A j \in DOMAIN conn[c].writes \ {k} : w[j] = conn[c].writes[j]
  <2>0. PICK w : /\ conn'[c] \in [open : {conn[c].open}, aborted : {conn[c].aborted},
                                   locks : {conn[c].locks \cup {k}}, writes : {w}]
                 /\ DOMAIN w = DOMAIN conn[c].writes \cup {k} /\ w[k] = r
                 /\ \A j \in DOMAIN conn[c].writes \ {k} : w[j] = conn[c].writes[j]
    BY <1>4
  <2>1. ASSUME NEW d \in Conns PROVE ProperConn(d)'
    <3>1. CASE d # c
      BY <1>0, <1>4, <3>1 DEF ProperConn, Others, Proper
    <3>2. CASE d = c
      <4>1. /\ conn'[c].open = conn[c].open /\ conn'[c].aborted = conn[c].aborted
            /\ conn'[c].locks = conn[c].locks \cup {k} /\ conn'[c].writes = w
        BY <2>0
      <4>2. \A j \in DOMAIN w : Proper(j, w[j])'
        BY <1>0, <1>3, <2>0 DEF ProperConn, Proper
      <4> QED
        BY <1>0, <1>4, <2>0, <3>2, <4>1, <4>2 DEF ProperConn
    <3> QED
      BY <3>1, <3>2
  <2>2. Tables'
    BY <1>0, <1>3, <1>4, <2>1 DEF Postgres, Tables, Proper
  <2>3. LocksExclude'
    BY <1>1, <1>4, <2>0 DEF Postgres, LocksExclude, Others
  <2>4. CommittedUnique'
    BY <1>4 DEF Postgres, CommittedUnique
  <2>5. /\ \A j \in RowIds : Sees(c, j)' = IF j = k THEN r ELSE Sees(c, j)
        /\ \A d \in Others(c) : \A j \in RowIds : Sees(d, j)' = Sees(d, j)
    BY <1>4, <2>0 DEF Sees
  <2>6. SeenUnique'
    BY <1>2, <2>5 DEF Postgres, SeenUnique, Others
  <2>7. WrittenUnique'
    BY <1>2, <1>4, <2>0 DEF Postgres, WrittenUnique, Others
  <2> QED
    BY <2>2, <2>3, <2>4, <2>6, <2>7 DEF Postgres
<1>5. CASE /\ ~conn[c].open /\ UNCHANGED conn /\ DOMAIN row' = RowIds /\ row'[k] = r
           /\ \A j \in RowIds \ {k} : row'[j] = row[j]
  <2>1. Tables'
    BY <1>0, <1>3, <1>5 DEF Postgres, Tables, ProperConn, Proper
  <2>2. LocksExclude' /\ WrittenUnique'
    BY <1>5 DEF Postgres, LocksExclude, WrittenUnique
  <2>3. DOMAIN conn[c].writes = {}
    BY <1>0, <1>5 DEF ProperConn
  <2>4. \A j \in RowIds : Sees(c, j) = row[j]
    BY <2>3 DEF Sees
  <2>5. \A d \in Conns : \A j \in RowIds : Sees(d, j)' = IF j = k THEN r ELSE Sees(d, j)
    BY <1>1, <1>5, <2>3 DEF Sees, Others
  <2>6. ASSUME r.tx \in Txs, NEW d \in Conns, NEW j \in RowIds \ {k}
        PROVE  Sees(d, j).tx # r.tx
    <3>1. CASE j \in DOMAIN conn[d].writes
      BY <1>2, <2>3, <2>6, <3>1 DEF Sees, Others
    <3>2. CASE j \notin DOMAIN conn[d].writes
      BY <1>2, <2>4, <2>6, <3>2 DEF Sees
    <3> QED
      BY <3>1, <3>2
  <2>7. SeenUnique'
    BY <2>5, <2>6 DEF Postgres, SeenUnique
  <2>8. CommittedUnique'
    BY <1>2, <1>5, <2>4 DEF Postgres, CommittedUnique
  <2> QED
    BY <2>1, <2>2, <2>7, <2>8 DEF Postgres
<1> QED
  BY <1>4, <1>5, WriteEffect DEF Postgres

\* A statement that writes no row: it opens a transaction, aborts it, or locks a row in it.
LEMMA ConnPreserves ==
    ASSUME Postgres, UNCHANGED <<memo, row>>, NEW c \in Conns, DOMAIN conn' = Conns,
           \A d \in Others(c) : conn'[d] = conn[d],
           conn'[c] \in [open : BOOLEAN, aborted : BOOLEAN, locks : SUBSET RowIds,
                         writes : {conn[c].writes}],
           conn[c].locks \subseteq conn'[c].locks,
           \A k \in conn'[c].locks \ conn[c].locks : ~Locked(c, k),
           conn'[c].open \/ conn'[c] = conn[c]
    PROVE  Postgres'
<1>0. /\ \A d \in Conns : ProperConn(d) /\ DOMAIN conn[d].writes \subseteq conn[d].locks
      /\ conn'[c].writes = conn[c].writes
  BY DEF Postgres, Tables, ProperConn
<1>1. \A d \in Conns : conn'[d].writes = conn[d].writes
  BY <1>0 DEF Others
<1>2. ASSUME NEW d \in Conns PROVE ProperConn(d)'
  <2>1. CASE conn'[d] = conn[d]
    BY <1>0, <2>1 DEF ProperConn, Proper
  <2>2. CASE d = c /\ conn'[c].open
    BY <1>0, <2>2 DEF ProperConn, Proper
  <2> QED
    BY <2>1, <2>2 DEF Others
<1>3. Tables'
  BY <1>2 DEF Postgres, Tables, Proper
<1>4. LocksExclude'
  BY DEF Postgres, LocksExclude, Locked, Others
<1>5. \A d \in Conns : \A k \in RowIds : Sees(d, k)' = Sees(d, k)
  BY <1>1 DEF Sees
<1>6. SeenUnique' /\ CommittedUnique' /\ WrittenUnique'
  BY <1>1, <1>5 DEF Postgres, SeenUnique, CommittedUnique, WrittenUnique
<1> QED
  BY <1>3, <1>4, <1>6 DEF Postgres

\* A connection that loses its transaction gives up its locks and its writes, and no other does.
LEMMA AbortPreserves ==
    ASSUME Postgres, UNCHANGED <<memo, row>>, NEW c \in Conns, Abort(c)
    PROVE  /\ Postgres'
           /\ \A d \in Conns : /\ conn'[d].open = conn[d].open /\ conn'[d].locks = conn[d].locks
                               /\ conn'[d].writes = conn[d].writes
                               /\ d # c => conn'[d] = conn[d]
<1>0. DOMAIN conn = Conns /\ ProperConn(c)
  BY DEF Postgres, Tables
<1>1. CASE conn[c].open
  <2>1. conn' = [conn EXCEPT ![c] = [conn[c] EXCEPT !.aborted = TRUE]]
    BY <1>0, <1>1 DEF Abort
  <2>2. [conn[c] EXCEPT !.aborted = TRUE]
          \in [open : {conn[c].open}, aborted : {TRUE}, locks : {conn[c].locks},
               writes : {conn[c].writes}]
    BY <1>0 DEF ProperConn
  <2>3. conn'[c] \in [open : {conn[c].open}, aborted : {TRUE}, locks : {conn[c].locks},
                      writes : {conn[c].writes}]
    BY <1>0, <2>1, <2>2
  <2>4. DOMAIN conn' = Conns /\ \A d \in Conns \ {c} : conn'[d] = conn[d]
    BY <1>0, <2>1
  <2>5. Postgres'
    BY <1>0, <1>1, <2>3, <2>4, ConnPreserves DEF ProperConn, Others
  <2> QED
    BY <2>3, <2>4, <2>5
<1>2. CASE ~conn[c].open
  <2>1. conn' = conn
    BY <1>2 DEF Abort
  <2> QED
    BY <1>0, <1>2, <2>1, ConnPreserves DEF ProperConn, Others
<1> QED
  BY <1>1, <1>2

\* The end of a transaction, or an END without one.
LEMMA EndsPreserves ==
    ASSUME Postgres, UNCHANGED memo, NEW c \in Conns, NEW commit \in BOOLEAN, Ends(c, commit)
    PROVE  Postgres'
<1>0. /\ DOMAIN conn = Conns /\ DOMAIN row = RowIds
      /\ \A d \in Conns : ProperConn(d) /\ DOMAIN conn[d].writes \subseteq RowIds
      /\ \A k \in RowIds : Proper(k, row[k])
  BY DEF Postgres, Tables, ProperConn
<1>1. /\ DOMAIN conn' = Conns /\ conn'[c] = Free
      /\ \A d \in Conns \ {c} : conn'[d] = conn[d]
  BY <1>0 DEF Ends
<1>2. /\ Free \in [open : BOOLEAN, aborted : BOOLEAN, locks : SUBSET RowIds, writes : {Free.writes}]
      /\ Free.locks = {} /\ DOMAIN Free.writes = {} /\ ~Free.open /\ ~Free.aborted
  BY DEF Free
<1>3. ASSUME NEW d \in Conns PROVE ProperConn(d)'
  <2>1. CASE d = c
    BY <1>1, <1>2, <2>1 DEF ProperConn
  <2>2. CASE d # c
    BY <1>0, <1>1, <2>2 DEF ProperConn, Proper
  <2> QED
    BY <2>1, <2>2
<1>4. LocksExclude'
  BY <1>1, <1>2 DEF Postgres, LocksExclude
<1>5. WrittenUnique'
  BY <1>1, <1>2 DEF Postgres, WrittenUnique
<1>6. /\ \A k \in RowIds : Sees(c, k)' = row'[k]
      /\ \A d \in Conns \ {c} : \A k \in RowIds :
            Sees(d, k)' = IF k \in DOMAIN conn[d].writes THEN conn[d].writes[k] ELSE row'[k]
  BY <1>1, <1>2 DEF Sees
<1>7. CASE row' = row
  <2>1. Tables'
    BY <1>0, <1>1, <1>3, <1>7 DEF Postgres, Tables, Proper
  <2>2. CommittedUnique'
    BY <1>7 DEF Postgres, CommittedUnique
  <2>3. \A d \in Conns \ {c} : \A k \in RowIds : Sees(d, k)' = Sees(d, k)
    BY <1>6, <1>7 DEF Sees
  <2>4. SeenUnique'
    BY <1>6, <1>7, <2>2, <2>3 DEF Postgres, SeenUnique, CommittedUnique
  <2> QED
    BY <1>4, <1>5, <2>1, <2>2, <2>4 DEF Postgres
<1>8. CASE row' = [k \in RowIds |-> Sees(c, k)]
  <2>1. \A k \in RowIds : Proper(k, row'[k])
    BY <1>0, <1>8 DEF Sees, ProperConn
  <2>2. Tables'
    BY <1>0, <1>1, <1>3, <1>8, <2>1 DEF Postgres, Tables, Proper
  <2>3. CommittedUnique'
    BY <1>8 DEF Postgres, SeenUnique, CommittedUnique
  <2>4. ASSUME NEW d \in Conns \ {c}, NEW j \in RowIds, NEW k \in RowIds,
               Sees(d, j)'.tx \in Txs, Sees(d, j)'.tx = Sees(d, k)'.tx
        PROVE  j = k
    <3>1. CASE j \in DOMAIN conn[d].writes /\ k \in DOMAIN conn[d].writes
      BY <1>6, <2>4, <3>1 DEF Postgres, SeenUnique, Sees
    <3>2. CASE j \notin DOMAIN conn[d].writes /\ k \notin DOMAIN conn[d].writes
      BY <1>6, <2>3, <2>4, <3>2 DEF CommittedUnique
    <3>3. ASSUME NEW x \in RowIds, NEW y \in RowIds,
                 x \in DOMAIN conn[d].writes, y \notin DOMAIN conn[d].writes,
                 Sees(d, x)'.tx \in Txs, Sees(d, x)'.tx = Sees(d, y)'.tx
          PROVE  FALSE
      <4>1. conn[d].writes[x].tx \in Txs /\ conn[d].writes[x].tx = Sees(c, y).tx
        BY <1>6, <1>8, <3>3
      <4>2. CASE y \in DOMAIN conn[c].writes
        BY <3>3, <4>1, <4>2 DEF Postgres, WrittenUnique, Sees
      <4>3. CASE y \notin DOMAIN conn[c].writes
        <5>1. Sees(d, x) = conn[d].writes[x] /\ Sees(d, y) = row[y] /\ Sees(c, y) = row[y]
          BY <3>3, <4>3 DEF Sees
        <5> QED
          BY <3>3, <4>1, <5>1 DEF Postgres, SeenUnique
      <4> QED
        BY <4>2, <4>3
    <3> QED
      BY <2>4, <3>1, <3>2, <3>3
  <2>5. SeenUnique'
    BY <1>6, <2>3, <2>4 DEF SeenUnique, CommittedUnique
  <2> QED
    BY <1>4, <1>5, <2>2, <2>3, <2>5 DEF Postgres
<1> QED
  BY <1>7, <1>8 DEF Ends

\* Every transaction is rolled back when the connections break.
LEMMA StopPreserves ==
    ASSUME Postgres, UNCHANGED <<memo, row>>, conn' = [c \in Conns |-> Free]
    PROVE  Postgres'
<1>1. /\ Free \in [open : BOOLEAN, aborted : BOOLEAN, locks : SUBSET RowIds, writes : {Free.writes}]
      /\ Free.locks = {} /\ DOMAIN Free.writes = {} /\ ~Free.open /\ ~Free.aborted
  BY DEF Free
<1>2. \A c \in Conns : ProperConn(c)' /\ conn'[c] = Free
  BY <1>1 DEF ProperConn
<1>3. Tables'
  BY <1>2 DEF Postgres, Tables, Proper
<1>4. \A c \in Conns, k \in RowIds : Sees(c, k)' = row[k]
  BY <1>1, <1>2 DEF Sees
<1>5. SeenUnique' /\ CommittedUnique'
  BY <1>4 DEF Postgres, SeenUnique, CommittedUnique
<1>6. LocksExclude' /\ WrittenUnique'
  BY <1>1, <1>2 DEF LocksExclude, WrittenUnique
<1> QED
  BY <1>3, <1>5, <1>6 DEF Postgres

\* A transfer is final once and for all.
LEMMA TransferPreserves ==
    ASSUME Postgres, UNCHANGED <<conn, row>>, NEW t \in Txs, NEW m \in Refs \cup {NoMemo},
           Transfer(t, m)
    PROVE  /\ Postgres'
           /\ \A u \in Txs : memo[u] \in Refs => memo'[u] = memo[u]
<1>0. Tables
  BY DEF Postgres
<1>1. /\ DOMAIN memo' = Txs /\ \A u \in Txs : memo'[u] = IF u = t THEN m ELSE memo[u]
      /\ memo[t] = NotSent
  BY <1>0 DEF Transfer, Tables
<1>2. \A u \in Txs : memo[u] \in Refs => memo'[u] = memo[u]
  BY <1>1, DepositsAssumption
<1>3. ASSUME NEW k, NEW r, Proper(k, r) PROVE Proper(k, r)'
  BY <1>2, <1>3 DEF Proper
<1>4. \A c \in Conns : ProperConn(c)'
  BY <1>0, <1>3 DEF Tables, ProperConn
<1>5. Tables'
  BY <1>0, <1>1, <1>3, <1>4 DEF Tables
<1>6. LocksExclude' /\ SeenUnique' /\ CommittedUnique' /\ WrittenUnique'
  BY DEF Postgres, LocksExclude, SeenUnique, CommittedUnique, WrittenUnique, Sees
<1> QED
  BY <1>2, <1>5, <1>6 DEF Postgres

-----------------------------------------------------------------------------
(* The requests *)

AtRest == {Fresh, Replied} \cup Scanning \cup Beginning \cup Inserting

\* Only a request that has begun knows a connection.
LEMMA Kinds ==
    /\ \A x \in AtRest : x \notin Transacting /\ "on" \notin DOMAIN x
    /\ \A x \in Transacting : "on" \in DOMAIN x
    /\ \A x \in Beginning : x \notin {Fresh, Replied} \cup Scanning \cup Inserting
    /\ Replied \notin Beginning /\ Fresh \notin Beginning
  BY DEF AtRest, Fresh, Replied, Scanning, Beginning, Transacting, Inserting

\* A request goes on in its transaction.
LEMMA GoesOn ==
    ASSUME NEW q, teller[q] \in Transacting,
           NEW at \in {"recheck", "deposit", "update", "commit", "rollback"}
    PROVE  /\ With(q, at) \in Transacting /\ With(q, at).at = at
           /\ With(q, at).ref = teller[q].ref /\ With(q, at).tx = teller[q].tx
           /\ With(q, at).on = teller[q].on
<1>1. With(q, at) \in [at : {at}, ref : {teller[q].ref}, tx : {teller[q].tx}, on : {teller[q].on}]
  BY DEF Transacting, With
<1>2. teller[q].ref \in Refs /\ teller[q].tx \in Txs /\ teller[q].on \in Conns
  BY DEF Transacting
<1> QED
  BY <1>1, <1>2 DEF Transacting

\* What a request knows stays, and one that begins or is in a transaction has its transfer.
LEMMA TellerMoves ==
    ASSUME Requests, NEW q \in Tellers, NEW next, StepTo(q, next), UNCHANGED memo,
           next \in AtRest \cup Transacting,
           next \in Beginning \cup Transacting => memo[next.tx] = next.ref
    PROVE  /\ Requests' /\ teller'[q] = next
           /\ \A p \in Tellers \ {q} : teller'[p] = teller[p]
<1>1. /\ DOMAIN teller' = Tellers /\ teller'[q] = next
      /\ \A p \in Tellers \ {q} : teller'[p] = teller[p]
  BY DEF Requests, StepTo
<1>2. ASSUME NEW p \in Tellers PROVE ProperTeller(p)'
  <2>1. CASE p = q
    BY <1>1, <2>1 DEF ProperTeller, AtRest
  <2>2. CASE p # q
    BY <1>1, <2>2 DEF Requests, ProperTeller
  <2> QED
    BY <2>1, <2>2
<1> QED
  BY <1>1, <1>2 DEF Requests

\* A request that leaves the tables alone and has no transaction.
LEMMA QuietPreserves ==
    ASSUME IInv, NEW q \in Tellers, NEW next, StepTo(q, next), UNCHANGED <<row, conn, memo, acked>>,
           mixed => mixed', next \in AtRest,
           next \in Beginning => memo[next.tx] = next.ref
    PROVE  IInv'
<1>1. /\ Requests' /\ teller'[q] = next
      /\ \A p \in Tellers \ {q} : teller'[p] = teller[p]
  BY Kinds, TellerMoves DEF IInv
<1>2. Postgres'
  BY DEF IInv, Postgres, Tables, LocksExclude, CommittedUnique, SeenUnique, WrittenUnique,
         ProperConn, Proper, Sees
<1>3. next \notin Transacting
  BY Kinds
<1>4. ~mixed' => OneEach'
  BY <1>1, <1>3 DEF IInv, OneEach
<1>5. ~mixed' => \A p \in Tellers : OwnTransaction(p)'
  BY <1>1, <1>3 DEF IInv, OwnTransaction
<1>6. ~mixed' => Acknowledged'
  BY DEF IInv, Acknowledged
<1> QED
  BY <1>1, <1>2, <1>4, <1>5, <1>6 DEF IInv

\* The reads of a crediting: the intent, an earlier credit, the node.
LEMMA LookingPreserves ==
    ASSUME IInv, NEW q \in Tellers,
           \/ \E c \in Conns : \/ \E k \in Refs : LoadIntent(q, k, c)
                               \/ \E t \in Txs : FindCredited(q, t, c)
           \/ FindTransferByRefId(q) \/ AskNode(q)
    PROVE  IInv'
<1>0. ProperTeller(q) /\ Replied \in AtRest /\ Replied \notin Beginning
  BY Kinds DEF IInv, Requests, AtRest
<1>1. ASSUME NEW c \in Conns, NEW k \in Refs, LoadIntent(q, k, c) PROVE IInv'
  <2>1. [at |-> "scan", ref |-> k] \in Scanning
    BY DEF Scanning
  <2>2. [at |-> "scan", ref |-> k] \notin Beginning
    BY DEF Beginning
  <2>3. mixed => mixed'
    BY <1>1 DEF LoadIntent, Runs
  <2> QED
    BY <1>0, <1>1, <2>1, <2>2, <2>3, QuietPreserves DEF LoadIntent, AtRest
<1>2. ASSUME NEW c \in Conns, NEW t \in Txs, FindCredited(q, t, c) PROVE IInv'
  <2>1. [at |-> "askNode", tx |-> t] \in Inserting
    BY DEF Inserting
  <2>2. [at |-> "askNode", tx |-> t] \notin Beginning
    BY DEF Beginning
  <2>3. mixed => mixed'
    BY <1>2 DEF FindCredited, Runs
  <2> QED
    BY <1>0, <1>2, <2>1, <2>2, <2>3, QuietPreserves DEF FindCredited, AtRest
<1>3. CASE FindTransferByRefId(q)
  <2>1. teller[q] \in Scanning
    BY <1>0, <1>3
    DEF FindTransferByRefId, ProperTeller, Fresh, Replied, Scanning, Beginning, Transacting,
        Inserting
  <2>2. PICK k \in Refs : k = teller[q].ref
    BY <2>1 DEF Scanning
  <2>3. PICK t \in Txs : memo[t] = k /\ StepTo(q, [at |-> "begin", ref |-> k, tx |-> t])
    BY <1>3, <2>2 DEF FindTransferByRefId
  <2>4. [at |-> "begin", ref |-> k, tx |-> t] \in Beginning
    BY DEF Beginning
  <2> QED
    BY <1>3, <2>3, <2>4, QuietPreserves DEF FindTransferByRefId, AtRest
<1>4. CASE AskNode(q)
  <2>1. teller[q] \in Inserting
    BY <1>0, <1>4
    DEF AskNode, ProperTeller, Fresh, Replied, Scanning, Beginning, Transacting, Inserting
  <2>2. With(q, "insert") \in Inserting
    BY <2>1 DEF Inserting, With
  <2>3. With(q, "insert") \notin Beginning
    BY <2>2, Kinds
  <2> QED
    BY <1>0, <1>4, <2>2, <2>3, QuietPreserves DEF AskNode, AtRest
<1> QED
  BY <1>1, <1>2, <1>3, <1>4

\* A transaction that its request opens is its own, unless one was open.
LEMMA BeginPreserves ==
    ASSUME IInv, NEW q \in Tellers, NEW c \in Conns, Begin(q, c)
    PROVE  IInv'
<1>0. ProperTeller(q) /\ DOMAIN conn = Conns /\ ProperConn(c) /\ UNCHANGED <<row, memo, acked>>
  BY DEF IInv, Requests, Postgres, Tables, Begin
<1>1. teller[q] \in Beginning /\ memo[teller[q].tx] = teller[q].ref
  BY <1>0
  DEF Begin, ProperTeller, Fresh, Replied, Scanning, Beginning, Transacting, Inserting
<1>2. PICK k \in Refs, t \in Txs : k = teller[q].ref /\ t = teller[q].tx
  BY <1>1 DEF Beginning
<1> DEFINE next == [at |-> "recheck", ref |-> k, tx |-> t, on |-> c]
<1>3. StepTo(q, next) /\ next \in Transacting /\ memo[next.tx] = next.ref
      /\ next.at = "recheck" /\ next.on = c
  BY <1>1, <1>2 DEF Begin, Transacting
<1> HIDE DEF next
<1>4. /\ Requests' /\ teller'[q] = next
      /\ \A p \in Tellers \ {q} : teller'[p] = teller[p]
  BY <1>0, <1>3, TellerMoves DEF IInv
<1>5. /\ conn'[c] \in [open : {TRUE}, aborted : {conn[c].aborted}, locks : {conn[c].locks},
                       writes : {conn[c].writes}]
      /\ DOMAIN conn' = Conns /\ \A d \in Conns \ {c} : conn'[d] = conn[d]
  <2>1. conn' = [conn EXCEPT ![c] = [conn[c] EXCEPT !.open = TRUE]]
    BY <1>0 DEF Begin
  <2>2. [conn[c] EXCEPT !.open = TRUE]
          \in [open : {TRUE}, aborted : {conn[c].aborted}, locks : {conn[c].locks},
               writes : {conn[c].writes}]
    BY <1>0 DEF ProperConn
  <2> QED
    BY <1>0, <2>1, <2>2
<1>6. Postgres'
  BY <1>0, <1>5, ConnPreserves DEF IInv, ProperConn, Others
<1>7. SUFFICES ASSUME ~mixed'
               PROVE  OneEach' /\ Acknowledged' /\ \A p \in Tellers : OwnTransaction(p)'
  BY <1>0, <1>4, <1>6 DEF IInv
<1>8. ~mixed /\ ~conn[c].open
  BY <1>7 DEF Begin
<1>9. \A p \in Tellers : teller[p] \in Transacting => teller[p].on # c
  BY <1>8 DEF IInv, OwnTransaction
<1>10. OneEach'
  BY <1>3, <1>4, <1>8, <1>9 DEF IInv, OneEach
<1>11. Acknowledged'
  BY <1>0, <1>8 DEF IInv, Acknowledged
<1>12. OwnTransaction(q)'
  BY <1>0, <1>3, <1>4, <1>5, <1>8 DEF OwnTransaction, ProperConn
<1>13. ASSUME NEW p \in Tellers \ {q} PROVE OwnTransaction(p)'
  <2>1. teller'[p] \in Transacting => conn'[teller'[p].on] = conn[teller[p].on]
    BY <1>4, <1>5, <1>9 DEF Transacting
  <2> QED
    BY <1>0, <1>4, <1>8, <2>1 DEF IInv, OwnTransaction
<1> QED
  BY <1>10, <1>11, <1>12, <1>13

\* A request in its transaction: what it reads of itself, and what ~mixed' says of the
\* connection that its statement ran on.
LEMMA InTransaction ==
    ASSUME IInv, NEW q \in Tellers,
           teller[q].at \in {"recheck", "deposit", "update", "commit", "rollback"}
    PROVE  /\ teller[q] \in Transacting /\ memo[teller[q].tx] = teller[q].ref
           /\ teller[q].ref \in Refs /\ teller[q].tx \in Txs /\ teller[q].on \in Conns
           /\ \A c \in Conns : Runs(q, c) /\ ~mixed' => ~mixed /\ c = teller[q].on
<1>1. ProperTeller(q)
  BY DEF IInv, Requests
<1>2. teller[q] \in Transacting /\ memo[teller[q].tx] = teller[q].ref
  BY <1>1 DEF ProperTeller, Fresh, Replied, Scanning, Beginning, Transacting, Inserting
<1>3. "on" \in DOMAIN teller[q]
  BY <1>2, Kinds
<1>4. \A c \in Conns : Runs(q, c) /\ ~mixed' => ~mixed /\ c = teller[q].on
  BY <1>3 DEF Runs
<1> QED
  BY <1>2, <1>4 DEF Transacting

\* What a step of one transaction leaves alone of another.
LEMMA OtherTransactions ==
    ASSUME IInv, ~mixed, NEW q \in Tellers, teller[q] \in Transacting,
           \A p \in Tellers \ {q} : teller'[p] = teller[p],
           \A d \in Conns \ {teller[q].on} : conn'[d] = conn[d],
           \A k \in Refs : row[k].status # "credited" /\ row'[k].status = "credited"
                              => k \in conn[teller[q].on].locks,
           teller'[q] \in Transacting => teller'[q].on = teller[q].on
    PROVE  OneEach' /\ \A p \in Tellers \ {q} : OwnTransaction(p)'
<1>1. OneEach'
  BY DEF IInv, OneEach
<1>2. ASSUME NEW p \in Tellers \ {q}, teller[p] \in Transacting
      PROVE  OwnTransaction(p)'
  <2>1. teller[p].on # teller[q].on /\ teller[p].on \in Conns /\ teller[p].ref \in Refs
    BY <1>2 DEF IInv, OneEach, Transacting
  <2>2. teller'[p] = teller[p] /\ conn'[teller[p].on] = conn[teller[p].on]
    BY <2>1
  <2>3. teller[p].ref \in conn[teller[p].on].locks =>
           (row[teller[p].ref].status # "credited" => row'[teller[p].ref].status # "credited")
    BY <2>1, DepositsAssumption DEF IInv, Postgres, LocksExclude, Transacting
  <2> QED
    BY <1>2, <2>2, <2>3 DEF IInv, OwnTransaction
<1>3. ASSUME NEW p \in Tellers \ {q}, teller[p] \notin Transacting
      PROVE  OwnTransaction(p)'
  BY <1>3 DEF OwnTransaction
<1> QED
  BY <1>1, <1>2, <1>3

\* The second look for a credit, within the transaction.
LEMMA RecheckPreserves ==
    ASSUME IInv, NEW q \in Tellers, NEW c \in Conns, Recheck(q, c)
    PROVE  IInv'
<1>0. /\ UNCHANGED <<row, memo, acked>> /\ DOMAIN conn = Conns /\ ProperConn(c)
      /\ teller[q].at = "recheck"
  BY DEF IInv, Postgres, Tables, Recheck
<1>1. PICK k \in Refs : k = teller[q].ref
  BY <1>0, InTransaction
<1>2. /\ teller[q] \in Transacting /\ memo[teller[q].tx] = k
      /\ Runs(q, c) /\ ~mixed' => ~mixed /\ c = teller[q].on
  BY <1>0, <1>1, InTransaction
<1>3. PICK at \in {"rollback", "deposit"} :
         /\ StepTo(q, With(q, at))
         /\ at = "deposit" => ~conn[c].aborted /\ Sees(c, k).status # "credited"
  BY <1>1 DEF Recheck
<1>4. /\ Requests' /\ teller'[q] = With(q, at)
      /\ \A p \in Tellers \ {q} : teller'[p] = teller[p]
      /\ teller'[q] \in Transacting /\ teller'[q].at = at /\ teller'[q].ref = k
      /\ teller'[q].on = teller[q].on
  BY <1>0, <1>1, <1>2, <1>3, GoesOn, TellerMoves DEF IInv
<1>5. /\ DOMAIN conn' = Conns /\ \A d \in Conns \ {c} : conn'[d] = conn[d]
      /\ \/ conn'[c] = conn[c] /\ (conn[c].aborted \/ ~conn[c].open)
         \/ conn'[c] \in [open : {TRUE}, aborted : {conn[c].aborted},
                          locks : {conn[c].locks \cup {k}}, writes : {conn[c].writes}]
            /\ conn[c].open
  <2>1. CASE UNCHANGED conn /\ (conn[c].aborted \/ ~conn[c].open)
    BY <1>0, <2>1
  <2>2. CASE conn' = [conn EXCEPT ![c].locks = @ \cup {k}] /\ conn[c].open
    <3>1. conn' = [conn EXCEPT ![c] = [conn[c] EXCEPT !.locks = conn[c].locks \cup {k}]]
      BY <1>0, <2>2
    <3>2. [conn[c] EXCEPT !.locks = conn[c].locks \cup {k}]
            \in [open : {TRUE}, aborted : {conn[c].aborted},
                 locks : {conn[c].locks \cup {k}}, writes : {conn[c].writes}]
      BY <1>0, <2>2 DEF ProperConn
    <3> QED
      BY <1>0, <2>2, <3>1, <3>2
  <2> QED
    BY <1>1, <2>1, <2>2 DEF Recheck
<1>6. Postgres'
  <2>1. ~Locked(c, k) /\ k \in RowIds
    BY <1>1 DEF Recheck, RowIds
  <2>2. CASE conn'[c] = conn[c]
    BY <1>0, <1>5, <2>2, ConnPreserves DEF IInv, ProperConn, Others
  <2>3. CASE conn'[c] \in [open : {TRUE}, aborted : {conn[c].aborted},
                           locks : {conn[c].locks \cup {k}}, writes : {conn[c].writes}]
    <3>1. /\ conn'[c] \in [open : BOOLEAN, aborted : BOOLEAN, locks : SUBSET RowIds,
                           writes : {conn[c].writes}]
          /\ conn'[c].locks = conn[c].locks \cup {k} /\ conn'[c].open
      BY <1>0, <2>1, <2>3 DEF ProperConn
    <3> QED
      BY <1>0, <1>5, <2>1, <3>1, ConnPreserves DEF IInv, Others
  <2> QED
    BY <1>5, <2>2, <2>3
<1>7. SUFFICES ASSUME ~mixed'
               PROVE  OneEach' /\ Acknowledged' /\ \A p \in Tellers : OwnTransaction(p)'
  BY <1>0, <1>4, <1>6 DEF IInv
<1>8. ~mixed /\ c = teller[q].on
  BY <1>2, <1>7 DEF Recheck
<1>9. conn[c].open /\ ~conn[c].aborted /\ DOMAIN conn[c].writes = {}
  BY <1>0, <1>2, <1>8 DEF IInv, OwnTransaction
<1>10. /\ conn'[c].open /\ ~conn'[c].aborted /\ DOMAIN conn'[c].writes = {}
       /\ k \in conn'[c].locks
  BY <1>5, <1>9
<1>11. at = "deposit" => row[k].status # "credited"
  BY <1>3, <1>9 DEF Sees
<1>12. OwnTransaction(q)'
  BY <1>0, <1>4, <1>8, <1>10, <1>11 DEF OwnTransaction
<1>13. OneEach' /\ \A p \in Tellers \ {q} : OwnTransaction(p)'
  BY <1>0, <1>2, <1>4, <1>5, <1>8, OtherTransactions
<1>14. Acknowledged'
  BY <1>0, <1>8 DEF IInv, Acknowledged
<1> QED
  BY <1>12, <1>13, <1>14

\* The operator's transfer, made while the transaction is open: no row changes.
LEMMA GatewayPreserves ==
    ASSUME IInv, NEW q \in Tellers, GatewayDeposit(q)
    PROVE  IInv'
<1>0. UNCHANGED <<row, conn, memo, acked>> /\ teller[q].at = "deposit" /\ (mixed' <=> mixed)
  BY DEF GatewayDeposit
<1>1. teller[q] \in Transacting /\ memo[teller[q].tx] = teller[q].ref
  BY <1>0, InTransaction
<1>2. PICK at \in {"update", "rollback"} : StepTo(q, With(q, at))
  BY DEF GatewayDeposit
<1>3. /\ Requests' /\ teller'[q] = With(q, at)
      /\ \A p \in Tellers \ {q} : teller'[p] = teller[p]
      /\ teller'[q] \in Transacting /\ teller'[q].at = at /\ teller'[q].ref = teller[q].ref
      /\ teller'[q].on = teller[q].on
  BY <1>0, <1>1, <1>2, GoesOn, TellerMoves DEF IInv
<1>4. Postgres'
  BY <1>0 DEF IInv, Postgres, Tables, LocksExclude, CommittedUnique, SeenUnique, WrittenUnique,
              ProperConn, Proper, Sees
<1>5. SUFFICES ASSUME ~mixed'
               PROVE  OneEach' /\ Acknowledged' /\ \A p \in Tellers : OwnTransaction(p)'
  BY <1>0, <1>3, <1>4 DEF IInv
<1>6. OwnTransaction(q)'
  BY <1>0, <1>1, <1>3, <1>5 DEF IInv, OwnTransaction
<1>7. OneEach' /\ \A p \in Tellers \ {q} : OwnTransaction(p)'
  BY <1>0, <1>1, <1>3, <1>5, OtherTransactions
<1>8. Acknowledged'
  BY <1>0, <1>5 DEF IInv, Acknowledged
<1> QED
  BY <1>6, <1>7, <1>8

\* The intent is credited, in place.
LEMMA UpdatePreserves ==
    ASSUME IInv, NEW q \in Tellers, NEW c \in Conns, UpdateCredited(q, c)
    PROVE  IInv'
<1>0. UNCHANGED <<memo, acked>> /\ teller[q].at = "update" /\ Tables
  BY DEF IInv, Postgres, UpdateCredited
<1>1. PICK k \in Refs, t \in Txs : k = teller[q].ref /\ t = teller[q].tx
  BY <1>0, InTransaction
<1>2. /\ teller[q] \in Transacting /\ memo[t] = k
      /\ ~mixed' => ~mixed /\ c = teller[q].on
  BY <1>0, <1>1, InTransaction DEF UpdateCredited
<1>3. PICK at \in {"rollback", "commit"} :
         /\ StepTo(q, With(q, at))
         /\ IF at = "rollback" THEN Abort(c) /\ UNCHANGED row
            ELSE Write(c, k, Credit(t)) /\ Unique(c, k, t) /\ ~conn[c].aborted
  BY <1>1 DEF UpdateCredited
<1>4. /\ Requests' /\ teller'[q] = With(q, at)
      /\ \A p \in Tellers \ {q} : teller'[p] = teller[p]
      /\ teller'[q] \in Transacting /\ teller'[q].at = at /\ teller'[q].ref = k
      /\ teller'[q].tx = t /\ teller'[q].on = teller[q].on
  BY <1>0, <1>1, <1>2, <1>3, GoesOn, TellerMoves DEF IInv
<1>5. Credit(t).tx = t /\ Credit(t).status = "credited" /\ Proper(k, Credit(t)) /\ k \in RowIds
  BY <1>2 DEF Credit, Proper, DepositRow, RowIds
<1>6. CASE at = "rollback"
  <2>1. /\ Postgres' /\ row' = row
        /\ \A d \in Conns : /\ conn'[d].open = conn[d].open /\ conn'[d].locks = conn[d].locks
                            /\ d # c => conn'[d] = conn[d]
    BY <1>0, <1>3, <1>6, AbortPreserves DEF IInv
  <2>2. SUFFICES ASSUME ~mixed'
                 PROVE  OneEach' /\ Acknowledged' /\ \A p \in Tellers : OwnTransaction(p)'
    BY <1>0, <1>4, <2>1 DEF IInv
  <2>3. ~mixed /\ c = teller[q].on
    BY <1>2, <2>2
  <2>4. OwnTransaction(q)'
    BY <1>2, <1>4, <1>6, <2>1, <2>3 DEF IInv, OwnTransaction
  <2>5. OneEach' /\ \A p \in Tellers \ {q} : OwnTransaction(p)'
    BY <1>2, <1>4, <2>1, <2>3, OtherTransactions
  <2>6. Acknowledged'
    BY <1>0, <2>1, <2>3 DEF IInv, Acknowledged
  <2> QED
    BY <2>4, <2>5, <2>6
<1>7. CASE at = "commit"
  <2>1. ~Locked(c, k) /\ ~Contested(c, t) /\ ~Taken(c, k, t)
    BY <1>1, <1>3, <1>7 DEF UpdateCredited, Unique
  <2>2. Write(c, k, Credit(t))
    BY <1>3, <1>7
  <2>3. Postgres'
    BY <1>0, <1>5, <2>1, <2>2, WritePreserves DEF IInv
  <2>4. SUFFICES ASSUME ~mixed'
                 PROVE  OneEach' /\ Acknowledged' /\ \A p \in Tellers : OwnTransaction(p)'
    BY <1>0, <1>4, <2>3 DEF IInv
  <2>5. ~mixed /\ c = teller[q].on
    BY <1>2, <2>4
  <2>6. /\ conn[c].open /\ ~conn[c].aborted /\ DOMAIN conn[c].writes = {}
        /\ row[k].status # "credited" /\ k \in conn[c].locks
    BY <1>0, <1>1, <1>2, <2>5 DEF IInv, OwnTransaction
  <2>7. /\ UNCHANGED row /\ \A d \in Others(c) : conn'[d] = conn[d]
        /\ \E w : /\ conn'[c] \in [open : {conn[c].open}, aborted : {conn[c].aborted},
                                   locks : {conn[c].locks \cup {k}}, writes : {w}]
                  /\ DOMAIN w = DOMAIN conn[c].writes \cup {k} /\ w[k] = Credit(t)
    BY <1>0, <1>5, <2>2, <2>6, WriteEffect
  <2>8. /\ conn'[c].open /\ ~conn'[c].aborted /\ DOMAIN conn'[c].writes = {k}
        /\ conn'[c].writes[k] = Credit(t) /\ k \in conn'[c].locks
    BY <2>6, <2>7
  <2>9. OwnTransaction(q)'
    BY <1>4, <1>7, <2>5, <2>6, <2>7, <2>8 DEF OwnTransaction
  <2>10. OneEach' /\ \A p \in Tellers \ {q} : OwnTransaction(p)'
    BY <1>2, <1>4, <2>5, <2>7, OtherTransactions DEF Others
  <2>11. Acknowledged'
    BY <1>0, <2>5, <2>7 DEF IInv, Acknowledged
  <2> QED
    BY <2>9, <2>10, <2>11
<1> QED
  BY <1>6, <1>7

\* A transaction ends: its writes become the rows, or are dropped.
LEMMA EndPreserves ==
    ASSUME IInv, NEW q \in Tellers, NEW c \in Conns, Commit(q, c) \/ Rollback(q, c)
    PROVE  IInv'
<1>0. /\ UNCHANGED memo /\ Tables /\ StepTo(q, Replied) /\ Runs(q, c)
      /\ teller[q].at \in {"commit", "rollback"}
  BY DEF IInv, Postgres, Commit, Rollback
<1>1. PICK k \in Refs, t \in Txs : k = teller[q].ref /\ t = teller[q].tx
  BY <1>0, InTransaction
<1>2. teller[q] \in Transacting /\ (~mixed' => ~mixed /\ c = teller[q].on)
  BY <1>0, InTransaction
<1>3. /\ Requests' /\ teller'[q] = Replied
      /\ \A p \in Tellers \ {q} : teller'[p] = teller[p]
      /\ Replied \notin Transacting
  BY <1>0, Kinds, TellerMoves DEF IInv, AtRest
<1>4. PICK commit \in BOOLEAN : Ends(c, commit) /\ (commit <=> Commit(q, c))
  <2>1. CASE Commit(q, c)
    BY <2>1 DEF Commit
  <2>2. CASE ~Commit(q, c)
    BY <2>2 DEF Rollback
  <2> QED
    BY <2>1, <2>2
<1>5. Postgres' /\ DOMAIN conn' = Conns /\ \A d \in Conns \ {c} : conn'[d] = conn[d]
  BY <1>0, <1>4, EndsPreserves DEF IInv, Ends, Tables
<1>6. acked' \subseteq Txs
  BY <1>1 DEF IInv, Commit, Rollback
<1>7. SUFFICES ASSUME ~mixed'
               PROVE  OneEach' /\ Acknowledged' /\ \A p \in Tellers : OwnTransaction(p)'
  BY <1>3, <1>5, <1>6 DEF IInv
<1>8. ~mixed /\ c = teller[q].on
  BY <1>2, <1>7
<1>9. OwnTransaction(q)'
  BY <1>3 DEF OwnTransaction
<1>10. CASE Rollback(q, c)
  <2>1. row' = row /\ acked' = acked
    BY <1>10 DEF Rollback, Ends
  <2>2. OneEach' /\ \A p \in Tellers \ {q} : OwnTransaction(p)'
    BY <1>2, <1>3, <1>5, <1>8, <2>1, OtherTransactions
  <2>3. Acknowledged'
    BY <1>8, <2>1 DEF IInv, Acknowledged
  <2> QED
    BY <1>9, <2>2, <2>3
<1>11. CASE Commit(q, c)
  <2>1. /\ conn[c].open /\ ~conn[c].aborted /\ DOMAIN conn[c].writes = {k}
        /\ conn[c].writes[k] = Credit(t) /\ row[k].status # "credited" /\ k \in conn[c].locks
    BY <1>1, <1>2, <1>8, <1>11 DEF IInv, OwnTransaction, Commit
  <2>2. /\ \A j \in RowIds : row'[j] = IF j = k THEN Credit(t) ELSE row[j]
        /\ acked' = acked \cup {t} /\ k \in RowIds
    BY <1>1, <1>11, <2>1 DEF Commit, Ends, Sees, RowIds
  <2>3. OneEach' /\ \A p \in Tellers \ {q} : OwnTransaction(p)'
    <3>1. \A j \in Refs : row[j].status # "credited" /\ row'[j].status = "credited" => j = k
      BY <2>2 DEF RowIds
    <3> QED
      BY <1>2, <1>3, <1>5, <1>8, <2>1, <3>1, OtherTransactions
  <2>4. Acknowledged'
    <3>1. \A u \in acked : \E j \in RowIds : row[j] = Credit(u)
      BY <1>8 DEF IInv, Acknowledged
    <3>2. \A u \in acked : \E j \in RowIds : row'[j] = Credit(u)
      BY <2>1, <2>2, <3>1 DEF Credit
    <3> QED
      BY <2>2, <3>2 DEF Acknowledged
  <2> QED
    BY <1>9, <2>3, <2>4
<1> QED
  BY <1>10, <1>11

\* A step outside every transaction leaves those of the requests as they are.
LEMMA NoTransaction ==
    ASSUME IInv, ~mixed, UNCHANGED conn,
           \A p \in Tellers : teller'[p] = teller[p] \/ teller'[p] \notin Transacting,
           \A k \in Refs : row[k].status # "credited" => row'[k].status # "credited"
    PROVE  OneEach' /\ \A p \in Tellers : OwnTransaction(p)'
<1>1. OneEach'
  BY DEF IInv, OneEach
<1>2. ASSUME NEW p \in Tellers PROVE OwnTransaction(p)'
  <2>1. CASE teller'[p] = teller[p] /\ teller[p] \in Transacting
    <3>1. teller[p].ref \in Refs
      BY <2>1 DEF Transacting
    <3> QED
      BY <2>1, <3>1 DEF IInv, OwnTransaction
  <2>2. CASE teller'[p] \notin Transacting
    BY <2>2 DEF OwnTransaction
  <2> QED
    BY <2>1, <2>2
<1> QED
  BY <1>1, <1>2

\* A credited row of its own, for a transfer without an intent.
LEMMA InsertPreserves ==
    ASSUME IInv, NEW q \in Tellers, NEW c \in Conns, InsertCredited(q, c)
    PROVE  IInv'
<1>0. /\ UNCHANGED memo /\ Tables /\ StepTo(q, Replied) /\ Runs(q, c) /\ teller[q].at = "insert"
      /\ ProperTeller(q)
  BY DEF IInv, Requests, Postgres, InsertCredited
<1>1. teller[q] \in Inserting
  BY <1>0 DEF ProperTeller, Fresh, Replied, Scanning, Beginning, Transacting, Inserting
<1>2. PICK t \in Txs : t = teller[q].tx
  BY <1>1 DEF Inserting
<1>3. ~mixed' => ~mixed /\ ~conn[c].open
  <2>1. "on" \notin DOMAIN teller[q]
    BY <1>1, Kinds DEF AtRest
  <2> QED
    BY <1>0, <2>1 DEF Runs
<1>4. /\ Requests' /\ teller'[q] = Replied
      /\ \A p \in Tellers \ {q} : teller'[p] = teller[p]
      /\ Replied \notin Transacting /\ Replied \in AtRest /\ Replied \notin Beginning
  BY <1>0, Kinds, TellerMoves DEF IInv, AtRest
<1>5. CASE UNCHANGED <<row, conn, acked>>
  <2>1. mixed => mixed'
    BY <1>0 DEF Runs
  <2> QED
    BY <1>0, <1>4, <1>5, <2>1, QuietPreserves
<1>6. CASE /\ Write(c, t, Credit(t)) /\ acked' = acked \cup {t} /\ Unique(c, t, t)
           /\ Sees(c, t) = NoRow
  <2>1. Credit(t).tx = t /\ Proper(t, Credit(t)) /\ t \in RowIds
    BY DepositsAssumption DEF Credit, Proper, DepositRow, RowIds
  <2>2. ~Locked(c, t) /\ ~Contested(c, t) /\ ~Taken(c, t, t)
    BY <1>2, <1>6 DEF InsertCredited, Unique
  <2>3. Postgres'
    BY <1>0, <1>6, <2>1, <2>2, WritePreserves DEF IInv
  <2>4. SUFFICES ASSUME ~mixed'
                 PROVE  OneEach' /\ Acknowledged' /\ \A p \in Tellers : OwnTransaction(p)'
    BY <1>4, <1>6, <2>3 DEF IInv
  <2>5. ~mixed /\ ~conn[c].open
    BY <1>3, <2>4
  <2>6. /\ UNCHANGED conn /\ row'[t] = Credit(t)
        /\ \A j \in RowIds \ {t} : row'[j] = row[j]
    BY <1>0, <1>6, <2>1, <2>5, WriteEffect
  <2>7. row[t] = NoRow
    BY <1>0, <1>6, <2>5 DEF Sees, Tables, ProperConn
  <2>8. \A k \in Refs : row'[k] = row[k]
    BY <2>6, DepositsAssumption DEF RowIds
  <2>9. OneEach' /\ \A p \in Tellers : OwnTransaction(p)'
    BY <1>4, <2>5, <2>6, <2>8, NoTransaction
  <2>10. Acknowledged'
    <3>1. \A u \in acked : \E j \in RowIds : row[j] = Credit(u)
      BY <2>5 DEF IInv, Acknowledged
    <3>2. \A u \in acked : \E j \in RowIds : row'[j] = Credit(u)
      BY <2>6, <2>7, <3>1 DEF Credit, NoRow
    <3> QED
      BY <1>6, <2>1, <2>6, <3>2 DEF Acknowledged
  <2> QED
    BY <2>9, <2>10
<1> QED
  BY <1>2, <1>5, <1>6 DEF InsertCredited

\* A new intent is a pending row.
LEMMA IntentPreserves ==
    ASSUME IInv, NEW k \in Refs, NEW c \in Conns, DepositIntent(k, c)
    PROVE  IInv'
<1> DEFINE r == [status |-> "pending", tx |-> NoTx]
<1>0. /\ UNCHANGED <<memo, teller, acked>> /\ Write(c, k, r) /\ ~Locked(c, k) /\ k \in RowIds
      /\ Sees(c, k) = NoRow /\ (~mixed' => ~mixed /\ ~conn[c].open) /\ Tables
  BY DEF IInv, Postgres, DepositIntent, RowIds
<1>1. Proper(k, r) /\ r.tx \notin Txs /\ r.status = "pending"
  BY DepositsAssumption DEF Proper, DepositRow
<1> HIDE DEF r
<1>2. Postgres'
  BY <1>0, <1>1, WritePreserves DEF IInv
<1>3. Requests'
  BY <1>0 DEF IInv, Requests, ProperTeller
<1>4. SUFFICES ASSUME ~mixed'
               PROVE  OneEach' /\ Acknowledged' /\ \A p \in Tellers : OwnTransaction(p)'
  BY <1>0, <1>2, <1>3 DEF IInv
<1>5. ~mixed /\ ~conn[c].open
  BY <1>0, <1>4
<1>6. UNCHANGED conn /\ row'[k] = r /\ \A j \in RowIds \ {k} : row'[j] = row[j]
  BY <1>0, <1>1, <1>5, WriteEffect
<1>7. row[k] = NoRow
  BY <1>0, <1>5 DEF Sees, Tables, ProperConn
<1>8. OneEach' /\ \A p \in Tellers : OwnTransaction(p)'
  BY <1>0, <1>1, <1>5, <1>6, NoTransaction DEF RowIds
<1>9. Acknowledged'
  BY <1>0, <1>5, <1>6, <1>7 DEF IInv, Acknowledged, Credit, NoRow
<1> QED
  BY <1>8, <1>9

\* A transfer arrives on the chain, or an instance stops.
LEMMA OutsidePreserves ==
    ASSUME IInv, \/ \E t \in Txs, m \in Refs \cup {NoMemo} : Transfer(t, m)
                 \/ StopInstance
    PROVE  IInv'
<1>1. ASSUME NEW t \in Txs, NEW m \in Refs \cup {NoMemo}, Transfer(t, m) PROVE IInv'
  <2>0. UNCHANGED <<row, conn, teller, acked>> /\ (mixed' <=> mixed)
    BY <1>1 DEF Transfer
  <2>1. Postgres' /\ \A u \in Txs : memo[u] \in Refs => memo'[u] = memo[u]
    BY <1>1, <2>0, TransferPreserves DEF IInv
  <2>2. ASSUME NEW q \in Tellers PROVE ProperTeller(q)'
    <3>1. ProperTeller(q)
      BY DEF IInv, Requests
    <3>2. teller[q] \in Beginning \cup Transacting => teller[q].tx \in Txs /\ teller[q].ref \in Refs
      BY DEF Beginning, Transacting
    <3> QED
      BY <2>0, <2>1, <3>1, <3>2 DEF ProperTeller
  <2>3. Requests'
    BY <2>0, <2>2 DEF IInv, Requests
  <2>4. ~mixed => OneEach' /\ \A q \in Tellers : OwnTransaction(q)'
    BY <2>0, NoTransaction
  <2> QED
    BY <2>0, <2>1, <2>3, <2>4 DEF IInv, Acknowledged
<1>2. CASE StopInstance
  <2>0. /\ UNCHANGED <<row, memo, acked>> /\ (mixed' <=> mixed) /\ conn' = [c \in Conns |-> Free]
        /\ teller' = [q \in Tellers |-> IF teller[q] = Fresh THEN Fresh ELSE Replied]
    BY <1>2 DEF StopInstance
  <2>1. Postgres'
    BY <2>0, StopPreserves DEF IInv
  <2>2. \A q \in Tellers : teller'[q] \in {Fresh, Replied} /\ teller'[q] \notin Transacting
    BY <2>0, Kinds DEF AtRest
  <2>3. Requests'
    BY <2>0, <2>2, Kinds DEF Requests, ProperTeller
  <2>4. OneEach' /\ \A q \in Tellers : OwnTransaction(q)'
    BY <2>2 DEF OneEach, OwnTransaction
  <2> QED
    BY <2>0, <2>1, <2>3, <2>4 DEF IInv, Acknowledged
<1> QED
  BY <1>1, <1>2

-----------------------------------------------------------------------------
(* The theorems *)

\* No deposit at first.
LEMMA InitHolds ==
    ASSUME DepositsInit
    PROVE  IInv
<1>1. /\ Free \in [open : BOOLEAN, aborted : BOOLEAN, locks : SUBSET RowIds, writes : {Free.writes}]
      /\ Free.locks = {} /\ DOMAIN Free.writes = {} /\ ~Free.open /\ ~Free.aborted
  BY DEF Free
<1>2. /\ \A c \in Conns : conn[c] = Free /\ \A k \in RowIds : row[k] = NoRow
      /\ \A q \in Tellers : teller[q] = Fresh
  BY DEF DepositsInit
<1>3. \A k \in RowIds : Proper(k, row[k])
  BY <1>2, DepositsAssumption DEF DepositsInit, Proper, DepositRow, NoRow
<1>4. \A c \in Conns : ProperConn(c)
  BY <1>1, <1>2 DEF ProperConn
<1>5. Tables
  BY <1>3, <1>4 DEF DepositsInit, Tables
<1>6. \A c \in Conns : \A k \in RowIds : Sees(c, k) = NoRow
  BY <1>1, <1>2 DEF Sees, DepositsInit
<1>7. NoRow.tx \notin Txs
  BY DepositsAssumption DEF NoRow
<1>8. CommittedUnique /\ SeenUnique /\ WrittenUnique /\ LocksExclude
  BY <1>1, <1>2, <1>6, <1>7, DepositsAssumption
  DEF CommittedUnique, SeenUnique, WrittenUnique, LocksExclude, DepositsInit
<1>9. Requests
  BY <1>2, Kinds DEF DepositsInit, Requests, ProperTeller, AtRest
<1>10. OneEach /\ \A q \in Tellers : OwnTransaction(q)
  BY <1>2, Kinds DEF OneEach, OwnTransaction, AtRest
<1> QED
  BY <1>5, <1>8, <1>9, <1>10 DEF IInv, Postgres, Acknowledged, DepositsInit

\* Every step preserves the invariant.
LEMMA StepPreserves ==
    ASSUME IInv, [DepositsNext]_depositVars
    PROVE  IInv'
<1>1. ASSUME NEW q \in Tellers, NEW c \in Conns, TellerStep(q, c) PROVE IInv'
  BY <1>1, LookingPreserves, BeginPreserves, RecheckPreserves, UpdatePreserves, EndPreserves,
     InsertPreserves DEF TellerStep
<1>2. CASE UNCHANGED depositVars
  <2>1. Postgres'
    BY <1>2 DEF depositVars, IInv, Postgres, Tables, LocksExclude, CommittedUnique, SeenUnique,
                WrittenUnique, ProperConn, Proper, Sees
  <2>2. Requests'
    BY <1>2 DEF depositVars, IInv, Requests, ProperTeller
  <2>3. mixed \/ (OneEach /\ Acknowledged /\ \A q \in Tellers : OwnTransaction(q))
    BY DEF IInv
  <2>4. (mixed \/ (OneEach /\ Acknowledged /\ \A q \in Tellers : OwnTransaction(q)))'
    BY <1>2, <2>3 DEF depositVars, OneEach, Acknowledged, OwnTransaction
  <2> QED
    BY <1>2, <2>1, <2>2, <2>4 DEF depositVars, IInv
<1> QED
  BY <1>1, <1>2, OutsidePreserves, IntentPreserves, LookingPreserves, GatewayPreserves
  DEF DepositsNext

\* The invariant holds in every state of every behaviour.
THEOREM Invariance == DepositsSpec => []IInv
<1>1. DepositsInit => IInv
  BY InitHolds
<1>2. IInv /\ [DepositsNext]_depositVars => IInv'
  BY StepPreserves
<1> QED
  BY <1>1, <1>2, PTL DEF DepositsSpec

\* A transfer is credited at most once, on whichever connections the statements of however many
\* requests run, and an intent only with the transfer that carries its number.
THEOREM OneCredit == DepositsSpec => []CreditedOnce
<1>1. IInv => CreditedOnce
  <2> SUFFICES ASSUME IInv PROVE CreditedOnce
    OBVIOUS
  <2>0. /\ \A k \in RowIds : Proper(k, row[k])
        /\ \A c \in Conns : ProperConn(c)
    BY DEF IInv, Postgres, Tables
  <2>1. DepositsTypeOK
    BY <2>0 DEF DepositsTypeOK, Proper, DepositRow, ProperConn, IInv
  <2>2. ASSUME NEW t \in Txs PROVE Cardinality(CreditsOf(t)) <= 1
    <3>1. \A j, k \in CreditsOf(t) : j = k
      BY DEF CreditsOf, Credit, IInv, Postgres, CommittedUnique
    <3>2. CASE CreditsOf(t) = {}
      BY <3>2, FS_EmptySet
    <3>3. CASE CreditsOf(t) # {}
      <4>1. PICK k : CreditsOf(t) = {k}
        BY <3>1, <3>3
      <4> QED
        BY <4>1, FS_Singleton
    <3> QED
      BY <3>2, <3>3
  <2>3. \A k \in Refs : row[k].status = "credited" => memo[row[k].tx] = k
    BY <2>0 DEF Proper, RowIds
  <2> QED
    BY <2>1, <2>2, <2>3 DEF CreditedOnce
<1> QED
  BY <1>1, Invariance, PTL

\* A credit that was answered is not lost, unless a statement met a transaction that its request
\* had not opened.
THEOREM CreditsAreKept == DepositsSpec => []CreditsSurviveUnmixed
<1>1. IInv => CreditsSurviveUnmixed
  BY DEF IInv, Acknowledged, CreditsSurviveUnmixed, CreditsOf
<1> QED
  BY <1>1, Invariance, PTL
=============================================================================
