---------------------------- MODULE AgentKeysProofs ----------------------------
(***************************************************************************)
(* Proofs about the delegated key of an agent, for any number of requests, *)
(* keypairs, deploys and keys of other agents.                             *)
(***************************************************************************)
EXTENDS AgentKeys, SequenceTheorems, FiniteSetTheorems, TLAPS

-----------------------------------------------------------------------------
(* The inductive invariant *)

Row == [pub : Nat \ {0}, status : {"ACTIVE", "REVOKED"}, granted : Nat]
Deploy == [kind : {"grant", "revoke"}, key : Nat \ {0},
           state : {"unsigned", "signed", "succeeded", "failed"}]
Account == [keys : SUBSET Nat, others : Nat, master : Nat, manage : Nat, deploy : Nat]
Confirmation == [at : {"readDeploy", "readAccount"}, kind : {"grant", "revoke"},
                 pub : Nat \ {0}, deploy : Nat]

\* A row holds keypairs that were generated.
RowsAreMade == \A i \in DOMAIN keyRows : keyRows[i].pub <= made /\ keyRows[i].granted <= made
DeploysAreMade == \A d \in DOMAIN deploys : deploys[d].key <= made

\* The tables, the chain and what was handed out.
Shape ==
    /\ agent \in {"none", "active", "suspended", "retired"}
    /\ made \in 0 .. MaxKeys /\ vaulted \in 0 .. made
    /\ keyRows \in Seq(Row) /\ RowsAreMade
    /\ deploys \in Seq(Deploy) /\ DeploysAreMade
    /\ account \in Account /\ account.keys \subseteq 1 .. made /\ account.others <= MaxOthers
    /\ DOMAIN clerk = Clerks

\* An account without keys of agents is as it was created; otherwise only the master key
\* reaches the threshold.
AccountMatches ==
    \/ /\ account.keys = {} /\ account.others = 0
       /\ account.master = 1 /\ account.manage = 1 /\ account.deploy = 1
    \/ account.master = 3 /\ account.manage = 3 /\ account.deploy = 1

\* The UNIQUE index.
OneActive == \A i, j \in ActiveRows : i = j

\* A key that a request has read is the ACTIVE one or was revoked since.
Known(k) == k = ActiveKey \/ Revoked(k)

ClerkMatches(q) ==
    LET c == clerk[q]
    IN  /\ c.at = "insertRow" => c.pub \in 1 .. made /\ (clashed \/ c.pub = vaulted)
        /\ c.at \in {"readDeploy", "readAccount"} =>
              c \in Confirmation /\ c.pub <= made /\ Known(c.pub)
        /\ c.at = "markGranted" => c.pub \in 1 .. made /\ c.pub \in onChain /\ Known(c.pub)
        /\ c.at = "sign" => c.pub \in Nat /\ (c.pub # 0 => Known(c.pub))

\* Unless two requests provision together, the one that does finds no ACTIVE key, and the
\* vault serves the ACTIVE key.
ProvisionMatches ==
    /\ agent = "none" => keyRows = << >> /\ \A q \in Clerks : ~Provisioning(q)
    /\ clashed \/ /\ \A p, q \in Clerks : Provisioning(p) /\ Provisioning(q) => p = q
                  /\ \A q \in Clerks : Provisioning(q) => ActiveKey = 0
                  /\ ActiveKey # 0 => vaulted = ActiveKey
                  /\ \A h \in headers : h[1] # h[2] => Revoked(h[1])

IInv ==
    /\ Shape
    /\ AccountMatches
    /\ OneActive
    /\ account.keys \subseteq onChain
    /\ \A q \in Clerks : ClerkMatches(q)
    /\ ProvisionMatches

-----------------------------------------------------------------------------
(* The rows *)

\* The ACTIVE key is that of the one ACTIVE row.
LEMMA ActiveRow ==
    ASSUME keyRows \in Seq(Row), OneActive
    PROVE  /\ \A i \in ActiveRows : ActiveKey = keyRows[i].pub
           /\ ActiveKey = 0 <=> ActiveRows = {}
           /\ ActiveKey \in Nat
           /\ RowsAreMade => ActiveKey <= made \/ ActiveKey = 0
<1>1. \A i \in ActiveRows : keyRows[i] \in Row /\ i \in DOMAIN keyRows
  BY DEF ActiveRows
<1>2. ASSUME NEW i \in ActiveRows PROVE ActiveKey = keyRows[i].pub
  <2>1. (CHOOSE j \in ActiveRows : TRUE) \in ActiveRows
    OBVIOUS
  <2>2. (CHOOSE j \in ActiveRows : TRUE) = i
    BY <2>1 DEF OneActive
  <2> QED
    BY <2>2 DEF ActiveKey
<1>3. CASE ActiveRows = {}
  BY <1>3 DEF ActiveKey
<1>4. CASE ActiveRows # {}
  <2>1. PICK i \in ActiveRows : TRUE
    BY <1>4
  <2>2. ActiveKey = keyRows[i].pub /\ keyRows[i].pub \in Nat \ {0}
    BY <1>1, <1>2 DEF Row
  <2> QED
    BY <1>1, <1>2, <1>4, <2>1, <2>2 DEF RowsAreMade
<1> QED
  BY <1>2, <1>3, <1>4

\* What a change of the rows may not do: lose a revoked row, or a key that a request holds.
RowsKept ==
    /\ keyRows' \in Seq(Row) /\ RowsAreMade' /\ OneActive'
    /\ \A k \in Nat : Revoked(k) => Revoked(k)'
    /\ \A k \in Nat \ {0} : Known(k) => Known(k)'

\* A revoked key is a number.
LEMMA RevokedIsNumber ==
    ASSUME keyRows \in Seq(Row), NEW k, Revoked(k)
    PROVE  k \in Nat
<1>1. PICK i \in DOMAIN keyRows : keyRows[i].pub = k
  BY DEF Revoked
<1>2. keyRows[i] \in Row
  BY <1>1
<1> QED
  BY <1>1, <1>2 DEF Row

\* Rows that stay.
LEMMA RowsStay ==
    ASSUME IInv, UNCHANGED keyRows, made <= made', made' \in Nat
    PROVE  RowsKept /\ ActiveKey' = ActiveKey
<1>1. ActiveRows' = ActiveRows /\ ActiveKey' = ActiveKey
  BY DEF ActiveRows, ActiveKey
<1>2. keyRows' \in Seq(Row) /\ OneActive'
  BY <1>1 DEF IInv, Shape, OneActive
<1>3. RowsAreMade'
  <2> SUFFICES ASSUME NEW i \in DOMAIN keyRows
               PROVE  keyRows[i].pub <= made' /\ keyRows[i].granted <= made'
    BY DEF RowsAreMade
  <2>1. keyRows[i] \in Row /\ keyRows[i].pub <= made /\ keyRows[i].granted <= made /\ made \in Nat
    BY DEF IInv, Shape, RowsAreMade
  <2>2. keyRows[i].pub \in Nat /\ keyRows[i].granted \in Nat
    BY <2>1 DEF Row
  <2> QED
    BY <2>1, <2>2
<1> QED
  BY <1>1, <1>2, <1>3 DEF RowsKept, Revoked, Known

\* A row that is inserted while there is no ACTIVE one.
LEMMA RowInserted ==
    ASSUME IInv, NEW k \in 1 .. made, ActiveKey = 0, UNCHANGED made,
           keyRows' = Append(keyRows, [pub |-> k, status |-> "ACTIVE", granted |-> 0])
    PROVE  /\ RowsKept /\ ActiveKey' = k
           /\ \A i \in DOMAIN keyRows' : keyRows'[i].granted # 0
                 => i \in DOMAIN keyRows /\ keyRows'[i] = keyRows[i]
<1> DEFINE r == [pub |-> k, status |-> "ACTIVE", granted |-> 0]
           n == Len(keyRows)
<1>0. keyRows \in Seq(Row) /\ r \in Row /\ n \in Nat /\ DOMAIN keyRows = 1 .. n /\ made \in Nat
  BY KeysAssumption DEF IInv, Shape, Row
<1>1. /\ keyRows' \in Seq(Row) /\ DOMAIN keyRows' = 1 .. (n + 1)
      /\ keyRows'[n + 1] = r /\ \A i \in 1 .. n : keyRows'[i] = keyRows[i]
  BY <1>0
<1>2. ActiveRows = {}
  BY <1>0, ActiveRow DEF IInv
<1>3. ActiveRows' = {n + 1}
  BY <1>0, <1>1, <1>2 DEF ActiveRows
<1>4. OneActive' /\ ActiveKey' = k
  BY <1>1, <1>3 DEF OneActive, ActiveKey
<1>5. RowsAreMade'
  BY <1>0, <1>1 DEF IInv, Shape, RowsAreMade
<1>6. \A x \in Nat : Revoked(x) => Revoked(x)'
  BY <1>0, <1>1 DEF Revoked
<1>7. \A x \in Nat \ {0} : Known(x) => Known(x)'
  BY <1>6 DEF Known
<1> QED
  BY <1>0, <1>1, <1>4, <1>5, <1>6, <1>7 DEF RowsKept

\* A row that is marked as granted with the key that was verified.
LEMMA RowMarked ==
    ASSUME IInv, NEW k \in 0 .. made, UNCHANGED made, UpdateActive("granted", k)
    PROVE  /\ RowsKept /\ ActiveKey' = ActiveKey
           /\ DOMAIN keyRows' = DOMAIN keyRows
           /\ \A i \in DOMAIN keyRows :
                 keyRows'[i] = keyRows[i]
                 \/ (i \in ActiveRows /\ keyRows'[i].granted = k /\ keyRows'[i].pub = ActiveKey)
<1>0. keyRows \in Seq(Row) /\ OneActive /\ RowsAreMade /\ made \in Nat
  BY KeysAssumption DEF IInv, Shape
<1>1. /\ DOMAIN keyRows' = DOMAIN keyRows
      /\ \A i \in DOMAIN keyRows :
            keyRows'[i] = IF i \in ActiveRows THEN [keyRows[i] EXCEPT !.granted = k]
                          ELSE keyRows[i]
  BY DEF UpdateActive
<1>2. ASSUME NEW i \in DOMAIN keyRows
      PROVE  /\ keyRows'[i] \in Row
             /\ keyRows'[i].pub = keyRows[i].pub /\ keyRows'[i].status = keyRows[i].status
             /\ keyRows'[i].granted = IF i \in ActiveRows THEN k ELSE keyRows[i].granted
  <2>1. keyRows[i] \in Row
    BY <1>0
  <2>2. CASE i \in ActiveRows
    BY <1>0, <1>1, <2>1, <2>2 DEF Row
  <2>3. CASE i \notin ActiveRows
    BY <1>1, <2>1, <2>3
  <2> QED
    BY <2>2, <2>3
<1>3. keyRows' \in Seq(Row)
  <2>1. PICK n \in Nat : DOMAIN keyRows = 1 .. n
    BY <1>0, LenProperties
  <2>2. keyRows' \in [1 .. n -> Row]
    <3>1. keyRows' = [i \in 1 .. n |-> keyRows'[i]]
      BY <2>1 DEF UpdateActive
    <3> QED
      BY <1>2, <2>1, <3>1
  <2> QED
    BY <2>2
<1>4. ActiveRows' = ActiveRows
  BY <1>1, <1>2 DEF ActiveRows
<1>5. OneActive' /\ ActiveKey' = ActiveKey
  <2>1. OneActive'
    BY <1>0, <1>4 DEF OneActive
  <2>2. CASE ActiveRows = {}
    <3>1. ActiveRows' = {}
      BY <1>4, <2>2
    <3> QED
      BY <2>1, <2>2, <3>1 DEF ActiveKey
  <2>3. CASE ActiveRows # {}
    <3>1. PICK i \in ActiveRows : TRUE
      BY <2>3
    <3>2. ActiveRows = {i} /\ ActiveRows' = {i} /\ i \in DOMAIN keyRows
      BY <1>0, <1>4, <3>1 DEF OneActive, ActiveRows
    <3>3. ActiveKey = keyRows[i].pub /\ ActiveKey' = keyRows'[i].pub
      BY <3>2 DEF ActiveKey
    <3> QED
      BY <1>2, <2>1, <3>2, <3>3
  <2> QED
    BY <2>1, <2>2, <2>3
<1>6. RowsAreMade'
  BY <1>0, <1>1, <1>2 DEF RowsAreMade
<1>7. \A x \in Nat : Revoked(x) => Revoked(x)'
  BY <1>1, <1>2 DEF Revoked
<1>8. \A x \in Nat \ {0} : Known(x) => Known(x)'
  BY <1>5, <1>7 DEF Known
<1>9. \A i \in ActiveRows : keyRows[i].pub = ActiveKey
  BY <1>0, ActiveRow
<1>10. \A i \in DOMAIN keyRows :
          keyRows'[i] = keyRows[i]
          \/ (i \in ActiveRows /\ keyRows'[i].granted = k /\ keyRows'[i].pub = ActiveKey)
  BY <1>1, <1>2, <1>9
<1> QED
  BY <1>1, <1>3, <1>5, <1>6, <1>7, <1>8, <1>10 DEF RowsKept

\* A row that is revoked: its key is known as such from then on.
LEMMA RowRevoked ==
    ASSUME IInv, UNCHANGED made, UpdateActive("status", "REVOKED")
    PROVE  /\ RowsKept /\ ActiveKey' = 0
           /\ DOMAIN keyRows' = DOMAIN keyRows
           /\ \A i \in DOMAIN keyRows : /\ keyRows'[i].granted = keyRows[i].granted
                                        /\ keyRows'[i].pub = keyRows[i].pub
<1>0. keyRows \in Seq(Row) /\ OneActive /\ RowsAreMade /\ made \in Nat
  BY KeysAssumption DEF IInv, Shape
<1>1. /\ DOMAIN keyRows' = DOMAIN keyRows
      /\ \A i \in DOMAIN keyRows :
            keyRows'[i] = IF i \in ActiveRows THEN [keyRows[i] EXCEPT !.status = "REVOKED"]
                          ELSE keyRows[i]
  BY DEF UpdateActive
<1>2. ASSUME NEW i \in DOMAIN keyRows
      PROVE  /\ keyRows'[i] \in Row /\ keyRows'[i].status = "REVOKED"
             /\ keyRows'[i].pub = keyRows[i].pub /\ keyRows'[i].granted = keyRows[i].granted
  <2>1. keyRows[i] \in Row
    BY <1>0
  <2>2. CASE i \in ActiveRows
    BY <1>0, <1>1, <2>1, <2>2 DEF Row
  <2>3. CASE i \notin ActiveRows
    <3>1. keyRows[i].status = "REVOKED"
      BY <2>1, <2>3 DEF ActiveRows, Row
    <3> QED
      BY <1>1, <2>1, <2>3, <3>1
  <2> QED
    BY <2>2, <2>3
<1>3. keyRows' \in Seq(Row)
  <2>1. PICK n \in Nat : DOMAIN keyRows = 1 .. n
    BY <1>0, LenProperties
  <2>2. keyRows' \in [1 .. n -> Row]
    <3>1. keyRows' = [i \in 1 .. n |-> keyRows'[i]]
      BY <2>1 DEF UpdateActive
    <3> QED
      BY <1>2, <2>1, <3>1
  <2> QED
    BY <2>2
<1>4. ActiveRows' = {}
  BY <1>1, <1>2 DEF ActiveRows
<1>5. OneActive' /\ ActiveKey' = 0
  BY <1>4 DEF OneActive, ActiveKey
<1>6. RowsAreMade'
  BY <1>0, <1>1, <1>2 DEF RowsAreMade
<1>7. \A x \in Nat : Revoked(x) => Revoked(x)'
  BY <1>1, <1>2 DEF Revoked
<1>8. ASSUME NEW x \in Nat \ {0}, Known(x) PROVE Revoked(x)'
  <2>1. CASE Revoked(x)
    BY <1>7, <2>1
  <2>2. CASE x = ActiveKey
    <3>1. PICK i \in ActiveRows : keyRows[i].pub = x
      BY <1>0, <2>2, ActiveRow
    <3>2. i \in DOMAIN keyRows
      BY DEF ActiveRows
    <3> QED
      BY <1>1, <1>2, <3>1, <3>2 DEF Revoked
  <2> QED
    BY <1>8, <2>1, <2>2 DEF Known
<1>9. \A x \in Nat \ {0} : Known(x) => Known(x)'
  BY <1>8 DEF Known
<1> QED
  BY <1>1, <1>2, <1>3, <1>5, <1>6, <1>7, <1>9 DEF RowsKept

-----------------------------------------------------------------------------
(* Every step preserves the invariant *)

\* What a step leaves alone of another request: the request keeps what it knows.
LEMMA ClerkKept ==
    ASSUME IInv, RowsKept, made \in Nat, made' \in Nat, made <= made', onChain \subseteq onChain',
           NEW q \in Clerks, clerk'[q] = clerk[q],
           clerk[q].at = "insertRow" /\ ~clashed' => vaulted' = vaulted /\ ~clashed
    PROVE  ClerkMatches(q)'
<1> DEFINE c == clerk[q]
<1>1. ClerkMatches(q)
  BY DEF IInv
<1>2. c.at = "insertRow" => c.pub \in 1 .. made' /\ (clashed' \/ c.pub = vaulted')
  BY <1>1 DEF ClerkMatches
<1>3. c.at \in {"readDeploy", "readAccount"} =>
         c \in Confirmation /\ c.pub <= made' /\ Known(c.pub)'
  <2> SUFFICES ASSUME c.at \in {"readDeploy", "readAccount"}
               PROVE  c \in Confirmation /\ c.pub <= made' /\ Known(c.pub)'
    OBVIOUS
  <2>1. c \in Confirmation /\ c.pub <= made /\ Known(c.pub)
    BY <1>1 DEF ClerkMatches
  <2>2. PICK k \in Nat \ {0} : k = clerk[q].pub
    BY <2>1 DEF Confirmation
  <2>3. Known(k) /\ k <= made
    BY <2>1, <2>2
  <2>4. Known(k)' /\ k <= made'
    BY <2>2, <2>3 DEF RowsKept
  <2> QED
    BY <2>1, <2>2, <2>4 DEF Known, Revoked
<1>4. c.at = "markGranted" => c.pub \in 1 .. made' /\ c.pub \in onChain' /\ Known(c.pub)'
  <2> SUFFICES ASSUME c.at = "markGranted"
               PROVE  c.pub \in 1 .. made' /\ c.pub \in onChain' /\ Known(c.pub)'
    OBVIOUS
  <2>1. PICK k \in 1 .. made : k = clerk[q].pub /\ k \in onChain /\ Known(k)
    BY <1>1 DEF ClerkMatches
  <2>2. k \in Nat \ {0}
    BY <2>1
  <2>3. Known(k)' /\ k \in 1 .. made' /\ k \in onChain'
    BY <2>1, <2>2 DEF RowsKept
  <2> QED
    BY <2>1, <2>3 DEF Known, Revoked
<1>5. c.at = "sign" => c.pub \in Nat /\ (c.pub # 0 => Known(c.pub)')
  <2> SUFFICES ASSUME c.at = "sign", c.pub # 0 PROVE Known(c.pub)'
    BY <1>1 DEF ClerkMatches
  <2>1. PICK k \in Nat \ {0} : k = clerk[q].pub /\ Known(k)
    BY <1>1 DEF ClerkMatches
  <2>2. Known(k)'
    BY <2>1 DEF RowsKept
  <2> QED
    BY <2>1, <2>2 DEF Known, Revoked
<1> QED
  BY <1>2, <1>3, <1>4, <1>5 DEF ClerkMatches, Known, Revoked

\* A step of a request that reads.
LEMMA ReadingStep ==
    ASSUME IInv, NEW q \in Clerks, NEW next, Moves(q, next),
           UNCHANGED <<made, vaulted, keyRows, account, deploys, onChain, headers>>,
           agent' \in {"none", "active", "suspended", "retired"},
           clashed => clashed', ClerkMatches(q)', ProvisionMatches'
    PROVE  IInv'
<1>0. made \in Nat /\ DOMAIN clerk = Clerks
  BY KeysAssumption DEF IInv, Shape
<1>1. RowsKept
  BY <1>0, RowsStay
<1>2. DOMAIN clerk' = Clerks /\ \A p \in Clerks \ {q} : clerk'[p] = clerk[p]
  BY <1>0 DEF Moves
<1>3. \A p \in Clerks : ClerkMatches(p)'
  BY <1>0, <1>1, <1>2, ClerkKept
<1>4. Shape'
  BY <1>1, <1>2 DEF IInv, Shape, RowsKept, DeploysAreMade
<1> QED
  BY <1>1, <1>3, <1>4 DEF IInv, AccountMatches, RowsKept

\* What is known of the keys that a request holds when it starts to.
LEMMA ActiveIsKnown ==
    ASSUME IInv
    PROVE  /\ made \in Nat /\ vaulted \in Nat /\ ActiveKey \in Nat /\ ActiveKey <= made
           /\ Known(ActiveKey)
<1>1. keyRows \in Seq(Row) /\ OneActive /\ RowsAreMade /\ made \in Nat /\ vaulted \in Nat
  BY KeysAssumption DEF IInv, Shape
<1> QED
  BY <1>1, ActiveRow DEF Known

\* A request that starts.
LEMMA StartPreserves ==
    ASSUME IInv, NEW q \in Clerks, ClerkStarts(q)
    PROVE  IInv'
<1> USE DEF keyTables, keyHistory
<1>0. /\ DOMAIN clerk = Clerks /\ agent \in {"none", "active", "suspended", "retired"}
      /\ ProvisionMatches
  BY DEF IInv, Shape
<1>1. ASSUME NEW next, Moves(q, next)
      PROVE  clerk'[q] = next /\ \A p \in Clerks \ {q} : clerk'[p] = clerk[p]
  BY <1>0, <1>1 DEF Moves
<1>2. ASSUME NEW next, Moves(q, next), next.at \notin {"generate", "insertRow"},
             UNCHANGED <<vaulted, keyRows, headers, clashed>>, agent' # "none" \/ agent' = agent
      PROVE  ProvisionMatches'
  <2>1. ActiveKey' = ActiveKey
    BY <1>2 DEF ActiveKey, ActiveRows
  <2>2. \A p \in Clerks : Provisioning(p)' => Provisioning(p) /\ p # q
    BY <1>1, <1>2 DEF Provisioning
  <2> QED
    BY <1>0, <1>2, <2>1, <2>2 DEF ProvisionMatches, Revoked
<1>3. CASE RegisterAgent(q)
  <2>1. clerk'[q].at = "generate" /\ UNCHANGED <<made, vaulted, keyRows, account, deploys,
                                              onChain, headers, clashed>>
        /\ agent = "none" /\ agent' = "active"
    BY <1>1, <1>3 DEF RegisterAgent
  <2>2. ClerkMatches(q)'
    BY <2>1 DEF ClerkMatches
  <2>3. keyRows = << >> /\ \A p \in Clerks : ~Provisioning(p)
    BY <1>0, <2>1 DEF ProvisionMatches
  <2>4. ActiveKey = 0 /\ ActiveKey' = 0
    BY <2>1, <2>3 DEF ActiveKey, ActiveRows
  <2>5. \A p \in Clerks : Provisioning(p)' => p = q
    BY <1>1, <1>3, <2>3 DEF Provisioning, RegisterAgent
  <2>6. ProvisionMatches'
    BY <1>0, <2>1, <2>4, <2>5 DEF ProvisionMatches, Revoked
  <2> QED
    BY <1>3, <2>1, <2>2, <2>6, ReadingStep DEF RegisterAgent
<1>4. CASE AskForKey(q)
  <2>1. CASE ActiveKey # 0
    <3>1. Moves(q, Served) /\ UNCHANGED <<agent, made, vaulted, keyRows, account, deploys,
                                          onChain, headers>>
          /\ (clashed' <=> clashed) /\ Served.at = "served"
      BY <1>4, <2>1 DEF AskForKey, Served
    <3>2. ClerkMatches(q)'
      BY <1>1, <3>1 DEF ClerkMatches
    <3>3. ActiveKey' = ActiveKey
      BY <3>1 DEF ActiveKey, ActiveRows
    <3>4. \A p \in Clerks : Provisioning(p)' => Provisioning(p) /\ p # q
      BY <1>1, <3>1 DEF Provisioning
    <3>5. ProvisionMatches'
      BY <1>0, <3>1, <3>3, <3>4 DEF ProvisionMatches, Revoked
    <3> QED
      BY <1>0, <3>1, <3>2, <3>5, ReadingStep
  <2>2. CASE ActiveKey = 0
    <3>1. Moves(q, [at |-> "generate"]) /\ UNCHANGED <<agent, made, vaulted, keyRows, account,
                                                       deploys, onChain, headers>>
          /\ (clashed' <=> clashed \/ \E p \in Clerks : Provisioning(p)) /\ agent # "none"
      BY <1>4, <2>2 DEF AskForKey
    <3>2. ClerkMatches(q)'
      BY <1>1, <3>1 DEF ClerkMatches
    <3>3. ActiveKey' = 0
      BY <2>2, <3>1 DEF ActiveKey, ActiveRows
    <3>4. \A p \in Clerks : Provisioning(p)' => Provisioning(p) \/ p = q
      BY <1>1, <3>1 DEF Provisioning
    <3>5. ProvisionMatches'
      BY <1>0, <3>1, <3>3, <3>4 DEF ProvisionMatches, Revoked
    <3> QED
      BY <1>0, <3>1, <3>2, <3>5, ReadingStep
  <2> QED
    BY <2>1, <2>2
<1>5. CASE RevokeAgentDelegation(q) \/ Authenticate(q)
  <2>1. /\ \E step \in {"revokeRow", "checkSuspended"} : Moves(q, [at |-> step])
        /\ UNCHANGED <<made, vaulted, keyRows, account, deploys, onChain, headers, clashed>>
        /\ agent' = agent \/ agent' = "suspended"
    BY <1>5 DEF RevokeAgentDelegation, Authenticate
  <2>2. ClerkMatches(q)' /\ ProvisionMatches'
    BY <1>1, <1>2, <2>1 DEF ClerkMatches
  <2> QED
    BY <1>0, <2>1, <2>2, ReadingStep
<1>6. ASSUME NEW kind \in {"grant", "revoke"}, NEW d \in DOMAIN deploys, Confirm(q, kind, d)
      PROVE  IInv'
  <2>1. UNCHANGED <<agent, made, vaulted, keyRows, account, deploys, onChain, headers, clashed>>
    BY <1>6 DEF Confirm
  <2>2. CASE Moves(q, Served)
    <3>1. Served.at = "served"
      BY DEF Served
    <3>2. ClerkMatches(q)' /\ ProvisionMatches'
      BY <1>1, <1>2, <2>1, <2>2, <3>1 DEF ClerkMatches
    <3> QED
      BY <1>0, <2>1, <2>2, <3>2, ReadingStep
  <2>3. CASE ActiveKey # 0
             /\ Moves(q, [at |-> "readDeploy", kind |-> kind, pub |-> ActiveKey, deploy |-> d])
    <3> DEFINE c == [at |-> "readDeploy", kind |-> kind, pub |-> ActiveKey, deploy |-> d]
    <3>1. clerk'[q] = c /\ c.at = "readDeploy" /\ c.pub = ActiveKey
      BY <1>1, <2>3
    <3>2. d \in Nat
      BY DEF IInv, Shape
    <3>3. c \in Confirmation /\ c.pub <= made' /\ Known(ActiveKey)'
      BY <2>1, <2>3, <3>2, ActiveIsKnown DEF Confirmation, Known, ActiveKey, ActiveRows, Revoked
    <3>4. ActiveKey' = ActiveKey
      BY <2>1 DEF ActiveKey, ActiveRows
    <3> HIDE DEF c
    <3>5. ClerkMatches(q)'
      BY <3>1, <3>3, <3>4 DEF ClerkMatches, Known
    <3>6. ProvisionMatches'
      BY <1>2, <2>1, <2>3, <3>1 DEF c
    <3> QED
      BY <1>0, <2>1, <2>3, <3>5, <3>6, ReadingStep
  <2> QED
    BY <1>6, <2>2, <2>3 DEF Confirm
<1> QED
  BY <1>3, <1>4, <1>5, <1>6 DEF ClerkStarts

\* A request that goes on.
LEMMA ClerkStepPreserves ==
    ASSUME IInv, NEW q \in Clerks, ClerkStep(q)
    PROVE  IInv'
<1> USE DEF keyTables, keyHistory
<1>0. /\ DOMAIN clerk = Clerks /\ agent \in {"none", "active", "suspended", "retired"}
      /\ ProvisionMatches /\ ClerkMatches(q) /\ Shape
  BY DEF IInv, Shape
<1>1. ASSUME NEW next, Moves(q, next)
      PROVE  clerk'[q] = next /\ \A p \in Clerks \ {q} : clerk'[p] = clerk[p]
  BY <1>0, <1>1 DEF Moves
<1>2. ASSUME NEW next, Moves(q, next), next.at \notin {"generate", "insertRow"},
             UNCHANGED <<vaulted, keyRows, headers, clashed, agent>>
      PROVE  ProvisionMatches'
  <2>1. ActiveKey' = ActiveKey
    BY <1>2 DEF ActiveKey, ActiveRows
  <2>2. \A p \in Clerks : Provisioning(p)' => Provisioning(p) /\ p # q
    BY <1>1, <1>2 DEF Provisioning
  <2> QED
    BY <1>0, <1>2, <2>1, <2>2 DEF ProvisionMatches, Revoked
<1>3. ASSUME NEW next, Moves(q, next), next.at \notin {"generate", "insertRow"},
             UNCHANGED <<agent, made, vaulted, keyRows, account, deploys, onChain, headers,
                         clashed>>,
             ClerkMatches(q)'
      PROVE  IInv'
  BY <1>0, <1>2, <1>3, ReadingStep
<1>4. Served.at = "served"
  BY DEF Served
<1>5. ActiveKey \in Nat /\ made \in Nat /\ vaulted \in Nat /\ ActiveKey <= made
  BY ActiveIsKnown
<1>6. CASE ReadDeploy(q) \/ ReadAccount(q)
  <2>0. UNCHANGED <<agent, made, vaulted, keyRows, account, deploys, onChain, headers, clashed>>
    BY <1>6 DEF ReadDeploy, ReadAccount
  <2>1. PICK c \in Confirmation : c = clerk[q] /\ c.pub <= made /\ Known(c.pub)
    BY <1>0, <1>6 DEF ClerkMatches, ReadDeploy, ReadAccount
  <2>2. \A k \in Nat : Known(k) => Known(k)'
    BY <2>0 DEF Known, Revoked, ActiveKey, ActiveRows
  <2>3. c.pub \in Nat \ {0} /\ Known(c.pub)'
    BY <2>1, <2>2 DEF Confirmation
  <2>4. CASE Moves(q, Served)
    <3>1. ClerkMatches(q)'
      BY <1>1, <1>4, <2>4 DEF ClerkMatches
    <3> QED
      BY <1>3, <1>4, <2>0, <2>4, <3>1
  <2>5. CASE Moves(q, [c EXCEPT !.at = "readAccount"])
    <3>0. [c EXCEPT !.at = "readAccount"] \in Confirmation
      BY DEF Confirmation
    <3>1. PICK b \in Confirmation :
             b = [c EXCEPT !.at = "readAccount"] /\ b.pub = c.pub /\ b.at = "readAccount"
      BY <3>0 DEF Confirmation
    <3>2. clerk'[q] = b
      BY <1>1, <2>5, <3>1
    <3>3. ClerkMatches(q)'
      BY <2>0, <2>1, <2>3, <3>1, <3>2 DEF ClerkMatches
    <3> QED
      BY <1>3, <2>0, <2>5, <3>1, <3>3
  <2>6. CASE c.kind = "grant" /\ Verified(c) /\ Moves(q, [at |-> "markGranted", pub |-> c.pub])
    <3>1. clerk'[q].at = "markGranted" /\ clerk'[q].pub = c.pub
      BY <1>1, <2>6
    <3>2. c.pub \in onChain
      BY <2>6 DEF Verified, IInv
    <3>3. ClerkMatches(q)'
      BY <1>5, <2>0, <2>1, <2>3, <3>1, <3>2 DEF ClerkMatches
    <3> QED
      BY <1>3, <2>0, <2>6, <3>3
  <2>7. CASE Moves(q, [at |-> "revokeRow", pub |-> c.pub])
    <3>1. clerk'[q].at = "revokeRow"
      BY <1>1, <2>7
    <3>2. ClerkMatches(q)'
      BY <3>1 DEF ClerkMatches
    <3> QED
      BY <1>3, <2>0, <2>7, <3>2
  <2> QED
    BY <1>6, <2>1, <2>4, <2>5, <2>6, <2>7 DEF ReadDeploy, ReadAccount
<1>7. CASE CheckSuspended(q) \/ StopClerk(q)
  <2>1. PICK next : Moves(q, next) /\ next.at \in {"served", "getSigner"}
    BY <1>4, <1>7 DEF CheckSuspended, StopClerk
  <2>2. ClerkMatches(q)'
    BY <1>1, <2>1 DEF ClerkMatches
  <2> QED
    BY <1>3, <1>7, <2>1, <2>2 DEF CheckSuspended, StopClerk
<1>8. CASE GetClientSigner(q)
  <2>0. UNCHANGED <<agent, made, vaulted, keyRows, account, deploys, onChain, headers, clashed>>
    BY <1>8 DEF GetClientSigner
  <2>1. PICK next : Moves(q, next) /\ next.at = "sign" /\ next.pub = ActiveKey
    BY <1>8 DEF GetClientSigner
  <2>2. ActiveKey' = ActiveKey
    BY <2>0 DEF ActiveKey, ActiveRows
  <2>3. ClerkMatches(q)'
    BY <1>1, <1>5, <2>1, <2>2 DEF ClerkMatches, Known
  <2> QED
    BY <1>3, <2>0, <2>1, <2>3
<1>9. CASE SignHeader(q)
  <2>0. UNCHANGED <<agent, made, vaulted, keyRows, account, deploys, onChain, clashed>>
        /\ Moves(q, Served)
    BY <1>9 DEF SignHeader
  <2>1. ClerkMatches(q)'
    BY <1>1, <1>4, <2>0 DEF ClerkMatches
  <2>2. PICK k \in Nat : k = clerk[q].pub /\ (k # 0 => Known(k))
    BY <1>0, <1>9 DEF ClerkMatches, SignHeader
  <2>3. ActiveKey' = ActiveKey
    BY <2>0 DEF ActiveKey, ActiveRows
  <2>4. \A p \in Clerks : Provisioning(p)' => Provisioning(p) /\ p # q
    BY <1>1, <1>4, <2>0 DEF Provisioning
  <2>5. headers' = headers \cup {<<k, IF k = 0 THEN 0 ELSE vaulted>>}
    BY <1>9, <2>2 DEF SignHeader
  <2>6. ~clashed => \A h \in headers' : h[1] # h[2] => Revoked(h[1])
    BY <1>0, <2>2, <2>5 DEF ProvisionMatches, Known
  <2>7. ProvisionMatches'
    BY <1>0, <2>0, <2>3, <2>4, <2>6 DEF ProvisionMatches, Revoked
  <2>8. RowsKept /\ DOMAIN clerk' = Clerks
    BY <1>0, <1>5, <2>0, RowsStay DEF Moves
  <2>9. \A p \in Clerks : ClerkMatches(p)'
    BY <1>1, <1>5, <2>0, <2>1, <2>8, ClerkKept
  <2> QED
    BY <2>0, <2>7, <2>8, <2>9
    DEF IInv, Shape, AccountMatches, RowsKept, DeploysAreMade
<1>10. CASE GenerateKeypair(q)
  <2>0. /\ UNCHANGED <<agent, keyRows, account, deploys, onChain, headers, clashed>>
        /\ made' = made + 1 /\ vaulted' = made + 1 /\ made < MaxKeys /\ clerk[q].at = "generate"
    BY <1>10 DEF GenerateKeypair
  <2>1. PICK next : Moves(q, next) /\ next.at = "insertRow" /\ next.pub = made + 1
    BY <1>10 DEF GenerateKeypair
  <2>2. RowsKept /\ ActiveKey' = ActiveKey
    BY <1>5, <2>0, RowsStay
  <2>3. \A p \in Clerks : Provisioning(p)' => Provisioning(p)
    BY <1>1, <2>0, <2>1 DEF Provisioning
  <2>4. Provisioning(q)
    BY <2>0 DEF Provisioning
  <2>5. ProvisionMatches'
    BY <1>0, <2>0, <2>2, <2>3, <2>4 DEF ProvisionMatches, Revoked
  <2>6. ClerkMatches(q)'
    BY <1>1, <1>5, <2>0, <2>1 DEF ClerkMatches
  <2>7. ASSUME NEW p \in Clerks \ {q} PROVE ClerkMatches(p)'
    <3>1. clerk[p].at = "insertRow" => clashed
      BY <1>0, <2>4 DEF ProvisionMatches, Provisioning
    <3> QED
      BY <1>1, <1>5, <2>0, <2>1, <2>2, <3>1, ClerkKept
  <2>8. DeploysAreMade'
    <3> SUFFICES ASSUME NEW d \in DOMAIN deploys PROVE deploys[d].key <= made + 1
      BY <2>0 DEF DeploysAreMade
    <3>1. deploys[d] \in Deploy /\ deploys[d].key <= made
      BY <1>0 DEF Shape, DeploysAreMade
    <3>2. deploys[d].key \in Nat
      BY <3>1 DEF Deploy
    <3> QED
      BY <1>5, <3>1, <3>2
  <2>9. Shape'
    BY <1>0, <1>5, <2>0, <2>1, <2>2, <2>8, KeysAssumption DEF Shape, RowsKept, Moves
  <2> QED
    BY <2>0, <2>2, <2>5, <2>6, <2>7, <2>9 DEF IInv, AccountMatches, RowsKept
<1>11. CASE GrantDelegatedKey(q)
  <2>0. /\ UNCHANGED <<agent, made, vaulted, account, deploys, onChain, headers, clashed>>
        /\ Moves(q, Served) /\ clerk[q].at = "insertRow"
    BY <1>11 DEF GrantDelegatedKey
  <2>1. ClerkMatches(q)'
    BY <1>1, <1>4, <2>0 DEF ClerkMatches
  <2>2. CASE ActiveKey # 0
    <3>1. UNCHANGED keyRows
      BY <1>11, <2>2 DEF GrantDelegatedKey
    <3> QED
      BY <1>3, <1>4, <2>0, <2>1, <3>1
  <2>3. CASE ActiveKey = 0
    <3>1. PICK k \in 1 .. made : k = clerk[q].pub /\ (clashed \/ k = vaulted)
      BY <1>0, <2>0 DEF ClerkMatches
    <3>2. keyRows' = Append(keyRows, [pub |-> k, status |-> "ACTIVE", granted |-> 0])
      BY <1>11, <2>3, <3>1 DEF GrantDelegatedKey
    <3>3. RowsKept /\ ActiveKey' = k
      BY <2>0, <2>3, <3>2, RowInserted
    <3>4. \A p \in Clerks : ClerkMatches(p)'
      BY <1>1, <1>5, <2>0, <2>1, <3>3, ClerkKept
    <3>5. Provisioning(q) /\ \A p \in Clerks : Provisioning(p)' => Provisioning(p) /\ p # q
      BY <1>1, <1>4, <2>0 DEF Provisioning
    <3>6. agent # "none"
      BY <1>0, <3>5 DEF ProvisionMatches
    <3>7. ASSUME ~clashed
          PROVE  /\ \A p \in Clerks : ~Provisioning(p)'
                 /\ \A h \in headers : h[1] # h[2] => Revoked(h[1])'
      <4>1. \A p \in Clerks : ~Provisioning(p)'
        BY <1>0, <3>5, <3>7 DEF ProvisionMatches
      <4>2. \A h \in headers : h[1] # h[2] => Revoked(h[1])
        BY <1>0, <3>7 DEF ProvisionMatches
      <4>3. ASSUME NEW h \in headers, h[1] # h[2] PROVE Revoked(h[1])'
        <5>3. PICK m \in Nat : m = h[1]
          BY <1>0, <4>2, <4>3, RevokedIsNumber DEF Shape
        <5>4. Revoked(m)'
          BY <3>3, <4>2, <4>3, <5>3 DEF RowsKept
        <5> QED
          BY <5>3, <5>4 DEF Revoked
      <4> QED
        BY <4>1, <4>3
    <3>8. ProvisionMatches'
      BY <2>0, <3>1, <3>3, <3>6, <3>7 DEF ProvisionMatches, Revoked
    <3>9. Shape'
      BY <1>0, <2>0, <3>3 DEF Shape, RowsKept, Moves, DeploysAreMade
    <3> QED
      BY <2>0, <3>3, <3>4, <3>8, <3>9 DEF IInv, AccountMatches, RowsKept
  <2> QED
    BY <2>2, <2>3
<1>12. CASE MarkDelegatedKeyGranted(q) \/ RevokeDelegatedKey(q)
  <2>0. /\ UNCHANGED <<agent, made, vaulted, account, deploys, onChain, headers, clashed>>
        /\ Moves(q, Served)
    BY <1>12 DEF MarkDelegatedKeyGranted, RevokeDelegatedKey
  <2>1. ClerkMatches(q)'
    BY <1>1, <1>4, <2>0 DEF ClerkMatches
  <2>2. /\ RowsKept /\ DOMAIN keyRows' = DOMAIN keyRows
        /\ ActiveKey' = ActiveKey \/ ActiveKey' = 0
    <3>1. CASE MarkDelegatedKeyGranted(q)
      <4>1. PICK k \in 1 .. made : k = clerk[q].pub /\ k \in onChain /\ Known(k)
        BY <1>0, <3>1 DEF ClerkMatches, MarkDelegatedKeyGranted
      <4>2. UpdateActive("granted", k) /\ k \in 0 .. made
        BY <1>5, <3>1, <4>1 DEF MarkDelegatedKeyGranted
      <4> QED
        BY <2>0, <4>2, RowMarked
    <3>2. CASE RevokeDelegatedKey(q)
      <4>1. UpdateActive("status", "REVOKED")
        BY <3>2 DEF RevokeDelegatedKey
      <4> QED
        BY <2>0, <4>1, RowRevoked
    <3> QED
      BY <1>12, <3>1, <3>2
  <2>3. \A p \in Clerks : ClerkMatches(p)'
    BY <1>1, <1>5, <2>0, <2>1, <2>2, ClerkKept
  <2>4. \A p \in Clerks : Provisioning(p)' => Provisioning(p) /\ p # q
    BY <1>1, <1>4, <2>0 DEF Provisioning
  <2>5. ASSUME NEW h \in headers, ~clashed, h[1] # h[2] PROVE Revoked(h[1])'
    <3>1. Revoked(h[1])
      BY <1>0, <2>5 DEF ProvisionMatches
    <3>2. PICK m \in Nat : m = h[1]
      BY <1>0, <3>1, RevokedIsNumber DEF Shape
    <3>3. Revoked(m)'
      BY <2>2, <3>1, <3>2 DEF RowsKept
    <3> QED
      BY <3>2, <3>3 DEF Revoked
  <2>6. agent = "none" => keyRows' = << >>
    <3>1. SUFFICES ASSUME agent = "none" PROVE keyRows' = << >>
      OBVIOUS
    <3>2. keyRows = << >>
      BY <1>0, <3>1 DEF ProvisionMatches
    <3>3. DOMAIN keyRows' = 1 .. 0
      BY <2>2, <3>2
    <3>4. Len(keyRows') = 0
      BY <2>2, <3>3, LenProperties DEF RowsKept
    <3> QED
      BY <2>2, <3>4, EmptySeq DEF RowsKept
  <2>7. ProvisionMatches'
    BY <1>0, <2>0, <2>2, <2>4, <2>5, <2>6 DEF ProvisionMatches, Revoked
  <2>8. Shape'
    BY <1>0, <2>0, <2>2 DEF Shape, RowsKept, Moves, DeploysAreMade
  <2> QED
    BY <2>0, <2>2, <2>3, <2>7, <2>8 DEF IInv, AccountMatches, RowsKept
<1> QED
  BY <1>6, <1>7, <1>8, <1>9, <1>10, <1>11, <1>12 DEF ClerkStep

\* A step of the chain, of the owner, or of the agent's row: no key and no request changes.
LEMMA KeysAndClerksStay ==
    ASSUME IInv, UNCHANGED <<made, vaulted, keyRows, clerk, headers, clashed>>,
           agent' \in {"none", "active", "suspended", "retired"},
           agent' # "none" \/ agent' = agent, onChain \subseteq onChain',
           deploys' \in Seq(Deploy), DeploysAreMade',
           account' \in Account, account'.keys \subseteq 1 .. made,
           account'.others <= MaxOthers, AccountMatches', account'.keys \subseteq onChain'
    PROVE  IInv'
<1>0. made \in Nat /\ Shape /\ ProvisionMatches
  BY KeysAssumption DEF IInv, Shape
<1>1. RowsKept /\ ActiveKey' = ActiveKey
  BY <1>0, RowsStay
<1>2. \A q \in Clerks : ClerkMatches(q)'
  BY <1>0, <1>1, ClerkKept
<1>3. ProvisionMatches'
  BY <1>0, <1>1 DEF ProvisionMatches, Provisioning, Revoked
<1>4. Shape'
  BY <1>0, <1>1 DEF Shape, RowsKept
<1> QED
  BY <1>1, <1>2, <1>3, <1>4 DEF IInv, RowsKept

\* The agent's row, written on its own.
LEMMA StatusPreserves ==
    ASSUME IInv, CreateAgentTool \/ RetireAgent \/ SuspendAgent \/ ReinstateAgent
    PROVE  IInv'
<1>1. /\ UNCHANGED <<made, vaulted, keyRows, account, deploys, clerk, onChain, headers, clashed>>
      /\ agent' \in {"active", "suspended", "retired"}
  BY DEF CreateAgentTool, RetireAgent, SuspendAgent, ReinstateAgent, SetStatus, keyHistory
<1>2. DeploysAreMade' /\ AccountMatches'
  BY <1>1 DEF IInv, Shape, DeploysAreMade, AccountMatches
<1> QED
  BY <1>1, <1>2, KeysAndClerksStay DEF IInv, Shape

\* A deploy that goes on to another state.
LEMMA DeployMoved ==
    ASSUME deploys \in Seq(Deploy), DeploysAreMade, UNCHANGED made, NEW d \in DOMAIN deploys,
           NEW s \in {"unsigned", "signed", "succeeded", "failed"},
           deploys' = [deploys EXCEPT ![d].state = s]
    PROVE  deploys' \in Seq(Deploy) /\ DeploysAreMade'
<1>1. PICK n \in Nat : DOMAIN deploys = 1 .. n
  BY LenProperties
<1>2. ASSUME NEW e \in 1 .. n
      PROVE  deploys'[e] \in Deploy /\ deploys'[e].key = deploys[e].key
  <2>1. deploys[e] \in Deploy
    BY <1>1
  <2>2. deploys'[e] = IF e = d THEN [deploys[e] EXCEPT !.state = s] ELSE deploys[e]
    BY <1>1
  <2>3. CASE e = d
    BY <2>1, <2>2, <2>3 DEF Deploy
  <2>4. CASE e # d
    BY <2>1, <2>2, <2>4
  <2> QED
    BY <2>3, <2>4
<1>3. DOMAIN deploys' = 1 .. n /\ deploys' = [e \in 1 .. n |-> deploys'[e]]
  BY <1>1
<1>4. deploys' \in [1 .. n -> Deploy]
  BY <1>2, <1>3
<1> QED
  BY <1>1, <1>2, <1>3, <1>4 DEF DeploysAreMade

\* A deploy that is handed out, or signed.
LEMMA OwnerPreserves ==
    ASSUME IInv, GrantInit \/ RevokeInit \/ \E d \in DOMAIN deploys : Sign(d)
    PROVE  IInv'
<1>0. /\ UNCHANGED <<agent, made, vaulted, keyRows, account, clerk, onChain, headers, clashed>>
      /\ deploys \in Seq(Deploy) /\ DeploysAreMade
  BY DEF IInv, Shape, GrantInit, RevokeInit, HandOut, Sign, keyTables, keyHistory
<1>1. deploys' \in Seq(Deploy) /\ DeploysAreMade'
  <2>1. ASSUME NEW kind \in {"grant", "revoke"}, HandOut(kind)
        PROVE  deploys' \in Seq(Deploy) /\ DeploysAreMade'
    <3> DEFINE new == [kind |-> kind, key |-> ActiveKey, state |-> "unsigned"]
               n == Len(deploys)
    <3>1. /\ new \in Deploy /\ new.key <= made /\ n \in Nat /\ DOMAIN deploys = 1 .. n
          /\ deploys' = Append(deploys, new)
      BY <1>0, <2>1, ActiveIsKnown DEF HandOut, Deploy
    <3> HIDE DEF new
    <3>2. /\ deploys' \in Seq(Deploy) /\ DOMAIN deploys' = 1 .. (n + 1)
          /\ deploys'[n + 1] = new /\ \A d \in 1 .. n : deploys'[d] = deploys[d]
      BY <1>0, <3>1
    <3> QED
      BY <1>0, <3>1, <3>2 DEF DeploysAreMade
  <2>2. ASSUME NEW d \in DOMAIN deploys, Sign(d)
        PROVE  deploys' \in Seq(Deploy) /\ DeploysAreMade'
    BY <1>0, <2>2, DeployMoved DEF Sign
  <2> QED
    BY <2>1, <2>2 DEF GrantInit, RevokeInit
<1>2. AccountMatches'
  BY <1>0 DEF IInv, AccountMatches
<1> QED
  BY <1>0, <1>1, <1>2, KeysAndClerksStay DEF IInv, Shape

\* A deploy that is executed: the session code leaves the account as the invariant has it.
LEMMA ExecutePreserves ==
    ASSUME IInv, NEW d \in DOMAIN deploys, Execute(d)
    PROVE  IInv'
<1>0. /\ UNCHANGED <<agent, made, vaulted, keyRows, clerk, headers, clashed>>
      /\ deploys \in Seq(Deploy) /\ DeploysAreMade /\ made \in Nat
      /\ account \in Account /\ account.keys \subseteq 1 .. made /\ account.others <= MaxOthers
      /\ AccountMatches
  BY KeysAssumption DEF IInv, Shape, Execute, keyTables
<1>1. deploys' \in Seq(Deploy) /\ DeploysAreMade'
  <2>1. PICK s \in {"succeeded", "failed"} : deploys' = [deploys EXCEPT ![d].state = s]
    BY DEF Execute
  <2> QED
    BY <1>0, <2>1, DeployMoved
<1>2. PICK key \in 1 .. made : key = deploys[d].key
  <2>1. deploys[d] \in Deploy /\ deploys[d].key <= made
    BY <1>0 DEF DeploysAreMade
  <2> QED
    BY <1>0, <2>1 DEF Deploy
<1>3. \/ account' = account
      \/ account' = [account EXCEPT !.keys = @ \cup {key}, !.master = 3, !.manage = 3, !.deploy = 1]
      \/ key \in account.keys /\ account' = [account EXCEPT !.keys = @ \ {key}]
  BY <1>2 DEF Execute, GrantSession, RevokeSession
<1>4. /\ account' \in Account /\ account'.keys \subseteq 1 .. made
      /\ account'.others <= MaxOthers /\ AccountMatches'
  <2>1. CASE account' = account
    BY <1>0, <2>1 DEF AccountMatches
  <2>2. CASE account' = [account EXCEPT !.keys = @ \cup {key}, !.master = 3, !.manage = 3,
                                        !.deploy = 1]
    <3>1. account.keys \cup {key} \subseteq 1 .. made /\ account.others \in Nat
      BY <1>0 DEF Account
    <3>2. /\ account'.keys = account.keys \cup {key} /\ account'.others = account.others
          /\ account'.master = 3 /\ account'.manage = 3 /\ account'.deploy = 1
      BY <1>0, <2>2 DEF Account
    <3>3. account' \in Account
      <4>1. account' = [keys |-> account.keys \cup {key}, others |-> account.others,
                        master |-> 3, manage |-> 3, deploy |-> 1]
        BY <1>0, <2>2 DEF Account
      <4>2. account.keys \cup {key} \in SUBSET Nat
        BY <1>0, <3>1
      <4> QED
        BY <3>1, <4>1, <4>2 DEF Account
    <3> QED
      BY <1>0, <3>1, <3>2, <3>3 DEF AccountMatches
  <2>3. CASE key \in account.keys /\ account' = [account EXCEPT !.keys = @ \ {key}]
    BY <1>0, <2>3 DEF AccountMatches, Account
  <2> QED
    BY <1>3, <2>1, <2>2, <2>3
<1>5. onChain \subseteq onChain' /\ account'.keys \subseteq onChain'
  BY DEF Execute
<1>6. agent \in {"none", "active", "suspended", "retired"}
  BY DEF IInv, Shape
<1> QED
  BY <1>0, <1>1, <1>4, <1>5, <1>6, KeysAndClerksStay

\* An instance that does nothing, or the environment of these variables.
LEMMA KeysStutter ==
    ASSUME IInv, UNCHANGED keyVars
    PROVE  IInv'
<1>1. UNCHANGED <<agent, made, vaulted, keyRows, account, deploys, clerk, onChain, headers,
                  clashed>>
  BY DEF keyVars, keyTables, keyHistory
<1>2. DeploysAreMade' /\ AccountMatches'
  BY <1>1 DEF IInv, Shape, DeploysAreMade, AccountMatches
<1> QED
  BY <1>1, <1>2, KeysAndClerksStay DEF IInv, Shape

\* An agent that was only created has one key, the master, and no rotation.
LEMMA InitHolds ==
    ASSUME KeysInit
    PROVE  IInv
<1>1. PICK n \in 0 .. MaxOthers :
         account = IF n = 0
                   THEN [keys |-> {}, others |-> 0, master |-> 1, manage |-> 1, deploy |-> 1]
                   ELSE [keys |-> {}, others |-> n, master |-> 3, manage |-> 3, deploy |-> 1]
  BY DEF KeysInit
<1>2. /\ account \in Account /\ account.keys = {} /\ account.others <= MaxOthers
      /\ AccountMatches
  <2>1. n \in Nat
    BY KeysAssumption
  <2>2. CASE n = 0
    BY <1>1, <2>1, <2>2, KeysAssumption DEF Account, AccountMatches
  <2>3. CASE n # 0
    BY <1>1, <2>1, <2>3 DEF Account, AccountMatches
  <2> QED
    BY <2>2, <2>3
<1>3. \A q \in Clerks : clerk[q].at = "waiting"
  BY DEF KeysInit, Waiting
<1>4. \A q \in Clerks : ClerkMatches(q) /\ ~Provisioning(q)
  BY <1>3 DEF ClerkMatches, Provisioning
<1>5. DeploysAreMade /\ deploys \in Seq(Deploy) /\ DOMAIN clerk = Clerks
  BY DEF KeysInit, DeploysAreMade
<1>6. /\ agent \in {"none", "active", "suspended", "retired"}
      /\ made \in 0 .. MaxKeys /\ vaulted = made
      /\ keyRows \in Seq(Row) /\ RowsAreMade /\ OneActive
      /\ (ActiveKey # 0 => vaulted = ActiveKey) /\ (agent = "none" => keyRows = << >>)
  <2>1. CASE agent = "none" /\ made = 0 /\ vaulted = 0 /\ keyRows = << >>
    BY <2>1, KeysAssumption
    DEF RowsAreMade, OneActive, ActiveKey, ActiveRows
  <2>2. CASE /\ agent = "active" /\ made = 1 /\ vaulted = 1
             /\ keyRows = <<[pub |-> 1, status |-> "ACTIVE", granted |-> 0]>>
    <3> DEFINE r == [pub |-> 1, status |-> "ACTIVE", granted |-> 0]
    <3>1. r \in Row /\ r.pub = 1 /\ r.granted = 0 /\ r.status = "ACTIVE"
      BY DEF Row
    <3> HIDE DEF r
    <3>2. keyRows \in Seq(Row) /\ DOMAIN keyRows = {1} /\ keyRows[1] = r
      BY <2>2, <3>1 DEF r
    <3>3. ActiveRows = {1}
      BY <3>1, <3>2 DEF ActiveRows
    <3> QED
      BY <2>2, <3>1, <3>2, <3>3, KeysAssumption
      DEF RowsAreMade, OneActive, ActiveKey
  <2> QED
    BY <2>1, <2>2 DEF KeysInit
<1>7. headers = {} /\ \A q \in Clerks : ~Provisioning(q)
  BY <1>4 DEF KeysInit
<1>8. made \in Nat /\ vaulted \in 0 .. made
  BY <1>6, KeysAssumption
<1>9. Shape
  BY <1>2, <1>5, <1>6, <1>8 DEF Shape
<1>10. ProvisionMatches
  BY <1>6, <1>7 DEF ProvisionMatches
<1> QED
  BY <1>2, <1>4, <1>6, <1>9, <1>10 DEF IInv

\* Every step of a rotation, a revocation and a crash preserves the invariant.
LEMMA StepPreserves ==
    ASSUME IInv, KeysNext
    PROVE  IInv'
<1>1. ASSUME NEW q \in Clerks, ClerkStarts(q) \/ ClerkStep(q) PROVE IInv'
  BY <1>1, StartPreserves, ClerkStepPreserves
<1>2. CASE CreateAgentTool \/ RetireAgent \/ SuspendAgent \/ ReinstateAgent
  BY <1>2, StatusPreserves
<1>3. CASE GrantInit \/ RevokeInit
  BY <1>3, OwnerPreserves
<1>4. ASSUME NEW d \in DOMAIN deploys, Sign(d) \/ Execute(d) PROVE IInv'
  BY <1>4, OwnerPreserves, ExecutePreserves
<1> QED
  BY <1>1, <1>2, <1>3, <1>4 DEF KeysNext

\* The invariant holds in every state of every behaviour.
THEOREM Invariance == KeysSpec => []IInv
<1>1. KeysInit => IInv
  BY InitHolds
<1>2. IInv /\ [KeysNext]_keyVars => IInv'
  BY StepPreserves, KeysStutter
<1> QED
  BY <1>1, <1>2, PTL DEF KeysSpec

-----------------------------------------------------------------------------
(* What follows from it *)

\* The invariant includes the type of every variable.
LEMMA TypesHold == IInv => KeysTypeOK
<1> SUFFICES ASSUME IInv PROVE KeysTypeOK
  OBVIOUS
<1>0. made \in Nat /\ Shape
  BY KeysAssumption DEF IInv, Shape
<1>1. ASSUME NEW i \in DOMAIN keyRows
      PROVE  keyRows[i] \in [pub : 1 .. made, status : {"ACTIVE", "REVOKED"}, granted : 0 .. made]
  <2>1. keyRows[i] \in Row /\ keyRows[i].pub <= made /\ keyRows[i].granted <= made
    BY <1>0 DEF Shape, RowsAreMade
  <2> QED
    BY <1>0, <2>1 DEF Row
<1>2. ASSUME NEW d \in DOMAIN deploys
      PROVE  deploys[d] \in [kind : {"grant", "revoke"}, key : 1 .. made,
                             state : {"unsigned", "signed", "succeeded", "failed"}]
  <2>1. deploys[d] \in Deploy /\ deploys[d].key <= made
    BY <1>0 DEF Shape, DeploysAreMade
  <2> QED
    BY <1>0, <2>1 DEF Deploy
<1>3. account.others \in 0 .. MaxOthers
  BY <1>0, KeysAssumption DEF Shape, Account
<1> QED
  BY <1>0, <1>1, <1>2, <1>3 DEF Shape, KeysTypeOK

\* Unless two requests were provisioning together, the ACTIVE row is the keypair in the vault
\* and a payment was signed by the key it names, or that key was revoked.
THEOREM VaultServes == KeysSpec => []VaultServesActive
<1>1. IInv => VaultServesActive
  BY TypesHold DEF IInv, ProvisionMatches, VaultServesActive
<1> QED
  BY <1>1, Invariance, PTL

\* The master key can always manage the account, and no key of an agent can on its own.
THEOREM MasterAlwaysManages == KeysSpec => []NoKeyManagesAlone
<1>1. IInv => NoKeyManagesAlone
  <2> SUFFICES ASSUME IInv PROVE NoKeyManagesAlone
    OBVIOUS
  <2>1. CASE /\ account.keys = {} /\ account.others = 0
             /\ account.master = 1 /\ account.manage = 1 /\ account.deploy = 1
    <3>1. Delegated = 0
      BY <2>1, FS_EmptySet DEF Delegated
    <3> QED
      BY <2>1, <3>1 DEF NoKeyManagesAlone
  <2>2. CASE account.master = 3 /\ account.manage = 3 /\ account.deploy = 1
    BY <2>2 DEF NoKeyManagesAlone
  <2> QED
    BY <2>1, <2>2 DEF IInv, AccountMatches
<1> QED
  BY <1>1, Invariance, PTL
-----------------------------------------------------------------------------
(* Promotions *)

\* A grant that is being confirmed is for the ACTIVE key, unless that key was inserted since.
GrantsMatch ==
    \A q \in Clerks :
        Confirming(q) => clerk[q].pub = ActiveKey \/ ActiveKey = 0 \/ ActiveKey \in overtook

Evidence == GrantsMatch /\ PromotionsAreEvidenced

\* Rows that stay: a confirmation goes on with its key, or starts with the ACTIVE one.
LEMMA EvidenceStays ==
    ASSUME Evidence, UNCHANGED <<keyRows, overtook>>, onChain \subseteq onChain',
           \A p \in Clerks : Confirming(p)' =>
              (Confirming(p) /\ clerk'[p].pub = clerk[p].pub) \/ clerk'[p].pub = ActiveKey
    PROVE  Evidence'
<1>1. ActiveKey' = ActiveKey
  BY DEF ActiveKey, ActiveRows
<1>2. GrantsMatch'
  BY <1>1 DEF Evidence, GrantsMatch
<1>3. PromotionsAreEvidenced'
  BY DEF Evidence, PromotionsAreEvidenced
<1> QED
  BY <1>2, <1>3 DEF Evidence

\* A step that writes a row, after which its request confirms nothing.
LEMMA EvidenceMoves ==
    ASSUME IInv, Evidence, NEW q \in Clerks,
           GrantDelegatedKey(q) \/ MarkDelegatedKeyGranted(q) \/ RevokeDelegatedKey(q)
    PROVE  Evidence'
<1>0. /\ UNCHANGED <<made, onChain>> /\ Moves(q, Served) /\ DOMAIN clerk = Clerks
      /\ keyRows \in Seq(Row) /\ OneActive /\ made \in Nat
  BY KeysAssumption
  DEF IInv, Shape, GrantDelegatedKey, MarkDelegatedKeyGranted, RevokeDelegatedKey, keyHistory
<1>1. \A p \in Clerks : Confirming(p)' => Confirming(p) /\ clerk'[p] = clerk[p]
  BY <1>0 DEF Moves, Served, Confirming
<1>2. CASE UNCHANGED <<keyRows, overtook>>
  BY <1>0, <1>1, <1>2, EvidenceStays
<1>3. CASE GrantDelegatedKey(q) /\ ActiveKey = 0
  <2>1. PICK k \in 1 .. made : k = clerk[q].pub
    BY <1>3 DEF IInv, ClerkMatches, GrantDelegatedKey
  <2>2. /\ keyRows' = Append(keyRows, [pub |-> k, status |-> "ACTIVE", granted |-> 0])
        /\ overtook \subseteq overtook'
        /\ (\E p \in Clerks : Confirming(p)) => k \in overtook'
    BY <1>3, <2>1 DEF GrantDelegatedKey
  <2>3. /\ ActiveKey' = k
        /\ \A i \in DOMAIN keyRows' : keyRows'[i].granted # 0
              => i \in DOMAIN keyRows /\ keyRows'[i] = keyRows[i]
    BY <1>0, <1>3, <2>2, RowInserted
  <2>4. GrantsMatch'
    BY <1>1, <2>2, <2>3 DEF GrantsMatch
  <2>5. PromotionsAreEvidenced'
    BY <1>0, <2>2, <2>3 DEF Evidence, PromotionsAreEvidenced
  <2> QED
    BY <2>4, <2>5 DEF Evidence
<1>4. CASE MarkDelegatedKeyGranted(q)
  <2>1. PICK k \in 1 .. made : k = clerk[q].pub /\ k \in onChain
    BY <1>4 DEF IInv, ClerkMatches, MarkDelegatedKeyGranted
  <2>2. k = ActiveKey \/ ActiveKey = 0 \/ ActiveKey \in overtook
    BY <1>4, <2>1 DEF Evidence, GrantsMatch, Confirming, MarkDelegatedKeyGranted
  <2>3. UpdateActive("granted", k) /\ k \in 0 .. made /\ UNCHANGED overtook
    BY <1>0, <1>4, <2>1 DEF MarkDelegatedKeyGranted, keyHistory
  <2>4. /\ ActiveKey' = ActiveKey /\ DOMAIN keyRows' = DOMAIN keyRows
        /\ \A i \in DOMAIN keyRows :
              keyRows'[i] = keyRows[i]
              \/ (i \in ActiveRows /\ keyRows'[i].granted = k /\ keyRows'[i].pub = ActiveKey)
    BY <1>0, <2>3, RowMarked
  <2>5. ActiveRows # {} => ActiveKey # 0
    BY <1>0, ActiveRow
  <2>6. PromotionsAreEvidenced'
    BY <1>0, <2>1, <2>2, <2>3, <2>4, <2>5 DEF Evidence, PromotionsAreEvidenced
  <2>7. GrantsMatch'
    BY <1>1, <2>3, <2>4 DEF Evidence, GrantsMatch
  <2> QED
    BY <2>6, <2>7 DEF Evidence
<1>5. CASE RevokeDelegatedKey(q)
  <2>1. UpdateActive("status", "REVOKED") /\ UNCHANGED overtook
    BY <1>5 DEF RevokeDelegatedKey, keyHistory
  <2>2. /\ ActiveKey' = 0 /\ DOMAIN keyRows' = DOMAIN keyRows
        /\ \A i \in DOMAIN keyRows : /\ keyRows'[i].granted = keyRows[i].granted
                                     /\ keyRows'[i].pub = keyRows[i].pub
    BY <1>0, <2>1, RowRevoked
  <2>3. PromotionsAreEvidenced'
    BY <1>0, <2>1, <2>2 DEF Evidence, PromotionsAreEvidenced
  <2>4. GrantsMatch'
    BY <2>2 DEF GrantsMatch
  <2> QED
    BY <2>3, <2>4 DEF Evidence
<1> QED
  BY <1>2, <1>3, <1>4, <1>5 DEF GrantDelegatedKey

\* Every other step of a request.
LEMMA EvidenceOfRequests ==
    ASSUME IInv, Evidence, NEW q \in Clerks, ClerkStarts(q) \/ ClerkStep(q)
    PROVE  Evidence'
<1> USE DEF keyTables, keyHistory
<1>0. DOMAIN clerk = Clerks /\ ClerkMatches(q)
  BY DEF IInv, Shape
<1>1. ASSUME NEW next, Moves(q, next), UNCHANGED <<keyRows, overtook, onChain>>,
             \/ next.at \notin {"readDeploy", "readAccount", "markGranted"}
             \/ next.pub = ActiveKey
             \/ Confirming(q) /\ next.pub = clerk[q].pub
             \/ next.at \in {"readDeploy", "readAccount"} /\ next.kind # "grant"
      PROVE  Evidence'
  <2>1. clerk'[q] = next /\ \A p \in Clerks \ {q} : clerk'[p] = clerk[p]
    BY <1>0, <1>1 DEF Moves
  <2> QED
    BY <1>1, <2>1, EvidenceStays DEF Confirming
<1>2. CASE ClerkStarts(q)
  <2>1. UNCHANGED <<keyRows, overtook, onChain>>
    BY <1>2
    DEF ClerkStarts, RegisterAgent, AskForKey, RevokeAgentDelegation, Authenticate, Confirm
  <2>2. CASE \/ Moves(q, Served)
             \/ \E step \in {"generate", "revokeRow", "checkSuspended"} :
                   Moves(q, [at |-> step])
    <3>1. Served.at = "served"
      BY DEF Served
    <3> QED
      BY <1>1, <2>1, <2>2, <3>1
  <2>3. ASSUME NEW kind \in {"grant", "revoke"}, NEW d \in DOMAIN deploys,
               Moves(q, [at |-> "readDeploy", kind |-> kind, pub |-> ActiveKey, deploy |-> d])
        PROVE  Evidence'
    BY <1>1, <2>1, <2>3
  <2>4. ASSUME NEW kind \in {"grant", "revoke"}, NEW d \in DOMAIN deploys, Confirm(q, kind, d)
        PROVE  Evidence'
    BY <2>2, <2>3, <2>4 DEF Confirm
  <2>5. CASE \/ RegisterAgent(q) \/ AskForKey(q)
             \/ RevokeAgentDelegation(q) \/ Authenticate(q)
    BY <2>2, <2>5 DEF RegisterAgent, AskForKey, RevokeAgentDelegation, Authenticate
  <2> QED
    BY <1>2, <2>4, <2>5 DEF ClerkStarts
<1>3. CASE ReadDeploy(q) \/ ReadAccount(q)
  <2>1. PICK c \in Confirmation : c = clerk[q]
    BY <1>0, <1>3 DEF ClerkMatches, ReadDeploy, ReadAccount
  <2>2. UNCHANGED <<keyRows, overtook, onChain>> /\ c.at \in {"readDeploy", "readAccount"}
    BY <1>3, <2>1 DEF ReadDeploy, ReadAccount
  <2> DEFINE b == [c EXCEPT !.at = "readAccount"]
  <2>3. b.pub = c.pub /\ b.kind = c.kind /\ b.at = "readAccount"
    BY DEF Confirmation
  <2> HIDE DEF b
  <2>4. PICK next : /\ Moves(q, next)
                    /\ \/ next.at \in {"served", "revokeRow"}
                       \/ next.at = "markGranted" /\ next.pub = c.pub /\ c.kind = "grant"
                       \/ next = b
    BY <1>3, <2>1, <2>3 DEF b, ReadDeploy, ReadAccount, Served
  <2> QED
    BY <1>1, <2>1, <2>2, <2>3, <2>4 DEF Confirming
<1>4. CASE \/ GenerateKeypair(q) \/ CheckSuspended(q) \/ GetClientSigner(q) \/ SignHeader(q)
           \/ StopClerk(q)
  <2>1. UNCHANGED <<keyRows, overtook, onChain>>
    BY <1>4 DEF GenerateKeypair, CheckSuspended, GetClientSigner, SignHeader, StopClerk
  <2>2. PICK next : Moves(q, next) /\ next.at \in {"served", "insertRow", "getSigner", "sign"}
    BY <1>4
    DEF GenerateKeypair, CheckSuspended, GetClientSigner, SignHeader, StopClerk, Served
  <2> QED
    BY <1>1, <2>1, <2>2
<1> QED
  BY <1>2, <1>3, <1>4, EvidenceMoves DEF ClerkStep

\* A row is promoted on a key that the master account had, and on its own unless it was
\* inserted while the grant was being confirmed.
THEOREM PromotionsHaveEvidence == KeysSpec => []PromotionsAreEvidenced
<1>1. KeysInit => Evidence
  <2> SUFFICES ASSUME KeysInit PROVE Evidence
    OBVIOUS
  <2>1. \A q \in Clerks : ~Confirming(q)
    BY DEF KeysInit, Waiting, Confirming
  <2>2. \A i \in DOMAIN keyRows : keyRows[i].granted = 0
    BY DEF KeysInit
  <2> QED
    BY <2>1, <2>2 DEF Evidence, GrantsMatch, PromotionsAreEvidenced
<1>2. IInv /\ Evidence /\ [KeysNext]_keyVars => Evidence'
  <2> SUFFICES ASSUME IInv, Evidence, [KeysNext]_keyVars PROVE Evidence'
    OBVIOUS
  <2>1. ASSUME NEW q \in Clerks, ClerkStarts(q) \/ ClerkStep(q) PROVE Evidence'
    BY <2>1, EvidenceOfRequests
  <2>2. ASSUME UNCHANGED <<keyRows, overtook, clerk>>, onChain \subseteq onChain'
        PROVE  Evidence'
    BY <2>2, EvidenceStays DEF Confirming
  <2>3. CASE CreateAgentTool \/ RetireAgent \/ SuspendAgent \/ ReinstateAgent
    BY <2>2, <2>3
    DEF CreateAgentTool, RetireAgent, SuspendAgent, ReinstateAgent, SetStatus, keyHistory
  <2>4. CASE GrantInit \/ RevokeInit
    BY <2>2, <2>4 DEF GrantInit, RevokeInit, HandOut, keyTables, keyHistory
  <2>5. ASSUME NEW d \in DOMAIN deploys, Sign(d) \/ Execute(d) PROVE Evidence'
    BY <2>2, <2>5 DEF Sign, Execute, keyTables, keyHistory
  <2>6. CASE UNCHANGED keyVars
    BY <2>2, <2>6 DEF keyVars, keyTables, keyHistory
  <2> QED
    BY <2>1, <2>3, <2>4, <2>5, <2>6 DEF KeysNext
<1>3. Evidence => PromotionsAreEvidenced
  BY DEF Evidence
<1> QED
  BY <1>1, <1>2, <1>3, Invariance, PTL DEF KeysSpec
=============================================================================
