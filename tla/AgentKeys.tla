------------------------------- MODULE AgentKeys -------------------------------
(***************************************************************************)
(* The delegated key of an agent.  Its private half is the one blob the    *)
(* vault keeps for the agent, its public half a row of delegated_keys; the *)
(* owner of the master account signs deploys that add the key to that      *)
(* account or remove it, in the browser and whenever the owner likes; and  *)
(* the console promotes or revokes the row on what it then reads from the  *)
(* chain.  Payments of the agent are signed with the blob.                 *)
(*                                                                         *)
(* One agent and one master account.  Keypairs are numbered in the order   *)
(* they are generated; 0 is no key.                                        *)
(***************************************************************************)
EXTENDS Naturals, Sequences, FiniteSets

CONSTANTS
    Clerks,       \* requests and payments, each of which is made once
    MaxKeys,      \* bound on the keypairs generated
    MaxDeploys,   \* bound on the deploys handed out for signing
    MaxOthers     \* bound on the other agents whose keys the master account has

ASSUME KeysAssumption ==
    /\ MaxKeys \in Nat \ {0}     \* a registered agent starts with a key
    /\ MaxDeploys \in Nat /\ MaxOthers \in Nat

VARIABLES
    agent,        \* agents.status, "none" before the row
    made,         \* keypairs generated so far
    vaulted,      \* agent_vault_keys: the keypair the vault holds
    keyRows,      \* delegated_keys, in the order they were inserted; granted holds, for
                  \* a granted row, the key that was verified (history), else 0
    account,      \* the master account: associated keys, its own weight, thresholds,
                  \* and how many keys of other agents are associated too
    deploys,      \* deploys handed out, and what became of them
    clerk,        \* clerk[q]: where request q stands and what it has read
    onChain,      \* history: keys that were associated at some time
    headers,      \* history: <<claimed, used>>: whose key a payment named, which key signed it
    clashed,      \* history: two requests were provisioning a key together
    overtook      \* history: keys whose row was inserted during a confirmation of a grant

keyTables == <<agent, made, vaulted, keyRows>>
keyHistory == <<onChain, headers, clashed, overtook>>
keyVars == <<keyTables, account, deploys, clerk, keyHistory>>

Waiting == [at |-> "waiting"]
Served == [at |-> "served"]
Moves(q, next) == clerk' = [clerk EXCEPT ![q] = next]

ActiveRows == {i \in DOMAIN keyRows : keyRows[i].status = "ACTIVE"}
ActiveKey == IF ActiveRows = {} THEN 0 ELSE keyRows[CHOOSE i \in ActiveRows : TRUE].pub
ActiveGranted == \E i \in ActiveRows : keyRows[i].granted # 0
\* UPDATE delegated_keys ... WHERE agent_id AND status = 'ACTIVE'.
UpdateActive(f, v) ==
    keyRows' = [i \in DOMAIN keyRows |-> IF i \in ActiveRows THEN [keyRows[i] EXCEPT ![f] = v]
                                         ELSE keyRows[i]]

\* No agent yet, or one that was registered with its first key.
KeysInit ==
    /\ \/ agent = "none" /\ made = 0 /\ vaulted = 0 /\ keyRows = << >>
       \/ /\ agent = "active" /\ made = 1 /\ vaulted = 1
          /\ keyRows = <<[pub |-> 1, status |-> "ACTIVE", granted |-> 0]>>
    /\ \E n \in 0..MaxOthers :
           account = IF n = 0
                     THEN [keys |-> {}, others |-> 0, master |-> 1, manage |-> 1, deploy |-> 1]
                     ELSE [keys |-> {}, others |-> n, master |-> 3, manage |-> 3, deploy |-> 1]
    /\ deploys = << >>
    /\ clerk = [q \in Clerks |-> Waiting]
    /\ onChain = {} /\ headers = {} /\ clashed = FALSE /\ overtook = {}
-----------------------------------------------------------------------------
(* The agent's row.  Retiring leaves a retired agent alone; suspending and *)
(* reinstating write whatever the status is.                               *)

RegisterAgent(q) ==
    /\ clerk[q] = Waiting
    /\ agent = "none"
    /\ agent' = "active"
    /\ Moves(q, [at |-> "generate"])
    /\ UNCHANGED <<made, vaulted, keyRows, account, deploys, keyHistory>>

\* The tool of the MCP surface registers an agent without a key.
CreateAgentTool ==
    /\ agent = "none"
    /\ agent' = "active"
    /\ UNCHANGED <<made, vaulted, keyRows, account, deploys, clerk, keyHistory>>

\* The row of a registered agent is set to a status, whatever it was.
SetStatus(status) ==
    /\ agent # "none"
    /\ agent' = status
    /\ UNCHANGED <<made, vaulted, keyRows, account, deploys, clerk, keyHistory>>

RetireAgent == SetStatus("retired")
SuspendAgent == SetStatus("suspended")
ReinstateAgent == SetStatus("active")
-----------------------------------------------------------------------------
(* Provisioning: at registration and, for an agent without a key, on       *)
(* request.  The keypair replaces the blob before its row is inserted.     *)

Provisioning(q) == clerk[q].at \in {"generate", "insertRow"}

\* Mutant of AskForKey: the key the agent has is not looked for.
AskForKeyUnread(q) ==
    /\ clerk[q] = Waiting
    /\ agent # "none"
    /\ clashed' = (clashed \/ \E p \in Clerks : Provisioning(p))
    /\ Moves(q, [at |-> "generate"])
    /\ UNCHANGED <<keyTables, account, deploys, onChain, headers, overtook>>

AskForKey(q) ==
    /\ clerk[q] = Waiting
    /\ agent # "none"
    /\ Moves(q, IF ActiveKey # 0 THEN Served ELSE [at |-> "generate"])
    /\ clashed' = (clashed \/ (ActiveKey = 0 /\ \E p \in Clerks : Provisioning(p)))
    /\ UNCHANGED <<keyTables, account, deploys, onChain, headers, overtook>>

GenerateKeypair(q) ==
    /\ clerk[q].at = "generate"
    /\ made < MaxKeys
    /\ made' = made + 1 /\ vaulted' = made + 1
    /\ Moves(q, [at |-> "insertRow", pub |-> made + 1])
    /\ UNCHANGED <<agent, keyRows, account, deploys, keyHistory>>

\* A grant is being confirmed: the key was read, the row is yet to be marked.
Confirming(q) ==
    \/ clerk[q].at \in {"readDeploy", "readAccount"} /\ clerk[q].kind = "grant"
    \/ clerk[q].at = "markGranted"

\* The partial UNIQUE index refuses a second ACTIVE row; the blob stays replaced.
GrantDelegatedKey(q) ==
    LET pub == clerk[q].pub IN
    /\ clerk[q].at = "insertRow"
    /\ IF ActiveKey # 0 THEN UNCHANGED <<keyRows, overtook>>
       ELSE /\ keyRows' = Append(keyRows, [pub |-> pub, status |-> "ACTIVE", granted |-> 0])
            /\ overtook' = IF \E p \in Clerks : Confirming(p) THEN overtook \cup {pub}
                           ELSE overtook
    /\ Moves(q, Served)
    /\ UNCHANGED <<agent, made, vaulted, account, deploys, onChain, headers, clashed>>
-----------------------------------------------------------------------------
(* The chain: a grant or a revoke deploy for the ACTIVE key is handed out, *)
(* and perhaps signed by the owner and executed, any time later.  Managing *)
(* keys takes the account's key-management threshold.                      *)

HandOut(kind) ==
    /\ ActiveKey # 0
    /\ Len(deploys) < MaxDeploys
    /\ deploys' = Append(deploys, [kind |-> kind, key |-> ActiveKey, state |-> "unsigned"])
    /\ UNCHANGED <<keyTables, account, clerk, keyHistory>>

GrantInit == HandOut("grant")
RevokeInit == HandOut("revoke")

\* Mutant of GrantSession: the weight of the master key is left alone.
GrantSessionKeepsWeight(key) ==
    [ok |-> key \notin account.keys,
     to |-> [account EXCEPT !.keys = @ \cup {key}, !.manage = 3, !.deploy = 1]]

\* The session code reverts when a call of it is refused, and then changes nothing.
GrantSession(key) ==
    [ok |-> key \notin account.keys,
     to |-> [account EXCEPT !.keys = @ \cup {key}, !.master = 3, !.manage = 3, !.deploy = 1]]

RevokeSession(key) ==
    [ok |-> key \in account.keys, to |-> [account EXCEPT !.keys = @ \ {key}]]

Sign(d) ==
    /\ deploys[d].state = "unsigned"
    /\ deploys' = [deploys EXCEPT ![d].state = "signed"]
    /\ UNCHANGED <<keyTables, account, clerk, keyHistory>>

Execute(d) ==
    LET run == IF deploys[d].kind = "grant" THEN GrantSession(deploys[d].key)
               ELSE RevokeSession(deploys[d].key)
        ok == run.ok /\ account.master >= account.manage IN
    /\ deploys[d].state = "signed"
    /\ deploys' = [deploys EXCEPT ![d].state = IF ok THEN "succeeded" ELSE "failed"]
    /\ account' = IF ok THEN run.to ELSE account
    /\ onChain' = onChain \cup account'.keys
    /\ UNCHANGED <<keyTables, clerk, headers, clashed, overtook>>
-----------------------------------------------------------------------------
(* Confirming a grant or a revoke: the ACTIVE row is read, the deploy the  *)
(* caller names is read, then the master account, then the row is written. *)
(* An RPC that fails or is not final ends the request.                     *)

Confirm(q, kind, d) ==
    /\ clerk[q] = Waiting
    /\ Moves(q, IF ActiveKey = 0 \/ (kind = "grant" /\ ActiveGranted) THEN Served
                ELSE [at |-> "readDeploy", kind |-> kind, pub |-> ActiveKey, deploy |-> d])
    /\ UNCHANGED <<keyTables, account, deploys, keyHistory>>

ReadDeploy(q) ==
    LET c == clerk[q] IN
    /\ c.at = "readDeploy"
    /\ Moves(q, IF deploys[c.deploy].state = "succeeded" THEN [c EXCEPT !.at = "readAccount"]
                ELSE Served)
    /\ UNCHANGED <<keyTables, account, deploys, keyHistory>>

\* Mutant of Verified: an executed deploy is proof enough.
VerifiedByDeploy(c) == TRUE

Verified(c) == IF c.kind = "grant" THEN c.pub \in account.keys ELSE c.pub \notin account.keys

ReadAccount(q) ==
    LET c == clerk[q] IN
    /\ c.at = "readAccount"
    /\ Moves(q, IF Verified(c)
                THEN [at |-> IF c.kind = "grant" THEN "markGranted" ELSE "revokeRow", pub |-> c.pub]
                ELSE Served)
    /\ UNCHANGED <<keyTables, account, deploys, keyHistory>>

\* Whichever row is ACTIVE by now is marked.
MarkDelegatedKeyGranted(q) ==
    /\ clerk[q].at = "markGranted"
    /\ UpdateActive("granted", clerk[q].pub)
    /\ Moves(q, Served)
    /\ UNCHANGED <<agent, made, vaulted, account, deploys, keyHistory>>

RevokeDelegatedKey(q) ==
    /\ clerk[q].at = "revokeRow"
    /\ UpdateActive("status", "REVOKED")
    /\ Moves(q, Served)
    /\ UNCHANGED <<agent, made, vaulted, account, deploys, keyHistory>>

\* POST revoke-delegation: suspend, revoke the row; the abort of decisions follows.
RevokeAgentDelegation(q) ==
    /\ clerk[q] = Waiting
    /\ agent # "none"
    /\ agent' = "suspended"
    /\ Moves(q, [at |-> "revokeRow"])
    /\ UNCHANGED <<made, vaulted, keyRows, account, deploys, keyHistory>>
-----------------------------------------------------------------------------
(* A payment: the agent authenticates, the guard looks whether it is       *)
(* suspended, the signer reads the ACTIVE key and the vault signs with its *)
(* blob; an agent without a key is signed for by the custodial key.        *)

Authenticate(q) ==
    /\ clerk[q] = Waiting
    /\ agent = "active"
    /\ Moves(q, [at |-> "checkSuspended"])
    /\ UNCHANGED <<keyTables, account, deploys, keyHistory>>

CheckSuspended(q) ==
    /\ clerk[q].at = "checkSuspended"
    /\ Moves(q, IF agent = "suspended" THEN Served ELSE [at |-> "getSigner"])
    /\ UNCHANGED <<keyTables, account, deploys, keyHistory>>

GetClientSigner(q) ==
    /\ clerk[q].at = "getSigner"
    /\ Moves(q, [at |-> "sign", pub |-> ActiveKey])
    /\ UNCHANGED <<keyTables, account, deploys, keyHistory>>

SignHeader(q) ==
    /\ clerk[q].at = "sign"
    /\ headers' = headers \cup {<<clerk[q].pub, IF clerk[q].pub = 0 THEN 0 ELSE vaulted>>}
    /\ Moves(q, Served)
    /\ UNCHANGED <<keyTables, account, deploys, onChain, clashed, overtook>>
-----------------------------------------------------------------------------
\* A statement or a call fails, or the instance stops between two steps.
StopClerk(q) ==
    /\ clerk[q] \notin {Waiting, Served}
    /\ Moves(q, Served)
    /\ UNCHANGED <<keyTables, account, deploys, keyHistory>>

ClerkStep(q) ==
    \/ GenerateKeypair(q) \/ GrantDelegatedKey(q)
    \/ ReadDeploy(q) \/ ReadAccount(q) \/ MarkDelegatedKeyGranted(q) \/ RevokeDelegatedKey(q)
    \/ CheckSuspended(q) \/ GetClientSigner(q) \/ SignHeader(q) \/ StopClerk(q)

ClerkStarts(q) ==
    \/ RegisterAgent(q) \/ AskForKey(q) \/ RevokeAgentDelegation(q) \/ Authenticate(q)
    \/ \E kind \in {"grant", "revoke"}, d \in DOMAIN deploys : Confirm(q, kind, d)

KeysNext ==
    \/ \E q \in Clerks : ClerkStarts(q) \/ ClerkStep(q)
    \/ CreateAgentTool \/ RetireAgent \/ SuspendAgent \/ ReinstateAgent
    \/ GrantInit \/ RevokeInit
    \/ \E d \in DOMAIN deploys : Sign(d) \/ Execute(d)

KeysSpec == KeysInit /\ [][KeysNext]_keyVars
-----------------------------------------------------------------------------
KeysTypeOK ==
    /\ agent \in {"none", "active", "suspended", "retired"}
    /\ made \in 0..MaxKeys /\ vaulted \in 0..made
    /\ \A i \in DOMAIN keyRows :
           keyRows[i] \in [pub : 1..made, status : {"ACTIVE", "REVOKED"}, granted : 0..made]
    /\ account.keys \subseteq 1..made /\ account.others \in 0..MaxOthers
    /\ \A d \in DOMAIN deploys :
           deploys[d] \in [kind : {"grant", "revoke"}, key : 1..made,
                           state : {"unsigned", "signed", "succeeded", "failed"}]

Revoked(k) == \E i \in DOMAIN keyRows : keyRows[i].pub = k /\ keyRows[i].status = "REVOKED"

(* The key a payment names is the key that signed it, and the ACTIVE row is*)
(* the keypair in the vault, as long as no two requests were provisioning  *)
(* together; a payment was then signed by another key only after the key it*)
(* names was revoked.  The blob and the row are written by two statements, *)
(* and the signer reads them in the opposite order.                        *)
VaultServesActive ==
    /\ KeysTypeOK
    /\ \/ clashed
       \/ /\ ActiveKey # 0 => vaulted = ActiveKey
          /\ \A h \in headers : h[1] # h[2] => Revoked(h[1])

(* A row is promoted to granted on evidence: its own key was read on the   *)
(* master account.  Excepted is a row that was inserted while a grant was  *)
(* being confirmed, which may get the promotion of the key before it; but  *)
(* that key at least was on the account.                                   *)
PromotionsAreEvidenced ==
    \A i \in DOMAIN keyRows :
        LET k == keyRows[i].granted IN
        k # 0 => k \in onChain /\ (k = keyRows[i].pub \/ keyRows[i].pub \in overtook)

(* What the route says of itself, "NO BLIND PROMOTE": a promoted key is one*)
(* that was associated with the master account (delegation-routes.ts:192). *)
(* It does not hold: the row is marked by its status, not by its key.      *)
NoBlindPromote ==
    \A i \in DOMAIN keyRows : keyRows[i].granted # 0 => keyRows[i].pub \in onChain

Delegated == Cardinality(account.keys) + account.others

(* Whatever grants and revokes are executed, for however many keys and in  *)
(* whatever order the owner signs them: the master key can always manage   *)
(* the account, and no delegated key can on its own (main.rs:12).          *)
NoKeyManagesAlone ==
    /\ account.master >= account.manage
    /\ account.deploy <= account.manage
    /\ Delegated > 0 => account.manage > 1
=============================================================================
