-------------------------------- MODULE Members --------------------------------
(***************************************************************************)
(* Who may act for an organisation: memberships with a role, invitations   *)
(* and machine keys.  A request resolves its principal, reads what its     *)
(* guards need, and writes, each in a statement of its own; other requests *)
(* run in between, and a request may end after any statement.              *)
(*                                                                         *)
(* Every statement names its organisation, so one organisation is enough;  *)
(* a user is named by the email its account has.  Listings read and are    *)
(* left out.                                                               *)
(***************************************************************************)
EXTENDS Naturals, Sequences, FiniteSets

CONSTANTS
    Users,
    Keys,          \* sk_ machine keys, in use or still to be issued
    Desk,          \* requests, each of which is made once
    MaxInvites     \* bound on the invitations created

ASSUME MembersAssumption ==
    /\ IsFiniteSet(Desk)
    /\ "absent" \notin Keys

VARIABLES
    role,          \* memberships: role[u], "none" without a row
    invites,       \* invitations, in the order they were created
    key,           \* api_keys: key[k] is "none", "live" or "revoked"
    adminKey,      \* orgs.admin_key_hash: the key the organisation was created with
    desk,          \* desk[q]: where request q stands
    joins,         \* history: joins[u], memberships of u made by accepting an invitation
    raced          \* history: a guarded write met another request between count and write

orgTables == <<role, invites, key, adminKey>>
memberVars == <<orgTables, desk, joins, raced>>

Absent == "absent"     \* orgs has no row yet
MemberRoles == {"member", "admin", "owner"}
Created == adminKey # Absent
Founded == Created /\ key[adminKey] # "none"
Owners == {u \in Users : role[u] = "owner"}
Rank(r) == CASE r = "owner" -> 2 [] r = "admin" -> 1 [] r = "member" -> 0

Unused == [at |-> "unused"]
Heard == [at |-> "answered"]
Turns(q, next) == desk' = [desk EXCEPT ![q] = next]

\* No organisation yet; one with some owners and perhaps an invitation that is out; or one of
\* the demo, which createOrg gives an admin key and neither a member nor a key row.
MembersInit ==
    /\ \/ /\ adminKey = Absent /\ invites = << >>
          /\ role = [u \in Users |-> "none"] /\ key = [k \in Keys |-> "none"]
       \/ /\ adminKey \in Keys
          /\ \E F \in (SUBSET Users) \ {{}} :
                 role = [u \in Users |-> IF u \in F THEN "owner" ELSE "none"]
          /\ key = [k \in Keys |-> IF k = adminKey THEN "live" ELSE "none"]
          /\ invites \in {<< >>} \cup
                 {<<[user |-> u, role |-> r, used |-> FALSE]>> :
                      u \in {x \in Users : role[x] = "none"}, r \in {"member", "admin"}}
       \/ /\ adminKey \in Keys /\ invites = << >>
          /\ role = [u \in Users |-> "none"] /\ key = [k \in Keys |-> "none"]
    /\ desk = [q \in Desk |-> Unused]
    /\ joins = [u \in Users |-> 0] /\ raced = FALSE

\* POST /v1/orgs: organisation, owner and first key in one transaction.
CreateOrg(u, k) ==
    /\ ~Created
    /\ adminKey' = k
    /\ role' = [role EXCEPT ![u] = "owner"]
    /\ key' = [key EXCEPT ![k] = "live"]
    /\ UNCHANGED <<invites, desk, joins, raced>>
-----------------------------------------------------------------------------
(* The principal of a request: a user with a session, or a machine key,    *)
(* which acts as an admin.  late is history: the key was revoked before    *)
(* the request arrived.                                                    *)

OwnerOps == {"invite", "setRole", "remove"}
AdminOps == {"issueKey", "revokeKey"}
Floor(op) == IF op \in OwnerOps THEN "owner" ELSE "admin"

\* What an operation is about: a user and a role, or a key.
Targets(op) ==
    CASE op = "invite" -> Users \X {"member", "admin"}
      [] op = "setRole" -> Users \X MemberRoles
      [] op = "remove" -> Users \X {"none"}
      [] op \in AdminOps -> Keys

\* The first step of an operation once its principal has the role it needs.
Opens(op) == IF op = "invite" THEN "readInvitee" ELSE IF op \in OwnerOps THEN "readRole" ELSE op

UserAsks(q, u, op, x) ==
    /\ desk[q] = Unused
    /\ role[u] # "none" /\ Rank(role[u]) >= Rank(Floor(op))
    /\ Turns(q, [at |-> Opens(op), on |-> x])
    /\ UNCHANGED <<orgTables, joins, raced>>

KeyAsks(q, k, op, x) ==
    /\ desk[q] = Unused
    /\ op \in AdminOps
    /\ key[k] # "none" \/ adminKey = k
    /\ Turns(q, [at |-> "findKey", by |-> k, op |-> op, on |-> x, late |-> key[k] = "revoked"])
    /\ UNCHANGED <<orgTables, joins, raced>>

Admitted(d) == [at |-> Opens(d.op), on |-> d.on, late |-> d.late]

FindKey(q) ==
    LET d == desk[q] IN
    /\ d.at = "findKey"
    /\ Turns(q, IF key[d.by] = "live" THEN Admitted(d) ELSE [d EXCEPT !.at = "knownKey"])
    /\ UNCHANGED <<orgTables, joins, raced>>

\* Mutant of KnownKey: a key without a live row falls back to orgs.admin_key_hash.
KnownKeyFallsBack(q) ==
    LET d == desk[q] IN
    /\ d.at = "knownKey"
    /\ Turns(q, IF adminKey = d.by THEN Admitted(d) ELSE Heard)
    /\ UNCHANGED <<orgTables, joins, raced>>

\* A key that has any row is not looked up among the organisations' admin keys.
KnownKey(q) ==
    LET d == desk[q] IN
    /\ d.at = "knownKey"
    /\ Turns(q, IF key[d.by] = "none" /\ adminKey = d.by THEN Admitted(d) ELSE Heard)
    /\ UNCHANGED <<orgTables, joins, raced>>
-----------------------------------------------------------------------------
(* Invitations.                                                            *)

ReadInvitee(q) ==
    LET d == desk[q] IN
    /\ d.at = "readInvitee"
    /\ Turns(q, IF role[d.on[1]] # "none" THEN Heard ELSE [d EXCEPT !.at = "createInvitation"])
    /\ UNCHANGED <<orgTables, joins, raced>>

CreateInvitation(q) ==
    LET d == desk[q] IN
    /\ d.at = "createInvitation"
    /\ Len(invites) < MaxInvites
    /\ invites' = Append(invites, [user |-> d.on[1], role |-> d.on[2], used |-> FALSE])
    /\ Turns(q, Heard)
    /\ UNCHANGED <<role, key, adminKey, joins, raced>>

\* Mutant of Live: an accepted invitation is accepted again.
LiveOrUsed(i) == i \in DOMAIN invites

Live(i) == i \in DOMAIN invites /\ ~invites[i].used

\* u presents the token; an invitation of somebody else is spent and refused.
ConsumeInvitation(q, u, i) ==
    /\ desk[q] = Unused
    /\ Live(i)
    /\ invites' = [invites EXCEPT ![i].used = TRUE]
    /\ Turns(q, IF invites[i].user = u
                THEN [at |-> "join", on |-> <<u, invites[i].role>>] ELSE Heard)
    /\ UNCHANGED <<role, key, adminKey, joins, raced>>

\* INSERT ... ON CONFLICT DO NOTHING: a member keeps the role it has.
EnsureMembership(q) ==
    LET u == desk[q].on[1] IN
    /\ desk[q].at = "join"
    /\ IF role[u] = "none"
       THEN /\ role' = [role EXCEPT ![u] = desk[q].on[2]]
            /\ joins' = [joins EXCEPT ![u] = @ + 1]
       ELSE UNCHANGED <<role, joins>>
    /\ Turns(q, Heard)
    /\ UNCHANGED <<invites, key, adminKey, raced>>
-----------------------------------------------------------------------------
(* PATCH and DELETE of a member.  A removal is a change of role to "none". *)

ReadRole(q) ==
    LET d == desk[q]
        current == role[d.on[1]] IN
    /\ d.at = "readRole"
    /\ Turns(q, IF current = "none" THEN Heard
                ELSE IF current = "owner" /\ d.on[2] # "owner"
                THEN [d EXCEPT !.at = "countOwners"] ELSE [d EXCEPT !.at = "writeRole"])
    /\ UNCHANGED <<orgTables, joins, raced>>

\* Mutant of TooFewOwners: the count is compared with the owners that would remain.
TooFewOwnersOffByOne == Cardinality(Owners) < 1

TooFewOwners == Cardinality(Owners) <= 1

CountOwners(q) ==
    /\ desk[q].at = "countOwners"
    /\ Turns(q, IF TooFewOwners THEN Heard ELSE [desk[q] EXCEPT !.at = "writeRole"])
    /\ UNCHANGED <<orgTables, joins, raced>>

\* UPDATE or DELETE: nothing happens when the row is gone.
WriteRole(q) ==
    LET d == desk[q] IN
    /\ d.at = "writeRole"
    /\ role' = IF role[d.on[1]] = "none" THEN role ELSE [role EXCEPT ![d.on[1]] = d.on[2]]
    /\ raced' = (raced \/ \E p \in Desk \ {q} : desk[p].at = "writeRole")
    /\ Turns(q, Heard)
    /\ UNCHANGED <<invites, key, adminKey, joins>>
-----------------------------------------------------------------------------
(* Machine keys, for admins.                                               *)

IssueKey(q) ==
    LET k == desk[q].on IN
    /\ desk[q].at = "issueKey"
    /\ key[k] = "none" /\ k # adminKey      \* issueAdminKey draws a new key
    /\ key' = [key EXCEPT ![k] = "live"]
    /\ Turns(q, Heard)
    /\ UNCHANGED <<role, invites, adminKey, joins, raced>>

RevokeKey(q) ==
    LET k == desk[q].on IN
    /\ desk[q].at = "revokeKey"
    /\ key' = IF key[k] = "live" THEN [key EXCEPT ![k] = "revoked"] ELSE key
    /\ Turns(q, Heard)
    /\ UNCHANGED <<role, invites, adminKey, joins, raced>>
-----------------------------------------------------------------------------
\* A statement is rejected, or the instance stops between two of them.
StopDesk(q) ==
    /\ desk[q] \notin {Unused, Heard}
    /\ Turns(q, Heard)
    /\ UNCHANGED <<orgTables, joins, raced>>

DeskStep(q) ==
    \/ FindKey(q) \/ KnownKey(q) \/ ReadInvitee(q) \/ CreateInvitation(q)
    \/ EnsureMembership(q) \/ ReadRole(q) \/ CountOwners(q) \/ WriteRole(q)
    \/ IssueKey(q) \/ RevokeKey(q) \/ StopDesk(q)

MembersNext ==
    \/ \E u \in Users, k \in Keys : CreateOrg(u, k)
    \/ \E q \in Desk :
        \/ \E op \in OwnerOps \cup AdminOps : \E x \in Targets(op) :
               \/ \E u \in Users : UserAsks(q, u, op, x)
               \/ \E k \in Keys : KeyAsks(q, k, op, x)
        \/ \E u \in Users, i \in DOMAIN invites : ConsumeInvitation(q, u, i)
        \/ DeskStep(q)

MembersSpec == MembersInit /\ [][MembersNext]_memberVars
-----------------------------------------------------------------------------
MembersTypeOK ==
    /\ role \in [Users -> MemberRoles \cup {"none"}]
    /\ \A i \in DOMAIN invites :
           invites[i] \in [user : Users, role : {"member", "admin"}, used : BOOLEAN]
    /\ key \in [Keys -> {"none", "live", "revoked"}]
    /\ adminKey \in Keys \cup {Absent}

Accepted(u) == {i \in DOMAIN invites : invites[i].user = u /\ invites[i].used}

(* Nobody joins twice on one invitation: however often an accept is sent,  *)
(* and with removals in between, a user has become a member at most as     *)
(* often as invitations for that address were spent.                       *)
JoinsAreInvited ==
    /\ MembersTypeOK
    /\ \A u \in Users : joins[u] <= Cardinality(Accepted(u))

(* No request that arrived after its key was revoked is admitted, although *)
(* the organisation's admin_key_hash still holds the same hash and the     *)
(* lookup takes three statements (the gate of principal.ts:71).            *)
RevokedKeysStayOut ==
    \A q \in Desk :
        desk[q].at \in AdminOps /\ "late" \in DOMAIN desk[q] => ~desk[q].late

(* An organisation that was given an owner keeps one, unless two requests  *)
(* stood between their guard and their write at the same time: the count   *)
(* of owners is enough for requests that do not overlap.                   *)
OwnerLostOnlyInRace == Founded => Owners # {} \/ raced
=============================================================================
