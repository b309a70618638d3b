-------------------------- MODULE ControlPlaneProofs --------------------------
(***************************************************************************)
(* Proofs about accounts, members and the visual builder: for any number   *)
(* of addresses, callers, tokens, users, keys, requests, invitations,      *)
(* canvases and deploys.                                                   *)
(***************************************************************************)
EXTENDS Accounts, Members, GraphDeploy, FiniteSetTheorems, TLAPS

-----------------------------------------------------------------------------
(* Members: the inductive invariant                                        *)

Invitation == [user : Users, role : {"member", "admin"}, used : BOOLEAN]
AnyRole == MemberRoles \cup {"none"}

\* What a request carries at each of its steps.  An admitted one did not arrive late.
DeskRecords ==
    {Unused, Heard}
    \cup [at : {"findKey", "knownKey"}, by : Keys, op : AdminOps, on : Keys, late : BOOLEAN]
    \cup [at : AdminOps, on : Keys, late : {FALSE}] \cup [at : AdminOps, on : Keys]
    \cup [at : {"readInvitee", "createInvitation", "join"}, on : Users \X {"member", "admin"}]
    \cup [at : {"readRole", "countOwners", "writeRole"}, on : Users \X AnyRole]

TablesMatch ==
    /\ role \in [Users -> AnyRole] /\ joins \in [Users -> Nat]
    /\ invites \in Seq(Invitation)
    /\ key \in [Keys -> {"none", "live", "revoked"}] /\ adminKey \in Keys \cup {Absent}
    /\ desk \in [Desk -> DeskRecords]

\* Before its creation nobody can act for the organisation.
NothingBefore ==
    ~Created => /\ \A u \in Users : role[u] = "none"
                /\ \A k \in Keys : key[k] = "none"
                /\ invites = << >>
                /\ \A q \in Desk : desk[q] = Unused

\* A key that was revoked when the request arrived is so at every later lookup.
LateIsRevoked ==
    \A q \in Desk : desk[q].at \in {"findKey", "knownKey"} /\ desk[q].late
                        => key[desk[q].by] = "revoked"

\* Every membership by invitation, made or about to be, has a spent invitation of its own.
Joining(u) == {q \in Desk : desk[q].at = "join" /\ desk[q].on[1] = u}
JoinsCounted == \A u \in Users : joins[u] + Cardinality(Joining(u)) <= Cardinality(Accepted(u))

\* A write that is still to come, alone, leaves an owner.
Harmless(x) == x[2] = "owner" \/ role[x[1]] # "owner" \/ Owners \ {x[1]} # {}
OwnersKept ==
    Founded /\ ~raced =>
        /\ Owners # {}
        /\ \A q \in Desk : desk[q].at = "writeRole" => Harmless(desk[q].on)

MembersIInv == TablesMatch /\ NothingBefore /\ LateIsRevoked /\ JoinsCounted /\ OwnersKept


-----------------------------------------------------------------------------
(* Members: every step keeps the invariant                                 *)

\* The step of a request changes what that request carries, and no other.
LEMMA DeskTurns ==
    ASSUME TablesMatch, NEW q \in Desk, NEW next \in DeskRecords, Turns(q, next)
    PROVE  /\ desk' \in [Desk -> DeskRecords] /\ desk'[q] = next
           /\ \A p \in Desk \ {q} : desk'[p] = desk[p]
  BY DEF TablesMatch, Turns

\* A desk that waits, or has answered, holds a record of its kind.
LEMMA WaitingRecords ==
    /\ Unused \in DeskRecords /\ Heard \in DeskRecords
    /\ Unused.at = "unused" /\ Heard.at = "answered"
  BY DEF DeskRecords, Unused, Heard

\* The requests about to make a membership of u are finitely many.
LEMMA JoiningFinite ==
    ASSUME NEW u
    PROVE  /\ IsFiniteSet(Joining(u)) /\ Cardinality(Joining(u)) \in Nat
           /\ IsFiniteSet(Joining(u)') /\ Cardinality(Joining(u)') \in Nat
<1>1. Joining(u) \subseteq Desk /\ Joining(u)' \subseteq Desk
  BY DEF Joining
<1> QED
  BY <1>1, MembersAssumption, FS_Subset, FS_CardinalityType

\* So are the spent invitations.
LEMMA AcceptedFinite ==
    ASSUME TablesMatch, NEW u
    PROVE  IsFiniteSet(Accepted(u)) /\ Cardinality(Accepted(u)) \in Nat
<1>1. Accepted(u) \subseteq 1 .. Len(invites) /\ Len(invites) \in Nat
  BY DEF TablesMatch, Accepted
<1>2. IsFiniteSet(1 .. Len(invites))
  BY <1>1, FS_Interval
<1> QED
  BY <1>1, <1>2, FS_Subset, FS_CardinalityType

\* Nobody starts to join, and no spent invitation is lost.
LEMMA JoinsKept ==
    ASSUME TablesMatch, TablesMatch', JoinsCounted, UNCHANGED joins,
           \A u \in Users : Joining(u)' \subseteq Joining(u) /\ Accepted(u) \subseteq Accepted(u)'
    PROVE  JoinsCounted'
<1> SUFFICES ASSUME NEW u \in Users
             PROVE  joins[u] + Cardinality(Joining(u)') <= Cardinality(Accepted(u)')
  BY DEF JoinsCounted
<1>1. Cardinality(Joining(u)') <= Cardinality(Joining(u))
  BY JoiningFinite, FS_Subset
<1>2. IsFiniteSet(Accepted(u)') /\ Cardinality(Accepted(u)') \in Nat
  <2>1. Accepted(u)' \subseteq 1 .. Len(invites') /\ Len(invites') \in Nat
    BY DEF TablesMatch, Accepted
  <2> QED
    <3>1. IsFiniteSet(1 .. Len(invites'))
      BY <2>1, FS_Interval
    <3> QED
      BY <2>1, <3>1, FS_Subset, FS_CardinalityType
<1>3. Cardinality(Accepted(u)) <= Cardinality(Accepted(u)')
  BY <1>2, AcceptedFinite, FS_Subset
<1>4. joins[u] \in Nat /\ joins[u] + Cardinality(Joining(u)) <= Cardinality(Accepted(u))
  BY DEF TablesMatch, JoinsCounted
<1> QED
  BY <1>1, <1>2, <1>3, <1>4, JoiningFinite, AcceptedFinite

\* A step that writes no table, when where the request goes matches.
LEMMA LookingStep ==
    ASSUME MembersIInv, NEW q \in Desk, NEW next \in DeskRecords, Turns(q, next),
           UNCHANGED <<orgTables, joins, raced>>, Created, next.at # "join",
           next.at \in {"findKey", "knownKey"} /\ next.late => key[next.by] = "revoked",
           next.at = "writeRole" => Harmless(next.on)
    PROVE  MembersIInv'
<1>1. /\ desk' \in [Desk -> DeskRecords] /\ desk'[q] = next
      /\ \A p \in Desk \ {q} : desk'[p] = desk[p]
  BY DeskTurns DEF MembersIInv
<1>2. TablesMatch'
  BY <1>1 DEF MembersIInv, TablesMatch, orgTables
<1>3. NothingBefore'
  BY DEF NothingBefore, Created, orgTables
<1>4. LateIsRevoked'
  BY <1>1 DEF MembersIInv, LateIsRevoked, orgTables
<1>5. JoinsCounted'
  <2>1. \A u \in Users : Joining(u)' \subseteq Joining(u) /\ Accepted(u) \subseteq Accepted(u)'
    BY <1>1 DEF Joining, Accepted, orgTables
  <2> QED
    BY <1>2, <2>1, JoinsKept DEF MembersIInv
<1>6. OwnersKept'
  <2> SUFFICES ASSUME Founded', ~raced'
               PROVE  /\ Owners' # {}
                      /\ \A p \in Desk : desk'[p].at = "writeRole" => Harmless(desk[p].on)'
    BY DEF OwnersKept
  <2>1. Founded /\ ~raced /\ Owners' = Owners
    BY DEF Founded, Created, Owners, orgTables
  <2>2. \A x : Harmless(x) => Harmless(x)'
    BY <2>1 DEF Harmless, orgTables
  <2>3. ASSUME NEW p \in Desk, desk'[p].at = "writeRole"
        PROVE  Harmless(desk[p].on)'
    <3>1. PICK x : x = desk'[p].on
      OBVIOUS
    <3>2. Harmless(x)
      BY <1>1, <2>1, <2>3, <3>1 DEF MembersIInv, OwnersKept
    <3> QED
      BY <2>2, <3>1, <3>2 DEF Harmless
  <2> QED
    BY <2>1, <2>3 DEF MembersIInv, OwnersKept
<1> QED
  BY <1>2, <1>3, <1>4, <1>5, <1>6 DEF MembersIInv

\* A request that asks for something has an organisation to ask.
LEMMA AskedOfCreated ==
    ASSUME MembersIInv
    PROVE  /\ \A q \in Desk : desk[q] # Unused => Created
           /\ \A u \in Users : role[u] # "none" => Created
           /\ \A k \in Keys : key[k] # "none" \/ adminKey = k => Created
           /\ invites # << >> => Created
  BY MembersAssumption DEF MembersIInv, NothingBefore, Created, Absent

\* A request is taken in: nothing of it is checked yet.
LEMMA AskPreserves ==
    ASSUME MembersIInv, NEW q \in Desk, NEW op \in OwnerOps \cup AdminOps, NEW x \in Targets(op),
           \/ \E u \in Users : UserAsks(q, u, op, x)
           \/ \E k \in Keys : KeyAsks(q, k, op, x)
    PROVE  MembersIInv'
<1>1. CASE \E u \in Users : UserAsks(q, u, op, x)
  <2> DEFINE next == [at |-> Opens(op), on |-> x]
  <2>1. Turns(q, next) /\ UNCHANGED <<orgTables, joins, raced>> /\ Created
    BY <1>1, AskedOfCreated DEF UserAsks
  <2>2. next \in DeskRecords /\ next.at \in {"readInvitee", "readRole"} \cup AdminOps
    BY DEF DeskRecords, Opens, Targets, OwnerOps, AdminOps, AnyRole, MemberRoles
  <2>3. next.at \notin {"findKey", "knownKey", "join", "writeRole"}
    BY <2>2 DEF AdminOps
  <2> HIDE DEF next
  <2> QED
    BY <2>1, <2>2, <2>3, LookingStep
<1>2. CASE \E k \in Keys : KeyAsks(q, k, op, x)
  <2>1. PICK k \in Keys : KeyAsks(q, k, op, x)
    BY <1>2
  <2> DEFINE next == [at |-> "findKey", by |-> k, op |-> op, on |-> x, late |-> key[k] = "revoked"]
  <2>2. Turns(q, next) /\ UNCHANGED <<orgTables, joins, raced>> /\ Created /\ x \in Keys
        /\ op \in AdminOps
    BY <2>1, AskedOfCreated DEF KeyAsks, Targets, AdminOps
  <2>3. next \in DeskRecords /\ next.at = "findKey" /\ (next.late => key[next.by] = "revoked")
    BY <2>2 DEF DeskRecords
  <2> HIDE DEF next
  <2> QED
    BY <2>2, <2>3, LookingStep
<1> QED
  BY <1>1, <1>2

\* What is known of a request by where it stands.
LEMMA DeskForms ==
    ASSUME MembersIInv, NEW q \in Desk
    PROVE  LET d == desk[q]
           IN  /\ d.at \in {"findKey", "knownKey"} =>
                     d \in [at : {"findKey", "knownKey"}, by : Keys, op : AdminOps, on : Keys,
                            late : BOOLEAN]
               /\ d.at \in {"readInvitee", "createInvitation", "join"} =>
                     d \in [at : {"readInvitee", "createInvitation", "join"},
                            on : Users \X {"member", "admin"}]
               /\ d.at \in {"readRole", "countOwners", "writeRole"} =>
                     d \in [at : {"readRole", "countOwners", "writeRole"}, on : Users \X AnyRole]
               /\ d.at \in AdminOps => d.on \in Keys
<1>1. PICK d \in DeskRecords : d = desk[q]
  BY DEF MembersIInv, TablesMatch
<1>2. \/ d.at \in {"unused", "answered"}
      \/ d \in [at : {"findKey", "knownKey"}, by : Keys, op : AdminOps, on : Keys, late : BOOLEAN]
      \/ d.at \in AdminOps /\ d.on \in Keys
      \/ d \in [at : {"readInvitee", "createInvitation", "join"},
                on : Users \X {"member", "admin"}]
      \/ d \in [at : {"readRole", "countOwners", "writeRole"}, on : Users \X AnyRole]
  BY <1>1, WaitingRecords DEF DeskRecords
<1> QED
  BY <1>1, <1>2 DEF AdminOps

\* The key is looked up and the caller with it.
LEMMA LookupPreserves ==
    ASSUME MembersIInv, NEW q \in Desk, FindKey(q) \/ KnownKey(q)
    PROVE  MembersIInv'
<1> DEFINE d == desk[q]
<1>1. /\ d \in [at : {"findKey", "knownKey"}, by : Keys, op : AdminOps, on : Keys, late : BOOLEAN]
      /\ d # Unused /\ UNCHANGED <<orgTables, joins, raced>>
      /\ d.late => key[d.by] = "revoked"
  BY DeskForms, WaitingRecords DEF FindKey, KnownKey, MembersIInv, LateIsRevoked
<1>2. Created
  BY <1>1, AskedOfCreated
<1>3. CASE Turns(q, Heard)
  BY <1>1, <1>2, <1>3, WaitingRecords, LookingStep
<1>4. CASE Turns(q, Admitted(d)) /\ key[d.by] # "revoked"
  <2>1. Admitted(d) \in [at : AdminOps, on : Keys, late : {FALSE}]
    BY <1>1, <1>4 DEF Admitted, Opens, AdminOps, OwnerOps
  <2>2. Admitted(d) \in DeskRecords
        /\ Admitted(d).at \notin {"findKey", "knownKey", "join", "writeRole"}
    BY <2>1 DEF DeskRecords, AdminOps
  <2> QED
    BY <1>1, <1>2, <1>4, <2>2, LookingStep
<1>5. CASE Turns(q, [d EXCEPT !.at = "knownKey"])
  <2> DEFINE next == [d EXCEPT !.at = "knownKey"]
  <2>1. next \in [at : {"knownKey"}, by : {d.by}, op : AdminOps, on : Keys, late : {d.late}]
    BY <1>1
  <2> HIDE DEF next
  <2>2. next \in DeskRecords /\ next.at = "knownKey" /\ next.late = d.late /\ next.by = d.by
    BY <1>1, <2>1 DEF DeskRecords
  <2>3. Turns(q, next)
    BY <1>5 DEF next
  <2> QED
    BY <1>1, <1>2, <2>2, <2>3, LookingStep
<1> QED
  BY <1>3, <1>4, <1>5 DEF FindKey, KnownKey

\* The reads that the guards of a request make, and its end at one of them.
LEMMA GuardPreserves ==
    ASSUME MembersIInv, NEW q \in Desk,
           ReadInvitee(q) \/ ReadRole(q) \/ CountOwners(q) \/ StopDesk(q)
    PROVE  MembersIInv'
<1> DEFINE d == desk[q]
<1>1. d # Unused /\ UNCHANGED <<orgTables, joins, raced>>
  BY WaitingRecords DEF ReadInvitee, ReadRole, CountOwners, StopDesk
<1>2. Created
  BY <1>1, AskedOfCreated
<1>3. CASE Turns(q, Heard)
  BY <1>1, <1>2, <1>3, WaitingRecords, LookingStep
<1>4. CASE ReadInvitee(q) /\ Turns(q, [d EXCEPT !.at = "createInvitation"])
  <2> DEFINE next == [d EXCEPT !.at = "createInvitation"]
  <2>1. d \in [at : {"readInvitee", "createInvitation", "join"}, on : Users \X {"member", "admin"}]
    BY <1>4, DeskForms DEF ReadInvitee
  <2>2. next \in [at : {"createInvitation"}, on : Users \X {"member", "admin"}]
    BY <2>1
  <2> HIDE DEF next
  <2>3. next \in DeskRecords /\ next.at = "createInvitation"
    BY <2>2 DEF DeskRecords
  <2> QED
    BY <1>1, <1>2, <1>4, <2>3, LookingStep DEF next
<1>5. ASSUME ReadRole(q) \/ CountOwners(q), NEW at \in {"countOwners", "writeRole"},
             Turns(q, [d EXCEPT !.at = at]), at = "writeRole" => Harmless(d.on)
      PROVE  MembersIInv'
  <2> DEFINE next == [d EXCEPT !.at = at]
  <2>1. d \in [at : {"readRole", "countOwners", "writeRole"}, on : Users \X AnyRole]
    BY <1>5, DeskForms DEF ReadRole, CountOwners
  <2>2. next \in [at : {at}, on : Users \X AnyRole] /\ next.on = d.on
    BY <2>1
  <2>3. Turns(q, next)
    BY <1>5
  <2> HIDE DEF next
  <2>4. next \in DeskRecords /\ next.at = at
    BY <2>2 DEF DeskRecords
  <2> QED
    BY <1>1, <1>2, <1>5, <2>2, <2>3, <2>4, LookingStep
<1>6. CASE ReadRole(q)
  <2>1. \/ Turns(q, Heard) \/ Turns(q, [d EXCEPT !.at = "countOwners"])
        \/ Turns(q, [d EXCEPT !.at = "writeRole"]) /\ Harmless(d.on)
    BY <1>6 DEF ReadRole, Harmless
  <2> QED
    BY <1>3, <1>5, <1>6, <2>1
<1>7. CASE CountOwners(q)
  <2>1. ASSUME ~TooFewOwners
        PROVE  Harmless(d.on)
    <3>1. Owners # {} /\ \A x : Owners # {x}
      BY <2>1, FS_EmptySet, FS_Singleton DEF TooFewOwners
    <3>2. Owners \ {d.on[1]} # {}
      BY <3>1
    <3> QED
      BY <3>2 DEF Harmless
  <2> QED
    BY <1>3, <1>5, <1>7, <2>1 DEF CountOwners
<1> QED
  BY <1>3, <1>4, <1>6, <1>7 DEF ReadInvitee, StopDesk

\* Owners are kept when no role is written, and where the request goes matches.
LEMMA OwnersStay ==
    ASSUME MembersIInv, NEW q \in Desk, UNCHANGED <<role, adminKey, raced>>, Founded' => Founded,
           \A p \in Desk \ {q} : desk'[p] = desk[p], desk'[q].at # "writeRole"
    PROVE  OwnersKept'
<1> SUFFICES ASSUME Founded', ~raced'
             PROVE  /\ Owners' # {}
                    /\ \A p \in Desk : desk'[p].at = "writeRole" => Harmless(desk[p].on)'
  BY DEF OwnersKept
<1>1. Founded /\ ~raced /\ Owners' = Owners
  BY DEF Owners
<1>2. ASSUME NEW p \in Desk, desk'[p].at = "writeRole"
      PROVE  Harmless(desk[p].on)'
  <2>1. PICK x : x = desk'[p].on
    OBVIOUS
  <2>2. Harmless(x)
    BY <1>1, <1>2, <2>1 DEF MembersIInv, OwnersKept
  <2> QED
    BY <1>1, <2>1, <2>2 DEF Harmless
<1> QED
  BY <1>1, <1>2 DEF MembersIInv, OwnersKept

\* A new invitation is unused and for a user of its own.
LEMMA InvitePreserves ==
    ASSUME MembersIInv, NEW q \in Desk, CreateInvitation(q)
    PROVE  MembersIInv'
<1> DEFINE d == desk[q]
<1>1. /\ d.on \in Users \X {"member", "admin"} /\ Turns(q, Heard) /\ d # Unused
      /\ UNCHANGED <<role, key, adminKey, joins, raced>>
  BY DeskForms, WaitingRecords DEF CreateInvitation
<1>2. /\ desk' \in [Desk -> DeskRecords] /\ desk'[q] = Heard
      /\ \A p \in Desk \ {q} : desk'[p] = desk[p]
  BY <1>1, WaitingRecords, DeskTurns DEF MembersIInv
<1>3. PICK r \in Invitation :
         r = [user |-> d.on[1], role |-> d.on[2], used |-> FALSE] /\ invites' = Append(invites, r)
  BY <1>1 DEF CreateInvitation, Invitation
<1>4. invites \in Seq(Invitation)
  BY DEF MembersIInv, TablesMatch
<1>5. /\ invites' \in Seq(Invitation)
      /\ \A i \in DOMAIN invites : i \in DOMAIN invites' /\ invites'[i] = invites[i]
  BY <1>3, <1>4
<1>6. TablesMatch'
  BY <1>1, <1>2, <1>5 DEF MembersIInv, TablesMatch
<1>7. NothingBefore'
  BY <1>1, AskedOfCreated DEF NothingBefore, Created
<1>8. LateIsRevoked'
  BY <1>1, <1>2, WaitingRecords DEF MembersIInv, LateIsRevoked
<1>9. JoinsCounted'
  <2>1. \A u \in Users : Joining(u)' \subseteq Joining(u)
    BY <1>2, WaitingRecords DEF Joining
  <2>2. \A u \in Users : Accepted(u) \subseteq Accepted(u)'
    BY <1>5 DEF Accepted
  <2> QED
    BY <1>1, <1>6, <2>1, <2>2, JoinsKept DEF MembersIInv
<1>10. OwnersKept'
  BY <1>1, <1>2, WaitingRecords, OwnersStay DEF Founded, Created
<1> QED
  BY <1>6, <1>7, <1>8, <1>9, <1>10 DEF MembersIInv

\* An invitation is spent before the membership it makes.
LEMMA ConsumePreserves ==
    ASSUME MembersIInv, NEW q \in Desk, NEW u \in Users, NEW i \in DOMAIN invites,
           ConsumeInvitation(q, u, i)
    PROVE  MembersIInv'
<1> DEFINE next == IF invites[i].user = u THEN [at |-> "join", on |-> <<u, invites[i].role>>]
                   ELSE Heard
<1>1. /\ desk[q] = Unused /\ ~invites[i].used /\ Turns(q, next)
      /\ invites' = [invites EXCEPT ![i].used = TRUE]
      /\ UNCHANGED <<role, key, adminKey, joins, raced>>
  BY DEF ConsumeInvitation, Live
<1>2. invites \in Seq(Invitation) /\ invites[i] \in Invitation /\ i \in 1 .. Len(invites)
  BY DEF MembersIInv, TablesMatch
<1>3. [at |-> "join", on |-> <<u, invites[i].role>>] \in DeskRecords
  BY <1>2 DEF DeskRecords, Invitation
<1>4. next \in DeskRecords /\ next.at \in {"join", "answered"}
      /\ (next.at = "join" => next.on[1] = u /\ invites[i].user = u)
  BY <1>3, WaitingRecords
<1> HIDE DEF next
<1>5. /\ desk' \in [Desk -> DeskRecords] /\ desk'[q] = next
      /\ \A p \in Desk \ {q} : desk'[p] = desk[p]
  BY <1>1, <1>4, DeskTurns DEF MembersIInv
<1>6. PICK r \in Invitation :
         r.used /\ r.user = invites[i].user /\ invites' = [invites EXCEPT ![i] = r]
  <2>1. [invites[i] EXCEPT !.used = TRUE] \in Invitation
        /\ [invites[i] EXCEPT !.used = TRUE].used
        /\ [invites[i] EXCEPT !.used = TRUE].user = invites[i].user
    BY <1>2 DEF Invitation
  <2> QED
    BY <1>1, <2>1
<1>7. /\ invites' \in Seq(Invitation) /\ DOMAIN invites' = DOMAIN invites /\ invites'[i] = r
      /\ \A j \in DOMAIN invites \ {i} : invites'[j] = invites[j]
  BY <1>2, <1>6
<1>8. TablesMatch'
  BY <1>1, <1>5, <1>7 DEF MembersIInv, TablesMatch
<1>9. NothingBefore'
  <2>1. invites # << >>
    BY <1>2
  <2> QED
    BY <1>1, <2>1, AskedOfCreated DEF NothingBefore, Created
<1>10. LateIsRevoked'
  BY <1>1, <1>4, <1>5 DEF MembersIInv, LateIsRevoked
<1>11. JoinsCounted'
  <2> SUFFICES ASSUME NEW v \in Users
               PROVE  joins[v] + Cardinality(Joining(v)') <= Cardinality(Accepted(v)')
    BY <1>1 DEF JoinsCounted
  <2>0. joins[v] \in Nat /\ joins[v] + Cardinality(Joining(v)) <= Cardinality(Accepted(v))
        /\ IsFiniteSet(Accepted(v)) /\ Cardinality(Accepted(v)) \in Nat
    BY AcceptedFinite DEF MembersIInv, TablesMatch, JoinsCounted
  <2>1. CASE v = invites[i].user
    <3>1. Accepted(v)' = Accepted(v) \cup {i} /\ i \notin Accepted(v)
      BY <1>1, <1>2, <1>6, <1>7, <2>1 DEF Accepted
    <3>2. Cardinality(Accepted(v)') = Cardinality(Accepted(v)) + 1
      BY <2>0, <3>1, FS_AddElement
    <3>3. Joining(v)' \subseteq Joining(v) \cup {q}
      BY <1>5 DEF Joining
    <3>4. PICK J : J = Joining(v) \cup {q}
      OBVIOUS
    <3>5. PICK n \in Nat : n = Cardinality(Joining(v)) /\ IsFiniteSet(Joining(v))
      BY JoiningFinite
    <3>6. IsFiniteSet(J) /\ Cardinality(J) \in n .. n + 1
      <4>1. CASE q \in Joining(v)
        <5>1. J = Joining(v)
          BY <3>4, <4>1
        <5> QED
          BY <3>5, <5>1
      <4>2. CASE q \notin Joining(v)
        BY <3>4, <3>5, <4>2, FS_AddElement
      <4> QED
        BY <4>1, <4>2
    <3>7. Cardinality(Joining(v)') <= n + 1
      <4>1. Joining(v)' \subseteq J /\ Cardinality(J) \in Nat
        BY <3>3, <3>4, <3>5, <3>6
      <4>2. Cardinality(Joining(v)') <= Cardinality(J)
        BY <3>6, <4>1, FS_Subset
      <4> QED
        BY <3>5, <3>6, <4>2, JoiningFinite
    <3> QED
      BY <2>0, <3>2, <3>5, <3>7, JoiningFinite
  <2>2. CASE v # invites[i].user
    <3>1. Accepted(v)' = Accepted(v)
      BY <1>6, <1>7, <2>2 DEF Accepted
    <3>2. Joining(v)' \subseteq Joining(v)
      BY <1>4, <1>5, <2>2 DEF Joining
    <3>3. Cardinality(Joining(v)') <= Cardinality(Joining(v))
      BY <3>2, JoiningFinite, FS_Subset
    <3> QED
      BY <2>0, <3>1, <3>3, JoiningFinite
  <2> QED
    BY <2>1, <2>2
<1>12. OwnersKept'
  BY <1>1, <1>4, <1>5, OwnersStay DEF Founded, Created
<1> QED
  BY <1>8, <1>9, <1>10, <1>11, <1>12 DEF MembersIInv

\* The membership takes the place of the request that makes it.
LEMMA JoinPreserves ==
    ASSUME MembersIInv, NEW q \in Desk, EnsureMembership(q)
    PROVE  MembersIInv'
<1>1. PICK u \in Users, as \in {"member", "admin"} : u = desk[q].on[1] /\ as = desk[q].on[2]
  BY DeskForms DEF EnsureMembership
<1>2. /\ desk[q].at = "join" /\ desk[q] # Unused /\ Turns(q, Heard)
      /\ UNCHANGED <<invites, key, adminKey, raced>>
  BY WaitingRecords DEF EnsureMembership
<1>3. /\ desk' \in [Desk -> DeskRecords] /\ desk'[q] = Heard /\ Created
      /\ \A p \in Desk \ {q} : desk'[p] = desk[p]
  BY <1>2, WaitingRecords, DeskTurns, AskedOfCreated DEF MembersIInv
<1>4. role \in [Users -> AnyRole] /\ joins \in [Users -> Nat]
  BY DEF MembersIInv, TablesMatch
<1>5. \/ UNCHANGED <<role, joins>>
      \/ /\ role[u] = "none" /\ role' = [role EXCEPT ![u] = as]
         /\ joins' = [joins EXCEPT ![u] = joins[u] + 1]
  BY <1>1 DEF EnsureMembership
<1>6. role' \in [Users -> AnyRole] /\ joins' \in [Users -> Nat]
  BY <1>1, <1>4, <1>5 DEF AnyRole, MemberRoles
<1>7. TablesMatch'
  BY <1>2, <1>3, <1>6 DEF MembersIInv, TablesMatch
<1>8. NothingBefore'
  BY <1>2, <1>3 DEF NothingBefore, Created
<1>9. LateIsRevoked'
  BY <1>2, <1>3, WaitingRecords DEF MembersIInv, LateIsRevoked
<1>10. JoinsCounted'
  <2> SUFFICES ASSUME NEW v \in Users
               PROVE  joins'[v] + Cardinality(Joining(v)') <= Cardinality(Accepted(v)')
    BY DEF JoinsCounted
  <2>0. /\ joins[v] \in Nat /\ joins[v] + Cardinality(Joining(v)) <= Cardinality(Accepted(v))
        /\ Cardinality(Accepted(v)) \in Nat /\ Accepted(v)' = Accepted(v)
    BY <1>2, AcceptedFinite DEF MembersIInv, TablesMatch, JoinsCounted, Accepted
  <2>1. CASE v = u
    <3>1. Joining(v)' = Joining(v) \ {q} /\ q \in Joining(v)
      BY <1>1, <1>2, <1>3, <2>1, WaitingRecords DEF Joining
    <3>2. Cardinality(Joining(v)') = Cardinality(Joining(v)) - 1
      BY <3>1, JoiningFinite, FS_RemoveElement
    <3>3. joins'[v] \in {joins[v], joins[v] + 1}
      BY <1>4, <1>5, <2>1
    <3> QED
      BY <2>0, <3>2, <3>3, JoiningFinite
  <2>2. CASE v # u
    <3>1. Joining(v)' = Joining(v)
      BY <1>1, <1>2, <1>3, <2>2, WaitingRecords DEF Joining
    <3>2. joins'[v] = joins[v]
      BY <1>4, <1>5, <2>2
    <3> QED
      BY <2>0, <3>1, <3>2
  <2> QED
    BY <2>1, <2>2
<1>11. OwnersKept'
  <2> SUFFICES ASSUME Founded', ~raced'
               PROVE  /\ Owners' # {}
                      /\ \A p \in Desk : desk'[p].at = "writeRole" => Harmless(desk[p].on)'
    BY DEF OwnersKept
  <2>1. Founded /\ ~raced
    BY <1>2 DEF Founded, Created
  <2>2. Owners' = Owners
    BY <1>4, <1>5 DEF Owners
  <2>3. ASSUME NEW p \in Desk, desk'[p].at = "writeRole"
        PROVE  Harmless(desk[p].on)'
    <3>1. PICK x : x = desk'[p].on
      OBVIOUS
    <3>2. Harmless(x)
      BY <1>3, <2>1, <2>3, <3>1, WaitingRecords DEF MembersIInv, OwnersKept
    <3>3. x[1] \in Users
      BY <1>3, <2>3, <3>1, DeskForms, WaitingRecords
    <3>4. role[x[1]] # "owner" => role'[x[1]] # "owner"
      BY <1>1, <1>4, <1>5, <3>3
    <3> QED
      BY <2>2, <3>1, <3>2, <3>4 DEF Harmless
  <2> QED
    BY <2>1, <2>2, <2>3 DEF MembersIInv, OwnersKept
<1> QED
  BY <1>7, <1>8, <1>9, <1>10, <1>11 DEF MembersIInv

\* The write that its guard let through leaves an owner, unless another one stands beside it.
LEMMA WritePreserves ==
    ASSUME MembersIInv, NEW q \in Desk, WriteRole(q)
    PROVE  MembersIInv'
<1>1. PICK x \in Users \X AnyRole : x = desk[q].on
  BY DeskForms DEF WriteRole
<1>2. /\ desk[q].at = "writeRole" /\ desk[q] # Unused /\ Turns(q, Heard)
      /\ UNCHANGED <<invites, key, adminKey, joins>>
      /\ raced' = (raced \/ \E p \in Desk \ {q} : desk[p].at = "writeRole")
  BY WaitingRecords DEF WriteRole
<1>3. /\ desk' \in [Desk -> DeskRecords] /\ desk'[q] = Heard /\ Created
      /\ \A p \in Desk \ {q} : desk'[p] = desk[p]
  BY <1>2, WaitingRecords, DeskTurns, AskedOfCreated DEF MembersIInv
<1>4. role \in [Users -> AnyRole] /\ x[1] \in Users /\ x[2] \in AnyRole
  BY DEF MembersIInv, TablesMatch
<1>5. UNCHANGED role \/ (role' = [role EXCEPT ![x[1]] = x[2]] /\ role[x[1]] # "none")
  BY <1>1 DEF WriteRole
<1>6. role' \in [Users -> AnyRole]
  BY <1>4, <1>5
<1>7. TablesMatch'
  BY <1>2, <1>3, <1>6 DEF MembersIInv, TablesMatch
<1>8. NothingBefore'
  BY <1>2, <1>3 DEF NothingBefore, Created
<1>9. LateIsRevoked'
  BY <1>2, <1>3, WaitingRecords DEF MembersIInv, LateIsRevoked
<1>10. JoinsCounted'
  <2>1. \A u \in Users : Joining(u)' \subseteq Joining(u) /\ Accepted(u) \subseteq Accepted(u)'
    BY <1>2, <1>3, WaitingRecords DEF Joining, Accepted
  <2> QED
    BY <1>2, <1>7, <2>1, JoinsKept DEF MembersIInv
<1>11. OwnersKept'
  <2> SUFFICES ASSUME Founded', ~raced'
               PROVE  /\ Owners' # {}
                      /\ \A p \in Desk : desk'[p].at = "writeRole" => Harmless(desk[p].on)'
    BY DEF OwnersKept
  <2>1. Founded /\ ~raced /\ \A p \in Desk \ {q} : desk[p].at # "writeRole"
    BY <1>2 DEF Founded, Created
  <2>2. \A p \in Desk : desk'[p].at # "writeRole"
    BY <1>3, <2>1, WaitingRecords
  <2>3. Owners # {} /\ Harmless(x)
    BY <1>1, <1>2, <2>1 DEF MembersIInv, OwnersKept
  <2>4. Owners' # {}
    <3>1. CASE UNCHANGED role
      BY <2>3, <3>1 DEF Owners
    <3>2. CASE role' = [role EXCEPT ![x[1]] = x[2]]
      <4>1. CASE x[2] = "owner"
        BY <1>4, <3>2, <4>1 DEF Owners
      <4>2. CASE role[x[1]] # "owner" \/ Owners \ {x[1]} # {}
        <5>1. PICK u \in Owners : u # x[1]
          BY <2>3, <4>2 DEF Owners
        <5>2. u \in Owners'
          BY <1>4, <3>2, <5>1 DEF Owners
        <5> QED
          BY <5>2
      <4> QED
        BY <2>3, <4>1, <4>2 DEF Harmless
    <3> QED
      BY <1>5, <3>1, <3>2
  <2> QED
    BY <2>2, <2>4
<1> QED
  BY <1>7, <1>8, <1>9, <1>10, <1>11 DEF MembersIInv

\* Keys are issued once, and a revoked one stays so.
LEMMA KeyPreserves ==
    ASSUME MembersIInv, NEW q \in Desk, IssueKey(q) \/ RevokeKey(q)
    PROVE  MembersIInv'
<1>1. PICK k \in Keys : k = desk[q].on
  BY DeskForms DEF IssueKey, RevokeKey, AdminOps
<1>2. /\ desk[q] # Unused /\ Turns(q, Heard)
      /\ UNCHANGED <<role, invites, adminKey, joins, raced>>
  BY WaitingRecords DEF IssueKey, RevokeKey
<1>3. /\ desk' \in [Desk -> DeskRecords] /\ desk'[q] = Heard /\ Created
      /\ \A p \in Desk \ {q} : desk'[p] = desk[p]
  BY <1>2, WaitingRecords, DeskTurns, AskedOfCreated DEF MembersIInv
<1>4. key \in [Keys -> {"none", "live", "revoked"}]
  BY DEF MembersIInv, TablesMatch
<1>5. \/ UNCHANGED key
      \/ key[k] = "none" /\ k # adminKey /\ key' = [key EXCEPT ![k] = "live"]
      \/ key[k] = "live" /\ key' = [key EXCEPT ![k] = "revoked"]
  BY <1>1 DEF IssueKey, RevokeKey
<1>6. key' \in [Keys -> {"none", "live", "revoked"}]
  BY <1>4, <1>5
<1>7. TablesMatch'
  BY <1>2, <1>3, <1>6 DEF MembersIInv, TablesMatch
<1>8. NothingBefore'
  BY <1>2, <1>3 DEF NothingBefore, Created
<1>9. LateIsRevoked'
  <2>1. \A h \in Keys : key[h] = "revoked" => key'[h] = "revoked"
    BY <1>4, <1>5
  <2>2. \A p \in Desk : desk[p].at \in {"findKey", "knownKey"} => desk[p].by \in Keys
    BY DeskForms
  <2> QED
    BY <1>3, <2>1, <2>2, WaitingRecords DEF MembersIInv, LateIsRevoked
<1>10. JoinsCounted'
  <2>1. \A u \in Users : Joining(u)' \subseteq Joining(u) /\ Accepted(u) \subseteq Accepted(u)'
    BY <1>2, <1>3, WaitingRecords DEF Joining, Accepted
  <2> QED
    BY <1>2, <1>7, <2>1, JoinsKept DEF MembersIInv
<1>11. OwnersKept'
  <2>1. Founded' => Founded
    <3>1. adminKey \in Keys
      BY <1>3 DEF MembersIInv, TablesMatch, Created
    <3> QED
      BY <1>2, <1>3, <1>4, <1>5, <3>1 DEF Founded, Created
  <2> QED
    BY <1>2, <1>3, <2>1, WaitingRecords, OwnersStay
<1> QED
  BY <1>7, <1>8, <1>9, <1>10, <1>11 DEF MembersIInv

\* A new organisation has its creator for owner and a first key.
LEMMA CreatePreserves ==
    ASSUME MembersIInv, NEW u \in Users, NEW k \in Keys, CreateOrg(u, k)
    PROVE  MembersIInv'
<1>1. /\ ~Created /\ adminKey' = k /\ role' = [role EXCEPT ![u] = "owner"]
      /\ key' = [key EXCEPT ![k] = "live"] /\ UNCHANGED <<invites, desk, joins, raced>>
  BY DEF CreateOrg
<1>2. \A q \in Desk : desk[q] = Unused
  BY <1>1 DEF MembersIInv, NothingBefore
<1>3. TablesMatch'
  BY <1>1 DEF MembersIInv, TablesMatch, AnyRole, MemberRoles
<1>4. NothingBefore'
  BY <1>1, MembersAssumption DEF NothingBefore, Created, Absent
<1>5. LateIsRevoked'
  BY <1>1, <1>2, WaitingRecords DEF LateIsRevoked
<1>6. JoinsCounted'
  <2>1. \A v \in Users : Joining(v)' \subseteq Joining(v) /\ Accepted(v) \subseteq Accepted(v)'
    BY <1>1 DEF Joining, Accepted
  <2> QED
    BY <1>1, <1>3, <2>1, JoinsKept DEF MembersIInv
<1>7. OwnersKept'
  <2>1. u \in Owners'
    BY <1>1 DEF MembersIInv, TablesMatch, Owners
  <2> QED
    BY <1>1, <1>2, <2>1, WaitingRecords DEF OwnersKept
<1> QED
  BY <1>3, <1>4, <1>5, <1>6, <1>7 DEF MembersIInv

\* Steps of other components leave it alone.
LEMMA MembersStutter ==
    ASSUME MembersIInv, UNCHANGED memberVars
    PROVE  MembersIInv'
  BY DEF MembersIInv, memberVars, orgTables, TablesMatch, NothingBefore, Created, LateIsRevoked,
         JoinsCounted, Joining, Accepted, OwnersKept, Founded, Owners, Harmless

\* However the organisation starts, no request is under way and no invitation is used.
LEMMA MembersStart ==
    ASSUME MembersInit
    PROVE  MembersIInv
<1>1. /\ desk = [q \in Desk |-> Unused] /\ joins = [u \in Users |-> 0] /\ raced = FALSE
      /\ \A q \in Desk : desk[q].at = "unused"
  BY WaitingRecords DEF MembersInit
<1>2. /\ adminKey \in Keys \cup {Absent} /\ role \in [Users -> AnyRole]
      /\ key \in [Keys -> {"none", "live", "revoked"}]
  BY DEF MembersInit, AnyRole, MemberRoles
<1>3. invites \in Seq(Invitation)
  <2>1. ASSUME NEW u \in Users, NEW as \in {"member", "admin"},
               invites = <<[user |-> u, role |-> as, used |-> FALSE]>>
        PROVE  invites \in Seq(Invitation)
    <3>1. [user |-> u, role |-> as, used |-> FALSE] \in Invitation
      BY DEF Invitation
    <3> QED
      BY <2>1, <3>1
  <2>2. << >> \in Seq(Invitation)
    OBVIOUS
  <2>3. \/ invites = << >>
        \/ \E u \in Users, as \in {"member", "admin"} :
              invites = <<[user |-> u, role |-> as, used |-> FALSE]>>
    BY DEF MembersInit
  <2> QED
    BY <2>1, <2>2, <2>3
<1>4. TablesMatch
  BY <1>1, <1>2, <1>3, WaitingRecords DEF TablesMatch
<1>5. NothingBefore
  BY <1>1, MembersAssumption DEF MembersInit, NothingBefore, Created, Absent
<1>6. LateIsRevoked
  BY <1>1 DEF LateIsRevoked
<1>7. JoinsCounted
  <2>1. \A u \in Users : Joining(u) = {}
    BY <1>1 DEF Joining
  <2>2. \A u \in Users : joins[u] + Cardinality(Joining(u)) = 0
    BY <1>1, <2>1, FS_EmptySet
  <2> QED
    BY <1>4, <2>2, AcceptedFinite DEF JoinsCounted
<1>8. OwnersKept
  <2>1. ASSUME Founded
        PROVE  Owners # {}
    <3>1. PICK F \in (SUBSET Users) \ {{}} :
             role = [u \in Users |-> IF u \in F THEN "owner" ELSE "none"]
      BY <2>1 DEF MembersInit, Founded, Created
    <3> QED
      BY <3>1 DEF Owners
  <2> QED
    BY <1>1, <2>1 DEF OwnersKept
<1> QED
  BY <1>4, <1>5, <1>6, <1>7, <1>8 DEF MembersIInv

\* MembersIInv is an invariant of an organisation's memberships, invitations and keys.
THEOREM MembersInvariance == MembersSpec => []MembersIInv
<1>1. MembersInit => MembersIInv
  BY MembersStart
<1>2. MembersIInv /\ [MembersNext]_memberVars => MembersIInv'
  <2> SUFFICES ASSUME MembersIInv, [MembersNext]_memberVars
               PROVE  MembersIInv'
    OBVIOUS
  <2>1. CASE \E u \in Users, k \in Keys : CreateOrg(u, k)
    BY <2>1, CreatePreserves
  <2>2. ASSUME NEW q \in Desk, NEW op \in OwnerOps \cup AdminOps, NEW x \in Targets(op),
               \/ \E u \in Users : UserAsks(q, u, op, x)
               \/ \E k \in Keys : KeyAsks(q, k, op, x)
        PROVE  MembersIInv'
    BY <2>2, AskPreserves
  <2>3. ASSUME NEW q \in Desk, \E u \in Users, i \in DOMAIN invites : ConsumeInvitation(q, u, i)
        PROVE  MembersIInv'
    BY <2>3, ConsumePreserves
  <2>4. ASSUME NEW q \in Desk, DeskStep(q)
        PROVE  MembersIInv'
    BY <2>4, LookupPreserves, GuardPreserves, InvitePreserves, JoinPreserves, WritePreserves,
       KeyPreserves
    DEF DeskStep
  <2> QED
    BY <2>1, <2>2, <2>3, <2>4, MembersStutter DEF MembersNext
<1> QED
  BY <1>1, <1>2, PTL DEF MembersSpec

\* Every membership by invitation has a spent invitation of its own (accept of an invitation).
THEOREM JoinsHold == MembersSpec => []JoinsAreInvited
<1>1. MembersIInv => JoinsAreInvited
  <2> SUFFICES ASSUME MembersIInv
               PROVE  JoinsAreInvited
    OBVIOUS
  <2>1. TablesMatch
    BY DEF MembersIInv
  <2>2. MembersTypeOK
    <3>1. \A i \in DOMAIN invites : invites[i] \in Invitation
      BY <2>1 DEF TablesMatch
    <3> QED
      BY <2>1, <3>1 DEF TablesMatch, MembersTypeOK, AnyRole, Invitation
  <2>3. ASSUME NEW u \in Users
        PROVE  joins[u] <= Cardinality(Accepted(u))
    <3>1. joins[u] \in Nat /\ joins[u] + Cardinality(Joining(u)) <= Cardinality(Accepted(u))
      BY DEF MembersIInv, TablesMatch, JoinsCounted
    <3> QED
      BY <2>1, <3>1, JoiningFinite, AcceptedFinite
  <2> QED
    BY <2>2, <2>3 DEF JoinsAreInvited
<1> QED
  BY <1>1, MembersInvariance, PTL

\* A key that was revoked when its request arrived admits it to nothing, although the
\* organisation's own hash is looked up too.
THEOREM RevokedKeysHold == MembersSpec => []RevokedKeysStayOut
<1>1. MembersIInv => RevokedKeysStayOut
  <2> SUFFICES ASSUME MembersIInv, NEW q \in Desk, desk[q].at \in AdminOps,
                      "late" \in DOMAIN desk[q]
               PROVE  ~desk[q].late
    BY DEF RevokedKeysStayOut
  <2>1. PICK d \in DeskRecords : d = desk[q]
    BY DEF MembersIInv, TablesMatch
  <2>2. d \in [at : AdminOps, on : Keys, late : {FALSE}] \cup [at : AdminOps, on : Keys]
    BY <2>1, WaitingRecords DEF DeskRecords, AdminOps
  <2>3. CASE d \in [at : AdminOps, on : Keys, late : {FALSE}]
    BY <2>1, <2>3
  <2>4. d \notin [at : AdminOps, on : Keys]
    BY <2>1
  <2> QED
    BY <2>2, <2>3, <2>4
<1> QED
  BY <1>1, MembersInvariance, PTL

\* An organisation that was given an owner keeps one, unless two requests stood between their
\* guard and their write at a time.
THEOREM OwnersHold == MembersSpec => []OwnerLostOnlyInRace
<1>1. MembersIInv => OwnerLostOnlyInRace
  BY DEF MembersIInv, OwnersKept, OwnerLostOnlyInRace
<1> QED
  BY <1>1, MembersInvariance, PTL
-----------------------------------------------------------------------------
(* Accounts: the inductive invariant                                       *)

CallerRecords ==
    {Idle, Done}
    \cup [at : {"insertUser", "issueVerify"}, user : Emails]
    \cup [at : {"openSession"}, user : Emails, pw : Nat, welcome : BOOLEAN]
    \cup [at : {"consumed"}, user : Emails, pw : Nat,
          todo : {<<"markVerified">>, ResetSteps, <<"revokeAll">>}]
    \cup [at : {"findEmail", "createUser"}, user : Emails, sub : Subs, sure : BOOLEAN]
    \cup [at : {"insertLink"}, user : Emails, sub : Subs, pw : Nat, fresh : BOOLEAN]

SessionRecord == [user : Emails, pw : Nat, late : BOOLEAN, live : BOOLEAN]
TokenRecord == [user : Emails, kind : {"verify", "reset"}, used : BOOLEAN]

\* The rows name accounts that exist.
RowsMatch ==
    /\ Accounts \subseteq Emails
    /\ \A e \in Accounts : users[e] \in [pw : Nat, verified : BOOLEAN]
    /\ sessions \in Seq(SessionRecord)
    /\ \A s \in DOMAIN sessions : sessions[s].user \in Accounts
    /\ tokens \in Seq(TokenRecord)
    /\ \A t \in DOMAIN tokens : tokens[t].user \in Accounts
    /\ DOMAIN links \subseteq Subs
    /\ \A sub \in DOMAIN links : links[sub] \in [user : Accounts, fresh : BOOLEAN]
    /\ vouched \subseteq Subs \X Emails
    /\ resetTo \in [Emails -> Nat]

\* What a request has read, and what its next step relies on.
CallerMatches(r) ==
    LET c == caller[r]
    IN  /\ c \in CallerRecords
        /\ c.at \in {"issueVerify", "openSession", "consumed", "insertLink"} => c.user \in Accounts
        /\ c.at \in {"findEmail", "createUser"} /\ c.sure => <<c.sub, c.user>> \in vouched
        /\ c.at = "insertLink" => c.fresh \/ <<c.sub, c.user>> \in vouched
        /\ c.at = "consumed" /\ c.todo = <<"markVerified">>
              => Used(c.user, "verify") # {} /\ c.pw = 0
        /\ c.at = "consumed" /\ c.todo = <<"revokeAll">> => c.pw <= users[c.user].pw

CallersMatch == DOMAIN caller = Callers /\ \A r \in Callers : CallerMatches(r)

\* A spent reset token is a password that was written, or is about to be.
Resetting(e) ==
    {r \in Callers : caller[r].at = "consumed" /\ caller[r].user = e /\ caller[r].todo = ResetSteps}
PasswordsCounted ==
    \A e \in Accounts : users[e].pw + Cardinality(Resetting(e)) <= 1 + Cardinality(Used(e, "reset"))

VerifiedMatch ==
    /\ \A e \in Accounts :
          users[e].verified => Used(e, "verify") # {} \/ \E p \in vouched : p[2] = e
    /\ \A sub \in DOMAIN links : links[sub].fresh \/ <<sub, links[sub].user>> \in vouched

\* A reset that answered wrote the password that stands, or an older one.
ResetsMatch ==
    /\ \A e \in Emails : e \notin Accounts => resetTo[e] = 0
    /\ \A e \in Accounts : resetTo[e] <= users[e].pw
    /\ ResetEndsOlderSessions

AccountsIInv == RowsMatch /\ CallersMatch /\ PasswordsCounted /\ VerifiedMatch /\ ResetsMatch

-----------------------------------------------------------------------------
(* Accounts: what a step of one request leaves alone                       *)

\* A caller goes on alone.
LEMMA CallerGoes ==
    ASSUME CallersMatch, NEW r \in Callers, NEW next, Goes(r, next)
    PROVE  /\ DOMAIN caller' = Callers /\ caller'[r] = next
           /\ \A q \in Callers \ {r} : caller'[q] = caller[q]
  BY DEF CallersMatch, Goes

\* The records of a caller that has not begun and of one that has ended.
LEMMA EndRecords ==
    /\ Idle \in CallerRecords /\ Done \in CallerRecords
    /\ Idle.at = "idle" /\ Done.at = "done"
    /\ ResetSteps # <<"markVerified">> /\ ResetSteps # <<"revokeAll">>
    /\ <<"markVerified">> # <<"revokeAll">>
  BY DEF CallerRecords, Idle, Done, ResetSteps

\* What is known of a request by where it stands.
LEMMA CallerForms ==
    ASSUME CallersMatch, NEW r \in Callers
    PROVE  LET c == caller[r]
           IN  /\ c.at \in {"insertUser", "issueVerify"} =>
                     c \in [at : {"insertUser", "issueVerify"}, user : Emails]
               /\ c.at = "openSession" =>
                     c \in [at : {"openSession"}, user : Emails, pw : Nat, welcome : BOOLEAN]
               /\ c.at = "consumed" =>
                     c \in [at : {"consumed"}, user : Emails, pw : Nat,
                            todo : {<<"markVerified">>, ResetSteps, <<"revokeAll">>}]
               /\ c.at \in {"findEmail", "createUser"} =>
                     c \in [at : {"findEmail", "createUser"}, user : Emails, sub : Subs,
                            sure : BOOLEAN]
               /\ c.at = "insertLink" =>
                     c \in [at : {"insertLink"}, user : Emails, sub : Subs, pw : Nat,
                            fresh : BOOLEAN]
<1>1. PICK c \in CallerRecords : c = caller[r]
  BY DEF CallersMatch, CallerMatches
<1>2. \/ c.at \in {"idle", "done"}
      \/ c \in [at : {"insertUser", "issueVerify"}, user : Emails]
      \/ c \in [at : {"openSession"}, user : Emails, pw : Nat, welcome : BOOLEAN]
      \/ c \in [at : {"consumed"}, user : Emails, pw : Nat,
                todo : {<<"markVerified">>, ResetSteps, <<"revokeAll">>}]
      \/ c \in [at : {"findEmail", "createUser"}, user : Emails, sub : Subs, sure : BOOLEAN]
      \/ c \in [at : {"insertLink"}, user : Emails, sub : Subs, pw : Nat, fresh : BOOLEAN]
  BY <1>1, EndRecords DEF CallerRecords
<1> QED
  BY <1>1, <1>2

\* A spent token, field by field.
LEMMA UsedAre ==
    ASSUME RowsMatch, NEW e, NEW kind
    PROVE  \A t : t \in Used(e, kind) <=>
                     t \in DOMAIN tokens /\ tokens[t].user = e /\ tokens[t].kind = kind
                                /\ tokens[t].used
<1>1. \A t \in DOMAIN tokens : tokens[t] \in TokenRecord
  BY DEF RowsMatch
<1>2. ASSUME NEW t \in DOMAIN tokens
      PROVE  tokens[t] = [user |-> e, kind |-> kind, used |-> TRUE] <=>
                tokens[t].user = e /\ tokens[t].kind = kind /\ tokens[t].used
  BY <1>1 DEF TokenRecord
<1> QED
  BY <1>2 DEF Used

\* Used tokens are rows, of which there are finitely many.
LEMMA UsedFinite ==
    ASSUME RowsMatch, NEW e, NEW kind
    PROVE  IsFiniteSet(Used(e, kind)) /\ Cardinality(Used(e, kind)) \in Nat
<1>1. Used(e, kind) \subseteq 1 .. Len(tokens) /\ Len(tokens) \in Nat
  BY DEF RowsMatch, Used
<1>2. IsFiniteSet(1 .. Len(tokens))
  BY <1>1, FS_Interval
<1> QED
  BY <1>1, <1>2, FS_Subset, FS_CardinalityType

\* So they are after the step.
LEMMA UsedFiniteNext ==
    ASSUME RowsMatch', NEW e, NEW kind
    PROVE  IsFiniteSet(Used(e, kind)') /\ Cardinality(Used(e, kind)') \in Nat
<1>1. Used(e, kind)' \subseteq 1 .. Len(tokens') /\ Len(tokens') \in Nat
  BY DEF RowsMatch, Used
<1>2. IsFiniteSet(1 .. Len(tokens'))
  BY <1>1, FS_Interval
<1> QED
  BY <1>1, <1>2, FS_Subset, FS_CardinalityType

\* Callers are finitely many, so those that reset a password are.
LEMMA ResettingFinite ==
    ASSUME NEW e
    PROVE  /\ IsFiniteSet(Resetting(e)) /\ Cardinality(Resetting(e)) \in Nat
           /\ IsFiniteSet(Resetting(e)') /\ Cardinality(Resetting(e)') \in Nat
<1>1. Resetting(e) \subseteq Callers /\ Resetting(e)' \subseteq Callers
  BY DEF Resetting
<1> QED
  BY <1>1, AccountsAssumption, FS_Subset, FS_CardinalityType

\* Accounts stay, passwords only move on, and what was spent or vouched for stays so.
AccountsGrow ==
    /\ \A e \in Accounts : e \in Accounts' /\ users[e].pw <= users'[e].pw
    /\ \A e : /\ Used(e, "verify") \subseteq Used(e, "verify")'
              /\ Used(e, "reset") \subseteq Used(e, "reset")'
    /\ vouched \subseteq vouched'

\* As long as rows only gain, one caller that moves leaves the others as they were.
LEMMA CallersKept ==
    ASSUME RowsMatch, RowsMatch', CallersMatch, AccountsGrow, NEW r \in Callers, NEW next,
           Goes(r, next), CallerMatches(r)'
    PROVE  CallersMatch'
<1>1. /\ DOMAIN caller' = Callers /\ \A q \in Callers \ {r} : caller'[q] = caller[q]
  BY CallerGoes
<1>2. ASSUME NEW q \in Callers \ {r}
      PROVE  CallerMatches(q)'
  <2>1. PICK c : c = caller[q] /\ c = caller'[q]
    BY <1>1
  <2>2. PICK u : u = c.user
    OBVIOUS
  <2>3. /\ c.at \in {"issueVerify", "openSession", "consumed", "insertLink"} => u \in Accounts
        /\ c.at \in {"findEmail", "createUser"} /\ c.sure => <<c.sub, u>> \in vouched
        /\ c.at = "insertLink" => c.fresh \/ <<c.sub, u>> \in vouched
        /\ c.at = "consumed" /\ c.todo = <<"markVerified">> => Used(u, "verify") # {} /\ c.pw = 0
        /\ c.at = "consumed" /\ c.todo = <<"revokeAll">> => c.pw <= users[u].pw
        /\ c \in CallerRecords
    BY <2>1, <2>2 DEF CallersMatch, CallerMatches
  <2>4. Used(u, "verify") # {} => Used(u, "verify")' # {}
    BY DEF AccountsGrow
  <2>5. ASSUME c.at = "consumed", c.todo = <<"revokeAll">>
        PROVE  c.pw <= users'[u].pw
    <3>1. c.pw \in Nat /\ u \in Accounts
      BY <2>1, <2>3, <2>5, CallerForms
    <3>2. users[u].pw \in Nat /\ users'[u].pw \in Nat /\ users[u].pw <= users'[u].pw
      BY <3>1 DEF RowsMatch, AccountsGrow
    <3> QED
      BY <2>3, <2>5, <3>1, <3>2
  <2> QED
    BY <2>1, <2>2, <2>3, <2>4, <2>5 DEF CallerMatches, AccountsGrow
<1> QED
  BY <1>1, <1>2 DEF CallersMatch

\* No reset begins, and no password is written.
LEMMA PasswordsKept ==
    ASSUME RowsMatch, RowsMatch', PasswordsCounted, AccountsGrow,
           \A e \in Emails : Resetting(e)' \subseteq Resetting(e),
           \A e \in Accounts : users'[e].pw = users[e].pw,
           \A e \in Accounts' \ Accounts : users'[e].pw <= 1 /\ Resetting(e) = {}
    PROVE  PasswordsCounted'
<1> SUFFICES ASSUME NEW e \in Accounts'
             PROVE  users'[e].pw + Cardinality(Resetting(e)') <= 1 + Cardinality(Used(e, "reset")')
  BY DEF PasswordsCounted
<1>1. users'[e].pw \in Nat /\ e \in Emails
  BY DEF RowsMatch
<1>2. IsFiniteSet(Used(e, "reset")') /\ Cardinality(Used(e, "reset")') \in Nat
  BY UsedFiniteNext
<1>3. Cardinality(Used(e, "reset")) <= Cardinality(Used(e, "reset")')
  BY <1>2, FS_Subset DEF AccountsGrow
<1>4. Cardinality(Resetting(e)') <= Cardinality(Resetting(e))
  BY <1>1, ResettingFinite, FS_Subset
<1>5. CASE e \in Accounts
  <2>1. users[e].pw + Cardinality(Resetting(e)) <= 1 + Cardinality(Used(e, "reset"))
        /\ users'[e].pw = users[e].pw
    BY <1>5 DEF PasswordsCounted
  <2> QED
    BY <1>1, <1>2, <1>3, <1>4, <2>1, ResettingFinite, UsedFinite
<1>6. CASE e \notin Accounts
  <2>1. users'[e].pw <= 1 /\ Cardinality(Resetting(e)) = 0
    BY <1>6, FS_EmptySet
  <2> QED
    BY <1>1, <1>2, <1>4, <2>1, ResettingFinite
<1> QED
  BY <1>5, <1>6

\* No session is opened or ended, and no reset answers.
LEMMA ResetsKept ==
    ASSUME RowsMatch, RowsMatch', ResetsMatch, AccountsGrow, UNCHANGED <<sessions, resetTo>>
    PROVE  ResetsMatch'
<1>1. \A e \in Emails : e \notin Accounts' => resetTo'[e] = 0
  BY DEF ResetsMatch, AccountsGrow
<1>2. ASSUME NEW e \in Accounts'
      PROVE  resetTo'[e] <= users'[e].pw
  <2>1. e \in Emails /\ users'[e].pw \in Nat /\ resetTo[e] \in Nat
    BY DEF RowsMatch
  <2>2. CASE e \in Accounts
    <3>1. users[e].pw \in Nat /\ resetTo[e] <= users[e].pw /\ users[e].pw <= users'[e].pw
      BY <2>2 DEF RowsMatch, ResetsMatch, AccountsGrow
    <3> QED
      BY <2>1, <3>1
  <2>3. CASE e \notin Accounts
    BY <2>1, <2>3 DEF ResetsMatch
  <2> QED
    BY <2>2, <2>3
<1>3. ResetEndsOlderSessions'
  BY DEF ResetsMatch, ResetEndsOlderSessions
<1> QED
  BY <1>1, <1>2, <1>3 DEF ResetsMatch

\* A request that only reads, and goes where it matches.
LEMMA ReadingCaller ==
    ASSUME AccountsIInv, NEW r \in Callers, NEW next \in CallerRecords, Goes(r, next),
           UNCHANGED <<accountTables, resetTo>>, vouched \subseteq vouched', RowsMatch',
           CallerMatches(r)', next.at # "consumed"
    PROVE  AccountsIInv'
<1>1. AccountsGrow
  BY DEF AccountsGrow, accountTables, Accounts, Used, AccountsIInv, RowsMatch
<1>2. CallersMatch'
  BY <1>1, CallersKept DEF AccountsIInv
<1>3. PasswordsCounted'
  <2>1. \A e \in Emails : Resetting(e)' \subseteq Resetting(e)
    BY CallerGoes DEF Resetting, AccountsIInv
  <2>2. /\ \A e \in Accounts : users'[e].pw = users[e].pw
        /\ \A e \in Accounts' \ Accounts : users'[e].pw <= 1 /\ Resetting(e) = {}
    BY DEF Accounts, accountTables
  <2> QED
    BY <1>1, <2>1, <2>2, PasswordsKept DEF AccountsIInv
<1>4. VerifiedMatch'
  BY DEF VerifiedMatch, Accounts, Used, accountTables, AccountsIInv
<1>5. ResetsMatch'
  BY <1>1, ResetsKept DEF AccountsIInv, accountTables
<1> QED
  BY <1>2, <1>3, <1>4, <1>5 DEF AccountsIInv

-----------------------------------------------------------------------------
(* Accounts: every step keeps the invariant                                *)

\* A request about to open a session knows a password of an account.
LEMMA OpeningMatches ==
    ASSUME AccountsIInv, NEW r \in Callers, NEW e, NEW pw \in Nat, NEW welcome \in BOOLEAN,
           Goes(r, Opening(e, pw, welcome)), e \in Accounts', e \in Emails
    PROVE  CallerMatches(r)' /\ Opening(e, pw, welcome) \in CallerRecords
           /\ Opening(e, pw, welcome).at = "openSession"
<1>1. /\ Opening(e, pw, welcome)
            \in [at : {"openSession"}, user : Emails, pw : Nat, welcome : BOOLEAN]
      /\ Opening(e, pw, welcome).user = e
  BY DEF Opening
<1>2. caller'[r] = Opening(e, pw, welcome)
  BY CallerGoes DEF AccountsIInv
<1> QED
  BY <1>1, <1>2 DEF CallerMatches, CallerRecords

\* A caller that has ended claims nothing.
LEMMA EndMatches ==
    ASSUME AccountsIInv, NEW r \in Callers, Goes(r, Done)
    PROVE  CallerMatches(r)'
<1>1. caller'[r] = Done
  BY CallerGoes DEF AccountsIInv
<1> QED
  BY <1>1, EndRecords DEF CallerMatches

\* A request arrives, or is cut off: no row changes.
LEMMA ArrivalPreserves ==
    ASSUME AccountsIInv, NEW r \in Callers,
           \/ \E e \in Emails : Register(r, e) \/ Login(r, e)
           \/ StopCaller(r)
    PROVE  AccountsIInv'
<1>0. UNCHANGED <<accountTables, accountHistory>>
  BY DEF Register, Login, StopCaller
<1>1. RowsMatch'
  BY <1>0 DEF RowsMatch, AccountsIInv, accountTables, accountHistory, Accounts
<1>2. CASE Goes(r, Done)
  BY <1>0, <1>1, <1>2, EndMatches, EndRecords, ReadingCaller DEF accountHistory
<1>3. ASSUME NEW e \in Emails, Goes(r, [at |-> "insertUser", user |-> e])
      PROVE  AccountsIInv'
  <2> DEFINE next == [at |-> "insertUser", user |-> e]
  <2>1. next \in CallerRecords /\ next.at = "insertUser"
    BY DEF CallerRecords
  <2> HIDE DEF next
  <2>2. Goes(r, next) /\ caller'[r] = next
    BY <1>3, CallerGoes DEF next, AccountsIInv
  <2>3. CallerMatches(r)'
    BY <2>1, <2>2 DEF CallerMatches
  <2> QED
    BY <1>0, <1>1, <2>1, <2>2, <2>3, ReadingCaller DEF accountHistory
<1>4. ASSUME NEW e \in Emails, Login(r, e)
      PROVE  AccountsIInv'
  <2>1. e \in Accounts /\ users[e].pw \in Nat /\ Goes(r, Opening(e, users[e].pw, FALSE))
    BY <1>4 DEF Login, AccountsIInv, RowsMatch
  <2>2. e \in Accounts'
    BY <1>0, <2>1 DEF Accounts, accountTables
  <2>3. CallerMatches(r)' /\ Opening(e, users[e].pw, FALSE) \in CallerRecords
        /\ Opening(e, users[e].pw, FALSE).at = "openSession"
    BY <2>1, <2>2, OpeningMatches
  <2> QED
    BY <1>0, <1>1, <2>1, <2>3, ReadingCaller DEF accountHistory
<1> QED
  BY <1>2, <1>3, <1>4 DEF Register, StopCaller

\* The provider's answer, and what it has vouched for.
LEMMA CallbackPreserves ==
    ASSUME AccountsIInv, NEW r \in Callers, NEW sub \in Subs, NEW e \in Emails,
           NEW claim \in EmailClaims, Callback(r, sub, e, claim)
    PROVE  AccountsIInv'
<1>0. /\ UNCHANGED <<accountTables, resetTo>>
      /\ vouched \subseteq vouched' /\ vouched' \subseteq Subs \X Emails
      /\ (EmailVerified(claim) => <<sub, e>> \in vouched') /\ EmailVerified(claim) \in BOOLEAN
  BY DEF Callback, AccountsIInv, RowsMatch, EmailVerified
<1>1. RowsMatch'
  BY <1>0 DEF RowsMatch, AccountsIInv, accountTables, Accounts
<1>2. CASE sub \in DOMAIN links
  <2> DEFINE u == links[sub].user
  <2>1. u \in Accounts /\ u \in Emails
    BY <1>2 DEF AccountsIInv, RowsMatch
  <2>2. users[u].pw \in Nat /\ Goes(r, Opening(u, users[u].pw, FALSE)) /\ u \in Accounts'
    BY <1>0, <1>2, <2>1 DEF Callback, AccountsIInv, RowsMatch, Accounts, accountTables
  <2>3. CallerMatches(r)' /\ Opening(u, users[u].pw, FALSE) \in CallerRecords
        /\ Opening(u, users[u].pw, FALSE).at = "openSession"
    BY <2>1, <2>2, OpeningMatches
  <2> QED
    BY <1>0, <1>1, <2>2, <2>3, ReadingCaller
<1>3. CASE sub \notin DOMAIN links
  <2> DEFINE next == [at |-> "findEmail", user |-> e, sub |-> sub, sure |-> EmailVerified(claim)]
  <2>1. /\ next \in CallerRecords /\ next.at = "findEmail"
        /\ next.user = e /\ next.sub = sub /\ next.sure = EmailVerified(claim)
    BY <1>0 DEF CallerRecords
  <2>2. Goes(r, next)
    BY <1>3 DEF Callback
  <2> HIDE DEF next
  <2>3. caller'[r] = next
    BY <2>2, CallerGoes DEF AccountsIInv
  <2>4. CallerMatches(r)'
    BY <1>0, <2>1, <2>3 DEF CallerMatches
  <2> QED
    BY <1>0, <1>1, <2>1, <2>2, <2>4, ReadingCaller
<1> QED
  BY <1>2, <1>3

\* A new row of users, written by a registration or a callback.
LEMMA UserInserted ==
    ASSUME AccountsIInv, NEW r \in Callers, NEW next \in CallerRecords, Goes(r, next),
           NEW e \in Emails, e \notin Accounts, NEW row \in [pw : {0, 1}, verified : BOOLEAN],
           users' = Put(users, e, row), row.verified => \E p \in vouched : p[2] = e,
           UNCHANGED <<sessions, tokens, links, accountHistory>>, CallerMatches(r)',
           next.at # "consumed"
    PROVE  AccountsIInv'
<1>1. /\ Accounts' = Accounts \cup {e} /\ users'[e] = row
      /\ \A u \in Accounts : users'[u] = users[u]
  BY DEF Put, Accounts
<1>2. RowsMatch /\ row \in [pw : Nat, verified : BOOLEAN]
  BY DEF AccountsIInv
<1>3. RowsMatch'
  BY <1>1, <1>2 DEF RowsMatch, accountHistory
<1>4. AccountsGrow
  <2>1. \A u \in Accounts : users[u].pw \in Nat
    BY <1>2 DEF RowsMatch
  <2> QED
    BY <1>1, <2>1 DEF AccountsGrow, Used, accountHistory
<1>5. CallersMatch'
  BY <1>3, <1>4, CallersKept DEF AccountsIInv
<1>6. PasswordsCounted'
  <2>1. \A u \in Emails : Resetting(u)' \subseteq Resetting(u)
    BY CallerGoes DEF Resetting, AccountsIInv
  <2>2. Resetting(e) = {}
    BY DEF Resetting, AccountsIInv, CallersMatch, CallerMatches
  <2> QED
    BY <1>1, <1>3, <1>4, <2>1, <2>2, PasswordsKept DEF AccountsIInv
<1>7. VerifiedMatch'
  BY <1>1 DEF VerifiedMatch, Used, AccountsIInv, accountHistory
<1>8. ResetsMatch'
  BY <1>3, <1>4, ResetsKept DEF AccountsIInv, accountHistory
<1> QED
  BY <1>3, <1>5, <1>6, <1>7, <1>8 DEF AccountsIInv

\* A row inserted for a new user, by registration or for an OAuth identity.
LEMMA InsertUserPreserves ==
    ASSUME AccountsIInv, NEW r \in Callers, RegisterInsert(r) \/ CreateOAuthUser(r)
    PROVE  AccountsIInv'
<1> DEFINE c == caller[r]  e == caller[r].user
<1>0. UNCHANGED <<sessions, tokens, links, accountHistory>> /\ e \in Emails
  BY CallerForms DEF RegisterInsert, CreateOAuthUser, AccountsIInv
<1>1. CASE Goes(r, Done) /\ UNCHANGED users
  <2>1. RowsMatch'
    BY <1>0, <1>1 DEF RowsMatch, AccountsIInv, accountHistory, Accounts
  <2> QED
    BY <1>0, <1>1, <2>1, EndMatches, EndRecords, ReadingCaller DEF accountHistory, accountTables
<1>2. CASE RegisterInsert(r) /\ e \notin Accounts
  <2>1. users' = Put(users, e, [pw |-> 1, verified |-> FALSE]) /\ Goes(r, Opening(e, 1, TRUE))
    BY <1>2 DEF RegisterInsert
  <2>2. e \in Accounts'
    BY <2>1 DEF Put, Accounts
  <2>3. PICK row \in [pw : {0, 1}, verified : BOOLEAN] :
           row = [pw |-> 1, verified |-> FALSE] /\ ~row.verified
    <3>1. PICK new : new = [pw |-> 1, verified |-> FALSE]
      OBVIOUS
    <3>2. new \in [pw : {0, 1}, verified : BOOLEAN] /\ ~new.verified
      BY <3>1
    <3> QED
      BY <3>1, <3>2
  <2>4. CallerMatches(r)' /\ Opening(e, 1, TRUE) \in CallerRecords
        /\ Opening(e, 1, TRUE).at = "openSession"
    BY <1>0, <2>1, <2>2, OpeningMatches
  <2> QED
    BY <1>0, <1>2, <2>1, <2>3, <2>4, UserInserted
<1>3. CASE CreateOAuthUser(r) /\ e \notin Accounts
  <2>0. /\ c \in [at : {"findEmail", "createUser"}, user : Emails, sub : Subs, sure : BOOLEAN]
        /\ c.sure => <<c.sub, e>> \in vouched
    BY <1>3, CallerForms DEF CreateOAuthUser, AccountsIInv, CallersMatch, CallerMatches
  <2>1. users' = Put(users, e, [pw |-> 0, verified |-> c.sure]) /\ Goes(r, Linking(c, 0, TRUE))
    BY <1>3 DEF CreateOAuthUser
  <2>2. e \in Accounts'
    BY <2>1 DEF Put, Accounts
  <2>3. PICK row \in [pw : {0, 1}, verified : BOOLEAN] :
           row = [pw |-> 0, verified |-> c.sure] /\ row.verified = c.sure
    <3>1. PICK new : new = [pw |-> 0, verified |-> c.sure]
      OBVIOUS
    <3>2. new \in [pw : {0, 1}, verified : BOOLEAN] /\ new.verified = c.sure
      BY <2>0, <3>1
    <3> QED
      BY <3>1, <3>2
  <2>4. row.verified => \E p \in vouched : p[2] = e
    BY <2>0, <2>3
  <2>5. /\ Linking(c, 0, TRUE) \in [at : {"insertLink"}, user : Emails, sub : Subs, pw : Nat,
                                    fresh : BOOLEAN]
        /\ Linking(c, 0, TRUE).user = e /\ Linking(c, 0, TRUE).fresh
    BY <1>0, <2>0 DEF Linking
  <2>6. caller'[r] = Linking(c, 0, TRUE)
    BY <2>1, CallerGoes DEF AccountsIInv
  <2>7. CallerMatches(r)' /\ Linking(c, 0, TRUE) \in CallerRecords
        /\ Linking(c, 0, TRUE).at # "consumed"
    BY <2>2, <2>5, <2>6 DEF CallerMatches, CallerRecords
  <2> QED
    BY <1>0, <1>3, <2>1, <2>3, <2>4, <2>7, UserInserted
<1> QED
  BY <1>1, <1>2, <1>3 DEF RegisterInsert, CreateOAuthUser

\* The address has an account: it is linked only if the provider has verified it.
LEMMA FindPreserves ==
    ASSUME AccountsIInv, NEW r \in Callers, FindByEmail(r)
    PROVE  AccountsIInv'
<1> DEFINE c == caller[r]  e == caller[r].user
<1>0. /\ UNCHANGED <<sessions, tokens, links, accountHistory>> /\ c.at = "findEmail"
      /\ c \in [at : {"findEmail", "createUser"}, user : Emails, sub : Subs, sure : BOOLEAN]
      /\ (c.sure => <<c.sub, e>> \in vouched)
  BY CallerForms DEF FindByEmail, AccountsIInv, CallersMatch, CallerMatches
<1>1. ASSUME UNCHANGED users
      PROVE  RowsMatch'
  BY <1>0, <1>1 DEF RowsMatch, AccountsIInv, accountHistory, Accounts
<1>2. CASE Goes(r, Done) /\ UNCHANGED users
  BY <1>0, <1>1, <1>2, EndMatches, EndRecords, ReadingCaller DEF accountHistory, accountTables
<1>3. CASE Goes(r, [c EXCEPT !.at = "createUser"]) /\ UNCHANGED users
  <2> DEFINE next == [c EXCEPT !.at = "createUser"]
  <2>1. next \in [at : {"createUser"}, user : {e}, sub : {c.sub}, sure : {c.sure}]
    BY <1>0
  <2> HIDE DEF next
  <2>2. Goes(r, next) /\ caller'[r] = next
    BY <1>3, CallerGoes DEF next, AccountsIInv
  <2>3. next \in CallerRecords /\ next.at = "createUser"
    BY <1>0, <2>1 DEF CallerRecords
  <2>4. CallerMatches(r)'
    BY <1>0, <2>1, <2>2, <2>3 DEF CallerMatches, accountHistory
  <2> QED
    BY <1>0, <1>1, <1>3, <2>2, <2>3, <2>4, ReadingCaller DEF accountHistory, accountTables
<1>4. CASE /\ e \in Accounts /\ c.sure /\ users' = [users EXCEPT ![e].verified = TRUE]
           /\ Goes(r, Linking(c, users[e].pw, FALSE))
  <2> DEFINE next == Linking(c, users[e].pw, FALSE)
  <2>1. RowsMatch /\ users[e] \in [pw : Nat, verified : BOOLEAN]
    BY <1>4 DEF AccountsIInv, RowsMatch
  <2>2. /\ Accounts' = Accounts /\ users'[e] \in [pw : {users[e].pw}, verified : {TRUE}]
        /\ \A u \in Accounts \ {e} : users'[u] = users[u]
    BY <1>4, <2>1 DEF Accounts
  <2>3. \A u \in Accounts : users'[u].pw = users[u].pw /\ users[u].pw \in Nat
    BY <2>1, <2>2 DEF RowsMatch
  <2>4. RowsMatch'
    BY <1>0, <2>1, <2>2 DEF RowsMatch, accountHistory
  <2>5. AccountsGrow
    BY <1>0, <2>2, <2>3 DEF AccountsGrow, Used, accountHistory
  <2>6. /\ next \in [at : {"insertLink"}, user : {e}, sub : {c.sub}, pw : Nat, fresh : BOOLEAN]
    BY <1>0, <2>1 DEF Linking
  <2> HIDE DEF next
  <2>7. Goes(r, next) /\ caller'[r] = next /\ \A q \in Callers \ {r} : caller'[q] = caller[q]
    BY <1>4, CallerGoes DEF next, AccountsIInv
  <2>8. next \in CallerRecords /\ next.at = "insertLink"
    BY <1>0, <2>6 DEF CallerRecords
  <2>9. CallerMatches(r)'
    BY <1>0, <1>4, <2>2, <2>6, <2>7, <2>8 DEF CallerMatches, accountHistory
  <2>10. CallersMatch'
    BY <2>4, <2>5, <2>7, <2>9, CallersKept DEF AccountsIInv
  <2>11. PasswordsCounted'
    <3>1. \A u \in Emails : Resetting(u)' \subseteq Resetting(u)
      BY <2>7, <2>8 DEF Resetting
    <3> QED
      BY <2>2, <2>3, <2>4, <2>5, <3>1, PasswordsKept DEF AccountsIInv
  <2>12. VerifiedMatch'
    <3>1. <<c.sub, e>> \in vouched /\ <<c.sub, e>>[2] = e
      BY <1>0, <1>4
    <3> QED
      BY <1>0, <2>2, <3>1 DEF VerifiedMatch, Used, AccountsIInv, accountHistory
  <2>13. ResetsMatch'
    BY <1>0, <2>4, <2>5, ResetsKept DEF AccountsIInv, accountHistory
  <2> QED
    BY <2>4, <2>10, <2>11, <2>12, <2>13 DEF AccountsIInv
<1> QED
  BY <1>2, <1>3, <1>4 DEF FindByEmail

\* The link of a provider's account: fresh with the account it made, vouched for with another.
LEMMA LinkPreserves ==
    ASSUME AccountsIInv, NEW r \in Callers, InsertLink(r)
    PROVE  AccountsIInv'
<1> DEFINE c == caller[r]
<1>0. /\ UNCHANGED <<users, sessions, tokens, accountHistory>>
      /\ c \in [at : {"insertLink"}, user : Emails, sub : Subs, pw : Nat, fresh : BOOLEAN]
      /\ c.user \in Accounts /\ (c.fresh \/ <<c.sub, c.user>> \in vouched)
  BY CallerForms DEF InsertLink, AccountsIInv, CallersMatch, CallerMatches
<1>1. CASE Goes(r, Done) /\ UNCHANGED links
  <2>1. RowsMatch'
    BY <1>0, <1>1 DEF RowsMatch, AccountsIInv, accountHistory, Accounts
  <2> QED
    BY <1>0, <1>1, <2>1, EndMatches, EndRecords, ReadingCaller DEF accountHistory, accountTables
<1>2. CASE /\ links' = Put(links, c.sub, [user |-> c.user, fresh |-> c.fresh])
           /\ Goes(r, Opening(c.user, c.pw, FALSE))
  <2>1. PICK row \in [user : Accounts, fresh : BOOLEAN] :
           /\ row.user = c.user /\ row.fresh = c.fresh
           /\ links' = Put(links, c.sub, row)
    <3>1. PICK new : new = [user |-> c.user, fresh |-> c.fresh]
      OBVIOUS
    <3>2. new \in [user : Accounts, fresh : BOOLEAN] /\ new.user = c.user /\ new.fresh = c.fresh
      BY <1>0, <3>1
    <3> QED
      BY <1>2, <3>1, <3>2
  <2>2. /\ DOMAIN links' = DOMAIN links \cup {c.sub} /\ links'[c.sub] = row
        /\ \A s \in DOMAIN links \ {c.sub} : links'[s] = links[s]
    BY <2>1 DEF Put
  <2>3. UNCHANGED Accounts /\ RowsMatch
    BY <1>0 DEF Accounts, AccountsIInv
  <2>4. RowsMatch'
    BY <1>0, <2>2, <2>3 DEF RowsMatch, accountHistory
  <2>5. AccountsGrow
    BY <1>0, <2>3 DEF AccountsGrow, Used, accountHistory, RowsMatch
  <2>6. CallerMatches(r)' /\ Opening(c.user, c.pw, FALSE).at = "openSession"
    <3>1. PICK u \in Emails, pw \in Nat : u = c.user /\ pw = c.pw
      BY <1>0
    <3>2. Goes(r, Opening(u, pw, FALSE)) /\ u \in Accounts'
      BY <1>0, <1>2, <2>3, <3>1
    <3> QED
      BY <3>1, <3>2, OpeningMatches
  <2>7. CallersMatch'
    BY <1>2, <2>3, <2>4, <2>5, <2>6, CallersKept DEF AccountsIInv
  <2>8. PasswordsCounted'
    <3>1. \A u \in Emails : Resetting(u)' \subseteq Resetting(u)
      BY <1>2, <2>6, CallerGoes DEF Resetting, AccountsIInv
    <3> QED
      BY <1>0, <2>3, <2>4, <2>5, <3>1, PasswordsKept DEF AccountsIInv
  <2>9. VerifiedMatch'
    BY <1>0, <2>1, <2>2, <2>3 DEF VerifiedMatch, Used, AccountsIInv, accountHistory
  <2>10. ResetsMatch'
    BY <1>0, <2>3, <2>4, <2>5, ResetsKept DEF AccountsIInv, accountHistory
  <2> QED
    BY <2>4, <2>7, <2>8, <2>9, <2>10 DEF AccountsIInv
<1> QED
  BY <1>1, <1>2 DEF InsertLink

\* Sessions are opened on the password the request read; a superseded one is late.
LEMMA SessionPreserves ==
    ASSUME AccountsIInv, NEW r \in Callers, OpenSession(r)
    PROVE  AccountsIInv'
<1> DEFINE c == caller[r]
<1>1. PICK u \in Accounts, pw \in Nat, welcome \in BOOLEAN :
         u = c.user /\ pw = c.pw /\ welcome = c.welcome /\ u \in Emails
  BY CallerForms DEF OpenSession, AccountsIInv, CallersMatch, CallerMatches
<1>2. PICK s \in SessionRecord :
         /\ s.user = u /\ s.pw = pw /\ (s.late <=> users[u].pw # pw)
         /\ sessions' = Append(sessions, s)
  <2>1. PICK s : s = [user |-> u, pw |-> pw, late |-> users[u].pw # pw, live |-> TRUE]
    OBVIOUS
  <2>2. s \in SessionRecord /\ s.user = u /\ s.pw = pw /\ (s.late <=> users[u].pw # pw)
    BY <1>1, <2>1 DEF SessionRecord
  <2>3. sessions' = Append(sessions, s)
    BY <1>1, <2>1 DEF OpenSession
  <2> QED
    BY <2>2, <2>3
<1>3. UNCHANGED <<users, tokens, links, accountHistory>> /\ UNCHANGED Accounts /\ RowsMatch
  BY DEF OpenSession, Accounts, AccountsIInv
<1>4. /\ sessions' \in Seq(SessionRecord)
      /\ \A i \in DOMAIN sessions' :
            sessions'[i] = s \/ (i \in DOMAIN sessions /\ sessions'[i] = sessions[i])
  BY <1>2, <1>3 DEF RowsMatch
<1>5. \A i \in DOMAIN sessions' : sessions'[i].user \in Accounts
  BY <1>1, <1>2, <1>3, <1>4 DEF RowsMatch
<1>6. RowsMatch'
  BY <1>3, <1>4, <1>5 DEF RowsMatch, accountHistory
<1>7. AccountsGrow
  BY <1>3 DEF AccountsGrow, Used, accountHistory, RowsMatch
<1>8. PICK next \in CallerRecords : Goes(r, next) /\ CallerMatches(r)' /\ next.at # "consumed"
  <2>1. CASE Goes(r, Done)
    BY <2>1, EndMatches, EndRecords
  <2>2. CASE Goes(r, [at |-> "issueVerify", user |-> u])
    <3> DEFINE next == [at |-> "issueVerify", user |-> u]
    <3>1. next \in CallerRecords /\ next.at = "issueVerify" /\ next.user = u
      BY <1>1 DEF CallerRecords
    <3> HIDE DEF next
    <3>2. Goes(r, next) /\ caller'[r] = next
      BY <2>2, CallerGoes DEF next, AccountsIInv
    <3>3. CallerMatches(r)'
      BY <1>3, <3>1, <3>2 DEF CallerMatches
    <3> QED
      BY <3>1, <3>2, <3>3
  <2> QED
    BY <1>1, <2>1, <2>2 DEF OpenSession
<1>9. CallersMatch'
  BY <1>6, <1>7, <1>8, CallersKept DEF AccountsIInv
<1>10. PasswordsCounted'
  <2>1. \A e \in Emails : Resetting(e)' \subseteq Resetting(e)
    BY <1>8, CallerGoes DEF Resetting, AccountsIInv
  <2> QED
    BY <1>3, <1>6, <1>7, <2>1, PasswordsKept DEF AccountsIInv
<1>11. VerifiedMatch'
  BY <1>3 DEF VerifiedMatch, Used, AccountsIInv, accountHistory
<1>12. ResetsMatch'
  <2>1. resetTo[u] \in Nat /\ users[u].pw \in Nat /\ resetTo[u] <= users[u].pw
    BY <1>1, <1>3 DEF AccountsIInv, RowsMatch, ResetsMatch
  <2>2. s.pw < resetTo[s.user] => s.late
    BY <1>2, <2>1
  <2>3. ResetEndsOlderSessions'
    BY <1>3, <1>4, <2>2 DEF AccountsIInv, ResetsMatch, ResetEndsOlderSessions, accountHistory
  <2> QED
    BY <1>3, <2>3 DEF AccountsIInv, ResetsMatch, accountHistory
<1> QED
  BY <1>6, <1>9, <1>10, <1>11, <1>12 DEF AccountsIInv

\* A session is revoked by its own token.
LEMMA LogoutPreserves ==
    ASSUME AccountsIInv, NEW s \in DOMAIN sessions, Logout(s)
    PROVE  AccountsIInv'
<1>1. UNCHANGED <<users, tokens, links, caller, accountHistory>> /\ UNCHANGED Accounts /\ RowsMatch
  BY DEF Logout, Accounts, AccountsIInv
<1>2. sessions \in Seq(SessionRecord) /\ sessions[s] \in SessionRecord /\ s \in 1 .. Len(sessions)
  BY <1>1 DEF RowsMatch
<1>3. PICK x \in SessionRecord :
         x.user = sessions[s].user /\ ~x.live /\ sessions' = [sessions EXCEPT ![s] = x]
  <2>1. /\ [sessions[s] EXCEPT !.live = FALSE] \in SessionRecord
        /\ ~[sessions[s] EXCEPT !.live = FALSE].live
        /\ [sessions[s] EXCEPT !.live = FALSE].user = sessions[s].user
    BY <1>2 DEF SessionRecord
  <2> QED
    BY <2>1 DEF Logout
<1>4. /\ sessions' \in Seq(SessionRecord) /\ DOMAIN sessions' = DOMAIN sessions /\ sessions'[s] = x
      /\ \A i \in DOMAIN sessions \ {s} : sessions'[i] = sessions[i]
  BY <1>2, <1>3
<1>5. \A i \in DOMAIN sessions' : sessions'[i].user \in Accounts
  BY <1>1, <1>3, <1>4 DEF RowsMatch
<1>6. RowsMatch'
  BY <1>1, <1>4, <1>5 DEF RowsMatch, accountHistory
<1>7. CallersMatch' /\ PasswordsCounted' /\ VerifiedMatch'
  BY <1>1 DEF AccountsIInv, CallersMatch, CallerMatches, PasswordsCounted, Resetting, VerifiedMatch,
              Used, accountHistory
<1>8. ResetEndsOlderSessions'
  BY <1>1, <1>3, <1>4 DEF AccountsIInv, ResetsMatch, ResetEndsOlderSessions, accountHistory
<1> QED
  BY <1>1, <1>6, <1>7, <1>8 DEF AccountsIInv, ResetsMatch, accountHistory

\* A token is issued, for an account and not spent.
LEMMA TokenIssued ==
    ASSUME RowsMatch, NEW e \in Accounts, NEW kind \in {"verify", "reset"},
           tokens' = Append(tokens, [user |-> e, kind |-> kind, used |-> FALSE]),
           UNCHANGED <<users, sessions, links, accountHistory>>
    PROVE  RowsMatch' /\ AccountsGrow /\ \A u, k : Used(u, k)' = Used(u, k)
<1>1. PICK new \in TokenRecord : new.user = e /\ ~new.used /\ tokens' = Append(tokens, new)
  <2>1. PICK new : new = [user |-> e, kind |-> kind, used |-> FALSE]
    OBVIOUS
  <2>2. new \in TokenRecord /\ new.user = e /\ ~new.used
    BY <2>1 DEF TokenRecord, RowsMatch
  <2> QED
    BY <2>1, <2>2
<1>2. tokens \in Seq(TokenRecord) /\ UNCHANGED Accounts
  BY DEF RowsMatch, Accounts
<1>3. /\ tokens' \in Seq(TokenRecord)
      /\ \A i \in DOMAIN tokens : i \in DOMAIN tokens' /\ tokens'[i] = tokens[i]
      /\ \A i \in DOMAIN tokens' : i \in DOMAIN tokens \/ tokens'[i] = new
  BY <1>1, <1>2
<1>4. \A i \in DOMAIN tokens' : tokens'[i].user \in Accounts
  BY <1>1, <1>3 DEF RowsMatch
<1>5. RowsMatch'
  BY <1>2, <1>3, <1>4 DEF RowsMatch, accountHistory
<1>6. \A u, k : Used(u, k)' = Used(u, k)
  <2> SUFFICES ASSUME NEW u, NEW k
               PROVE  Used(u, k)' = Used(u, k)
    OBVIOUS
  <2>1. \A t : t \in Used(u, k)' <=> /\ t \in DOMAIN tokens'
                                     /\ tokens'[t] = [user |-> u, kind |-> k, used |-> TRUE]
    BY DEF Used
  <2>2. new # [user |-> u, kind |-> k, used |-> TRUE]
    BY <1>1
  <2> QED
    BY <1>3, <2>1, <2>2 DEF Used
<1>7. AccountsGrow
  BY <1>2, <1>6 DEF AccountsGrow, RowsMatch, accountHistory
<1> QED
  BY <1>5, <1>6, <1>7

\* A token is issued, unused.
LEMMA IssuePreserves ==
    ASSUME AccountsIInv,
           \/ \E e \in Emails : RequestReset(e)
           \/ \E r \in Callers : IssueVerification(r)
    PROVE  AccountsIInv'
<1>1. PICK e \in Accounts, kind \in {"verify", "reset"} :
         tokens' = Append(tokens, [user |-> e, kind |-> kind, used |-> FALSE])
  <2>1. CASE \E e \in Emails : RequestReset(e)
    BY <2>1 DEF RequestReset
  <2>2. CASE \E r \in Callers : IssueVerification(r)
    BY <2>2 DEF IssueVerification, AccountsIInv, CallersMatch, CallerMatches
  <2> QED
    BY <2>1, <2>2
<1>2. UNCHANGED <<users, sessions, links, accountHistory>> /\ UNCHANGED Accounts
  BY DEF RequestReset, IssueVerification, Accounts
<1>3. RowsMatch' /\ AccountsGrow /\ \A u, k : Used(u, k)' = Used(u, k)
  BY <1>1, <1>2, TokenIssued DEF AccountsIInv
<1>4. CallersMatch' /\ \A e1 \in Emails : Resetting(e1)' \subseteq Resetting(e1)
  <2>1. CASE UNCHANGED caller
    BY <1>2, <1>3, <2>1 DEF AccountsIInv, CallersMatch, CallerMatches, Resetting, accountHistory
  <2>2. ASSUME NEW r \in Callers, Goes(r, Done)
        PROVE  CallersMatch' /\ \A e1 \in Emails : Resetting(e1)' \subseteq Resetting(e1)
    <3>1. CallersMatch'
      BY <1>3, <2>2, EndMatches, CallersKept DEF AccountsIInv
    <3> QED
      BY <2>2, <3>1, CallerGoes, EndRecords DEF Resetting, AccountsIInv
  <2> QED
    BY <2>1, <2>2 DEF RequestReset, IssueVerification
<1>5. PasswordsCounted'
  BY <1>2, <1>3, <1>4, PasswordsKept DEF AccountsIInv
<1>6. VerifiedMatch'
  BY <1>2, <1>3 DEF VerifiedMatch, AccountsIInv, accountHistory
<1>7. ResetsMatch'
  BY <1>2, <1>3, ResetsKept DEF AccountsIInv, accountHistory
<1> QED
  BY <1>3, <1>4, <1>5, <1>6, <1>7 DEF AccountsIInv

\* A token is spent once: it counts for its account, and its request carries what it allows.
LEMMA ConsumePreservesAccounts ==
    ASSUME AccountsIInv, NEW r \in Callers, NEW t \in DOMAIN tokens, ConsumeToken(r, t)
    PROVE  AccountsIInv'
<1>1. /\ UNCHANGED <<users, sessions, links, accountHistory>> /\ UNCHANGED Accounts
      /\ ~tokens[t].used /\ RowsMatch /\ caller[r] = Idle
      /\ tokens \in Seq(TokenRecord) /\ tokens[t] \in TokenRecord
  BY DEF ConsumeToken, LiveToken, Accounts, AccountsIInv, RowsMatch
<1>2. PICK e \in Accounts, kind \in {"verify", "reset"} :
         e = tokens[t].user /\ kind = tokens[t].kind /\ e \in Emails
  BY <1>1 DEF RowsMatch, TokenRecord
<1>3. PICK x \in TokenRecord :
         x.user = e /\ x.kind = kind /\ x.used /\ tokens' = [tokens EXCEPT ![t] = x]
  <2>1. [tokens[t] EXCEPT !.used = TRUE] \in [user : {e}, kind : {kind}, used : {TRUE}]
    BY <1>1, <1>2 DEF TokenRecord
  <2>2. PICK x \in [user : {e}, kind : {kind}, used : {TRUE}] : x = [tokens[t] EXCEPT !.used = TRUE]
    BY <2>1
  <2>3. x \in TokenRecord /\ x.user = e /\ x.kind = kind /\ x.used
    BY <1>2, <2>2 DEF TokenRecord
  <2> QED
    BY <2>2, <2>3 DEF ConsumeToken
<1>4. /\ tokens' \in Seq(TokenRecord) /\ DOMAIN tokens' = DOMAIN tokens /\ tokens'[t] = x
      /\ \A i \in DOMAIN tokens \ {t} : tokens'[i] = tokens[i]
  BY <1>1, <1>3
<1>5. RowsMatch'
  <2>1. \A i \in DOMAIN tokens' : tokens'[i].user \in Accounts
    BY <1>1, <1>3, <1>4 DEF RowsMatch
  <2> QED
    BY <1>1, <1>4, <2>1 DEF RowsMatch, accountHistory
<1>6. ASSUME NEW u, NEW k
      PROVE  /\ Used(u, k) \subseteq Used(u, k)'
             /\ u = e /\ k = kind => t \in Used(u, k)' \ Used(u, k)
  <2>1. \A i : i \in Used(u, k)' <=>
                  /\ i \in DOMAIN tokens'
                  /\ tokens'[i].user = u /\ tokens'[i].kind = k /\ tokens'[i].used
    <3>1. \A i \in DOMAIN tokens' : tokens'[i] \in TokenRecord
      BY <1>4
    <3>2. ASSUME NEW i \in DOMAIN tokens'
          PROVE  tokens'[i] = [user |-> u, kind |-> k, used |-> TRUE] <=>
                    tokens'[i].user = u /\ tokens'[i].kind = k /\ tokens'[i].used
      BY <3>1 DEF TokenRecord
    <3> QED
      BY <3>2 DEF Used
  <2>2. \A i : i \in Used(u, k) <=>
                  i \in DOMAIN tokens /\ tokens[i].user = u /\ tokens[i].kind = k /\ tokens[i].used
    BY <1>1, UsedAre
  <2> QED
    BY <1>1, <1>3, <1>4, <2>1, <2>2
<1>7. AccountsGrow
  BY <1>1, <1>6 DEF AccountsGrow, RowsMatch, accountHistory
<1>8. PICK next \in [at : {"consumed"}, user : {e}, pw : {0}, todo : {Steps(kind)}] :
         Goes(r, next) /\ caller'[r] = next
  <2>1. PICK next : next = [at |-> "consumed", user |-> e, pw |-> 0, todo |-> Steps(kind)]
    OBVIOUS
  <2>2. next \in [at : {"consumed"}, user : {e}, pw : {0}, todo : {Steps(kind)}]
    BY <2>1
  <2>3. Goes(r, next)
    BY <1>2, <2>1 DEF ConsumeToken
  <2> QED
    BY <2>2, <2>3, CallerGoes DEF AccountsIInv
<1>9. Steps(kind) = IF kind = "verify" THEN <<"markVerified">> ELSE ResetSteps
  BY DEF Steps
<1>10. CallerMatches(r)'
  <2>1. next \in CallerRecords /\ next.at = "consumed" /\ next.user = e /\ next.pw = 0
        /\ next.todo = Steps(kind)
    <3>1. next \in [at : {"consumed"}, user : Emails, pw : Nat,
                    todo : {<<"markVerified">>, ResetSteps, <<"revokeAll">>}]
      BY <1>2, <1>8, <1>9
    <3> QED
      BY <1>8, <3>1 DEF CallerRecords
  <2>2. kind = "verify" => Used(e, "verify")' # {}
    BY <1>6
  <2>3. next.todo # <<"revokeAll">> /\ (next.todo = <<"markVerified">> => kind = "verify")
    BY <1>9, <2>1, EndRecords
  <2> QED
    BY <1>1, <1>8, <2>1, <2>2, <2>3 DEF CallerMatches
<1>11. CallersMatch'
  BY <1>1, <1>5, <1>7, <1>8, <1>10, CallersKept DEF AccountsIInv
<1>12. PasswordsCounted'
  <2> SUFFICES ASSUME NEW u \in Accounts
               PROVE  users[u].pw + Cardinality(Resetting(u)') <= 1 + Cardinality(Used(u, "reset")')
    BY <1>1 DEF PasswordsCounted
  <2>0. users[u].pw + Cardinality(Resetting(u)) <= 1 + Cardinality(Used(u, "reset"))
        /\ users[u].pw \in Nat
    BY <1>1 DEF PasswordsCounted, AccountsIInv, RowsMatch
  <2>1. IsFiniteSet(Used(u, "reset")') /\ Cardinality(Used(u, "reset")') \in Nat
    BY <1>5, UsedFiniteNext
  <2>2. \A q \in Callers \ {r} : caller'[q] = caller[q]
    BY <1>8, CallerGoes DEF AccountsIInv
  <2>3. CASE u = e /\ kind = "reset"
    <3>1. Resetting(u)' \subseteq Resetting(u) \cup {r}
      BY <2>2 DEF Resetting
    <3>2. Cardinality(Resetting(u) \cup {r}) <= Cardinality(Resetting(u)) + 1
          /\ IsFiniteSet(Resetting(u) \cup {r}) /\ Cardinality(Resetting(u) \cup {r}) \in Nat
      <4>1. /\ IsFiniteSet(Resetting(u) \cup {r})
            /\ Cardinality(Resetting(u) \cup {r}) =
                   (IF r \in Resetting(u) THEN Cardinality(Resetting(u))
                    ELSE Cardinality(Resetting(u)) + 1)
        BY ResettingFinite, FS_AddElement
      <4> QED
        BY <4>1, ResettingFinite
    <3>3. Cardinality(Resetting(u)') <= Cardinality(Resetting(u) \cup {r})
      BY <3>1, <3>2, FS_Subset
    <3>4. t \notin Used(u, "reset") /\ Used(u, "reset") \cup {t} \subseteq Used(u, "reset")'
      BY <1>6, <2>3
    <3>5. Cardinality(Used(u, "reset") \cup {t}) = Cardinality(Used(u, "reset")) + 1
      BY <1>1, <3>4, UsedFinite, FS_AddElement
    <3>6. Cardinality(Used(u, "reset") \cup {t}) <= Cardinality(Used(u, "reset")')
      BY <2>1, <3>4, FS_Subset
    <3> QED
      BY <1>1, <2>0, <2>1, <3>2, <3>3, <3>5, <3>6, ResettingFinite, UsedFinite
  <2>4. CASE ~(u = e /\ kind = "reset")
    <3>1. Resetting(u)' \subseteq Resetting(u)
      <4>1. r \notin Resetting(u)'
        BY <1>2, <1>8, <1>9, <2>4, EndRecords DEF Resetting
      <4> QED
        BY <2>2, <4>1 DEF Resetting
    <3>2. Cardinality(Resetting(u)') <= Cardinality(Resetting(u))
      BY <3>1, ResettingFinite, FS_Subset
    <3>3. Cardinality(Used(u, "reset")) <= Cardinality(Used(u, "reset")')
      BY <1>6, <2>1, FS_Subset
    <3> QED
      BY <1>1, <2>0, <2>1, <3>2, <3>3, ResettingFinite, UsedFinite
  <2> QED
    BY <2>3, <2>4
<1>13. VerifiedMatch'
  <2>1. ASSUME NEW u, Used(u, "verify") # {}
        PROVE  Used(u, "verify")' # {}
    BY <1>6, <2>1
  <2> QED
    BY <1>1, <2>1 DEF VerifiedMatch, AccountsIInv, accountHistory
<1>14. ResetsMatch'
  BY <1>1, <1>5, <1>7, ResetsKept DEF AccountsIInv, accountHistory
<1> QED
  BY <1>5, <1>11, <1>12, <1>13, <1>14 DEF AccountsIInv

\* What a spent token lets its request do, step by step.
LEMMA TodoSteps ==
    /\ Head(<<"markVerified">>) = "markVerified" /\ Len(<<"markVerified">>) = 1
    /\ Head(<<"revokeAll">>) = "revokeAll" /\ Len(<<"revokeAll">>) = 1
    /\ Head(ResetSteps) = "setPassword" /\ Len(ResetSteps) = 2
    /\ Tail(ResetSteps) = <<"revokeAll">>
  BY DEF ResetSteps

\* A request that owes a step has a spent token, an account and exactly that step first.
LEMMA OwedBy ==
    ASSUME AccountsIInv, NEW r \in Callers, NEW step, Owes(r, step)
    PROVE  /\ caller[r] \in [at : {"consumed"}, user : Accounts, pw : Nat,
                             todo : {<<"markVerified">>, ResetSteps, <<"revokeAll">>}]
           /\ caller[r].user \in Emails
           /\ step = "markVerified" => /\ caller[r].todo = <<"markVerified">>
                                       /\ Used(caller[r].user, "verify") # {}
           /\ step = "setPassword" => caller[r].todo = ResetSteps
           /\ step = "revokeAll" => /\ caller[r].todo = <<"revokeAll">>
                                    /\ caller[r].pw <= users[caller[r].user].pw
<1>1. /\ caller[r].at = "consumed" /\ Head(caller[r].todo) = step /\ CallerMatches(r)
      /\ caller[r] \in [at : {"consumed"}, user : Emails, pw : Nat,
                        todo : {<<"markVerified">>, ResetSteps, <<"revokeAll">>}]
  BY CallerForms DEF Owes, AccountsIInv, CallersMatch
<1>2. PICK c, e : c = caller[r] /\ e = c.user
  OBVIOUS
<1>3. e \in Accounts /\ e \in Emails
  BY <1>1, <1>2 DEF CallerMatches
<1>4. c \in [at : {"consumed"}, user : Accounts, pw : Nat,
             todo : {<<"markVerified">>, ResetSteps, <<"revokeAll">>}]
  BY <1>1, <1>2, <1>3
<1>5. /\ step = "markVerified" => c.todo = <<"markVerified">>
      /\ step = "setPassword" => c.todo = ResetSteps
      /\ step = "revokeAll" => c.todo = <<"revokeAll">>
  BY <1>1, <1>2, TodoSteps
<1> QED
  BY <1>1, <1>2, <1>3, <1>4, <1>5 DEF CallerMatches

\* The link in an email marks the address of its account as verified.
LEMMA VerifyPreserves ==
    ASSUME AccountsIInv, NEW r \in Callers, MarkEmailVerified(r)
    PROVE  AccountsIInv'
<1> DEFINE e == caller[r].user
<1>0. /\ UNCHANGED <<links, tokens, vouched, sessions>> /\ e \in Accounts /\ e \in Emails
      /\ caller[r].todo = <<"markVerified">> /\ Used(e, "verify") # {}
      /\ users' = [users EXCEPT ![e].verified = TRUE] /\ RowsMatch
  BY OwedBy DEF MarkEmailVerified, StepDone, AccountsIInv
<1>1. Goes(r, Done) /\ UNCHANGED resetTo
  <2>1. resetTo[e] \in Nat
    BY <1>0 DEF RowsMatch
  <2>2. Len(caller[r].todo) = 1 /\ ~(0 > resetTo[e])
    BY <1>0, <2>1, TodoSteps
  <2> QED
    BY <2>2 DEF MarkEmailVerified, StepDone
<1>2. users[e] \in [pw : Nat, verified : BOOLEAN]
  BY <1>0 DEF RowsMatch
<1>3. /\ Accounts' = Accounts /\ users'[e] \in [pw : {users[e].pw}, verified : {TRUE}]
      /\ \A u \in Accounts \ {e} : users'[u] = users[u]
  BY <1>0, <1>2 DEF Accounts
<1>4. \A u \in Accounts : users'[u].pw = users[u].pw /\ users[u].pw \in Nat
  BY <1>0, <1>2, <1>3 DEF RowsMatch
<1>5. RowsMatch'
  BY <1>0, <1>1, <1>2, <1>3 DEF RowsMatch
<1>6. AccountsGrow
  BY <1>0, <1>3, <1>4 DEF AccountsGrow, Used
<1>7. CallersMatch'
  BY <1>0, <1>1, <1>5, <1>6, EndMatches, CallersKept DEF AccountsIInv
<1>8. PasswordsCounted'
  <2>1. \A u \in Emails : Resetting(u)' \subseteq Resetting(u)
    BY <1>1, CallerGoes, EndRecords DEF Resetting, AccountsIInv
  <2> QED
    BY <1>0, <1>3, <1>4, <1>5, <1>6, <2>1, PasswordsKept DEF AccountsIInv
<1>9. VerifiedMatch'
  <2>1. \A u : Used(u, "verify")' = Used(u, "verify")
    BY <1>0 DEF Used
  <2>2. ASSUME NEW u \in Accounts, users'[u].verified
        PROVE  Used(u, "verify") # {} \/ \E p \in vouched : p[2] = u
    <3>1. CASE u = e
      BY <1>0, <3>1
    <3>2. CASE u # e
      BY <1>3, <2>2, <3>2 DEF VerifiedMatch, AccountsIInv
    <3> QED
      BY <3>1, <3>2
  <2> QED
    BY <1>0, <1>3, <2>1, <2>2 DEF VerifiedMatch, AccountsIInv
<1>10. ResetsMatch'
  BY <1>0, <1>1, <1>5, <1>6, ResetsKept DEF AccountsIInv
<1> QED
  BY <1>5, <1>7, <1>8, <1>9, <1>10 DEF AccountsIInv

\* A spent reset token becomes a password that was written.
LEMMA PasswordPreserves ==
    ASSUME AccountsIInv, NEW r \in Callers, SetUserPassword(r)
    PROVE  AccountsIInv'
<1>0. PICK c \in [at : {"consumed"}, user : Accounts, pw : Nat, todo : {ResetSteps}],
           e \in Accounts :
         c = caller[r] /\ e = c.user /\ e \in Emails
  <2>1. Owes(r, "setPassword")
    BY DEF SetUserPassword
  <2>2. PICK c : c = caller[r]
    OBVIOUS
  <2>3. /\ c \in [at : {"consumed"}, user : Accounts, pw : Nat,
                  todo : {<<"markVerified">>, ResetSteps, <<"revokeAll">>}]
        /\ c.user \in Emails /\ c.todo = ResetSteps
    BY <2>1, <2>2, OwedBy
  <2>4. c \in [at : {"consumed"}, user : Accounts, pw : Nat, todo : {ResetSteps}]
    BY <2>3
  <2>5. PICK e \in Accounts : e = c.user
    BY <2>4
  <2> QED
    BY <2>2, <2>3, <2>4, <2>5
<1>1. RowsMatch /\ users[e] \in [pw : Nat, verified : BOOLEAN]
  BY DEF AccountsIInv, RowsMatch
<1>2. PICK pw \in Nat : pw = users[e].pw + 1
  BY <1>1
<1>3. /\ UNCHANGED <<links, tokens, vouched, sessions, resetTo>>
      /\ users' = [users EXCEPT ![e].pw = pw]
  BY <1>0, <1>2, TodoSteps DEF SetUserPassword, StepDone
<1>4. PICK next \in [at : {"consumed"}, user : {e}, pw : {pw}, todo : {<<"revokeAll">>}] :
         Goes(r, next) /\ caller'[r] = next
  <2>1. PICK next : next = [c EXCEPT !.pw = pw, !.todo = Tail(@)]
    OBVIOUS
  <2>2. next \in [at : {"consumed"}, user : {e}, pw : {pw}, todo : {<<"revokeAll">>}]
    <3>1. Tail(c.todo) = <<"revokeAll">>
      BY <1>0, TodoSteps
    <3> QED
      BY <1>0, <2>1, <3>1
  <2>3. Goes(r, next)
    <3>1. Len(c.todo) # 1
      <4>1. c.todo = ResetSteps
        BY <1>0
      <4> QED
        BY <4>1, TodoSteps
    <3>2. StepDone(r, pw)
      BY <1>0, <1>2 DEF SetUserPassword
    <3> QED
      BY <1>0, <2>1, <3>1, <3>2 DEF StepDone
  <2> QED
    BY <2>2, <2>3, CallerGoes DEF AccountsIInv
<1>5. /\ Accounts' = Accounts /\ users'[e] \in [pw : {pw}, verified : {users[e].verified}]
      /\ \A u \in Accounts \ {e} : users'[u] = users[u]
  BY <1>1, <1>3 DEF Accounts
<1>6. \A u \in Accounts : users[u].pw \in Nat /\ users'[u].pw \in Nat /\ users[u].pw <= users'[u].pw
  <2>1. \A u \in Accounts : users[u].pw \in Nat
    BY <1>1 DEF RowsMatch
  <2>2. users'[e].pw = pw /\ \A u \in Accounts \ {e} : users'[u].pw = users[u].pw
    BY <1>5
  <2> QED
    BY <1>2, <2>1, <2>2
<1>7. RowsMatch'
  <2>1. \A u \in Accounts : users'[u] \in [pw : Nat, verified : BOOLEAN]
    BY <1>1, <1>5 DEF RowsMatch
  <2> QED
    BY <1>1, <1>3, <1>5, <2>1 DEF RowsMatch
<1>8. AccountsGrow
  BY <1>3, <1>5, <1>6 DEF AccountsGrow, Used
<1>9. CallerMatches(r)'
  <2>1. next \in CallerRecords
    <3>1. next \in [at : {"consumed"}, user : Emails, pw : Nat,
                    todo : {<<"markVerified">>, ResetSteps, <<"revokeAll">>}]
      BY <1>0, <1>4
    <3> QED
      BY <3>1 DEF CallerRecords
  <2>2. /\ next.at = "consumed" /\ next.user = e /\ next.user \in Accounts'
        /\ next.todo # <<"markVerified">> /\ next.pw <= users'[next.user].pw
    BY <1>0, <1>4, <1>5, EndRecords
  <2> QED
    BY <1>4, <2>1, <2>2 DEF CallerMatches
<1>10. CallersMatch'
  BY <1>4, <1>7, <1>8, <1>9, CallersKept DEF AccountsIInv
<1>11. PasswordsCounted'
  <2> SUFFICES ASSUME NEW u \in Accounts
               PROVE  users'[u].pw + Cardinality(Resetting(u)')
                         <= 1 + Cardinality(Used(u, "reset")')
    BY <1>5 DEF PasswordsCounted
  <2>1. users[u].pw + Cardinality(Resetting(u)) <= 1 + Cardinality(Used(u, "reset"))
    BY DEF PasswordsCounted, AccountsIInv
  <2>2. Used(u, "reset")' = Used(u, "reset")
    BY <1>3 DEF Used
  <2>3. /\ r \notin Resetting(u)' /\ Resetting(u)' \subseteq Resetting(u)
    BY <1>4, CallerGoes, EndRecords DEF Resetting, AccountsIInv
  <2>4. CASE u = e
    <3>1. r \in Resetting(u)
      BY <1>0, <2>4 DEF Resetting
    <3>2. Resetting(u)' \subseteq Resetting(u) \ {r}
      BY <2>3
    <3>3. Cardinality(Resetting(u) \ {r}) = Cardinality(Resetting(u)) - 1
          /\ IsFiniteSet(Resetting(u) \ {r})
      BY <3>1, ResettingFinite, FS_RemoveElement
    <3>4. Cardinality(Resetting(u)') <= Cardinality(Resetting(u) \ {r})
      BY <3>2, <3>3, FS_Subset
    <3>5. users'[u].pw = users[u].pw + 1 /\ users[u].pw \in Nat
      BY <1>1, <1>2, <1>5, <2>4
    <3> QED
      BY <1>1, <2>1, <2>2, <3>3, <3>4, <3>5, ResettingFinite, UsedFinite
  <2>5. CASE u # e
    <3>1. Cardinality(Resetting(u)') <= Cardinality(Resetting(u))
      BY <2>3, ResettingFinite, FS_Subset
    <3>2. users'[u].pw = users[u].pw /\ users[u].pw \in Nat
      BY <1>5, <1>6, <2>5
    <3> QED
      BY <1>1, <2>1, <2>2, <3>1, <3>2, ResettingFinite, UsedFinite
  <2> QED
    BY <2>4, <2>5
<1>12. VerifiedMatch'
  <2>1. \A u \in Accounts : users'[u].verified = users[u].verified
    BY <1>5
  <2> QED
    BY <1>3, <1>5, <2>1 DEF VerifiedMatch, Used, AccountsIInv
<1>13. ResetsMatch'
  BY <1>3, <1>7, <1>8, ResetsKept DEF AccountsIInv
<1> QED
  BY <1>7, <1>10, <1>11, <1>12, <1>13 DEF AccountsIInv

\* The last step of a reset: no session of its account is left alive when it answers.
LEMMA RevokePreserves ==
    ASSUME AccountsIInv, NEW r \in Callers, RevokeAllUserSessions(r)
    PROVE  AccountsIInv'
<1>0. PICK e \in Accounts, pw \in Nat :
         /\ e = caller[r].user /\ pw = caller[r].pw /\ e \in Emails
         /\ caller[r].todo = <<"revokeAll">> /\ pw <= users[e].pw
  BY OwedBy DEF RevokeAllUserSessions
<1>1. /\ UNCHANGED <<links, tokens, vouched, users>> /\ UNCHANGED Accounts /\ RowsMatch
      /\ Goes(r, Done)
      /\ resetTo' = IF pw > resetTo[e] THEN [resetTo EXCEPT ![e] = pw] ELSE resetTo
  BY <1>0, TodoSteps DEF RevokeAllUserSessions, StepDone, Accounts, AccountsIInv
<1>2. /\ sessions \in Seq(SessionRecord) /\ resetTo \in [Emails -> Nat] /\ users[e].pw \in Nat
      /\ \A u \in Accounts : u \in Emails
  BY <1>1 DEF RowsMatch
<1>3. /\ resetTo' \in [Emails -> Nat] /\ resetTo'[e] <= users[e].pw
      /\ \A u \in Emails \ {e} : resetTo'[u] = resetTo[u]
  <2>1. resetTo[e] <= users[e].pw
    BY DEF AccountsIInv, ResetsMatch
  <2> QED
    BY <1>0, <1>1, <1>2, <2>1
<1>4. ASSUME NEW i \in DOMAIN sessions
      PROVE  /\ sessions'[i] \in SessionRecord
             /\ sessions'[i].user = sessions[i].user /\ sessions'[i].pw = sessions[i].pw
             /\ sessions'[i].late = sessions[i].late
             /\ sessions'[i].live => sessions[i].live /\ sessions[i].user # e
  <2>1. PICK s \in SessionRecord : s = sessions[i]
    BY <1>2
  <2>2. PICK live \in BOOLEAN : live <=> s.live /\ s.user # e
    OBVIOUS
  <2>3. [s EXCEPT !.live = live] \in [user : {s.user}, pw : {s.pw}, late : {s.late}, live : {live}]
    BY <2>1 DEF SessionRecord
  <2>4. sessions'[i] = [s EXCEPT !.live = live]
    BY <1>0, <2>1, <2>2 DEF RevokeAllUserSessions, SessionRecord
  <2>5. s.user \in Emails /\ s.pw \in Nat /\ s.late \in BOOLEAN
    BY DEF SessionRecord
  <2> QED
    BY <2>1, <2>2, <2>3, <2>4, <2>5 DEF SessionRecord
<1>5. sessions' \in Seq(SessionRecord) /\ DOMAIN sessions' = DOMAIN sessions
  <2>1. DOMAIN sessions' = DOMAIN sessions
    BY DEF RevokeAllUserSessions
  <2>2. DOMAIN sessions = 1 .. Len(sessions) /\ Len(sessions) \in Nat
    BY <1>2
  <2>3. sessions' \in [1 .. Len(sessions) -> SessionRecord]
    BY <1>4, <2>1, <2>2 DEF RevokeAllUserSessions
  <2> QED
    BY <2>1, <2>2, <2>3
<1>6. RowsMatch'
  <2>1. \A i \in DOMAIN sessions' : sessions'[i].user \in Accounts
    BY <1>1, <1>4, <1>5 DEF RowsMatch
  <2> QED
    BY <1>1, <1>3, <1>5, <2>1 DEF RowsMatch
<1>7. AccountsGrow
  BY <1>1 DEF AccountsGrow, Used, RowsMatch
<1>8. CallersMatch'
  BY <1>1, <1>6, <1>7, EndMatches, CallersKept DEF AccountsIInv
<1>9. PasswordsCounted'
  <2>1. \A u \in Emails : Resetting(u)' \subseteq Resetting(u)
    BY <1>1, CallerGoes, EndRecords DEF Resetting, AccountsIInv
  <2> QED
    BY <1>1, <1>6, <1>7, <2>1, PasswordsKept DEF AccountsIInv
<1>10. VerifiedMatch'
  BY <1>1 DEF VerifiedMatch, Used, AccountsIInv
<1>11. ResetEndsOlderSessions'
  <2> SUFFICES ASSUME NEW i \in DOMAIN sessions, sessions'[i].live,
                      sessions'[i].pw < resetTo'[sessions'[i].user]
               PROVE  sessions'[i].late
    BY <1>5 DEF ResetEndsOlderSessions
  <2>1. /\ sessions[i].live /\ sessions[i].user # e /\ sessions[i].user \in Emails
    BY <1>1, <1>2, <1>4 DEF RowsMatch
  <2>2. sessions[i].pw < resetTo[sessions[i].user]
    BY <1>3, <1>4, <2>1
  <2> QED
    BY <1>4, <2>1, <2>2 DEF AccountsIInv, ResetsMatch, ResetEndsOlderSessions
<1>12. ResetsMatch'
  <2>1. \A u \in Emails : u \notin Accounts' => resetTo'[u] = 0
    BY <1>0, <1>1, <1>3 DEF AccountsIInv, ResetsMatch
  <2>2. \A u \in Accounts' : resetTo'[u] <= users'[u].pw
    BY <1>0, <1>1, <1>2, <1>3 DEF AccountsIInv, ResetsMatch
  <2> QED
    BY <1>11, <2>1, <2>2 DEF ResetsMatch
<1> QED
  BY <1>6, <1>8, <1>9, <1>10, <1>12 DEF AccountsIInv
\* Nothing has been written and nobody has asked: an empty set of tables.
LEMMA AccountsStart ==
    ASSUME AccountsInit
    PROVE  AccountsIInv
<1>1. /\ users = << >> /\ links = << >> /\ sessions = << >> /\ tokens = << >>
      /\ caller = [r \in Callers |-> Idle]
      /\ vouched = {} /\ resetTo = [e \in Emails |-> 0]
  BY DEF AccountsInit
<1>2. Accounts = {} /\ DOMAIN links = {} /\ DOMAIN sessions = {} /\ DOMAIN tokens = {}
  BY <1>1 DEF Accounts
<1>3. RowsMatch
  <2>1. sessions \in Seq(SessionRecord) /\ tokens \in Seq(TokenRecord)
    BY <1>1
  <2> QED
    BY <1>1, <1>2, <2>1 DEF RowsMatch
<1>4. CallersMatch
  BY <1>1, EndRecords DEF CallersMatch, CallerMatches
<1>5. PasswordsCounted /\ VerifiedMatch
  BY <1>2 DEF PasswordsCounted, VerifiedMatch
<1>6. ResetsMatch
  BY <1>1, <1>2 DEF ResetsMatch, ResetEndsOlderSessions
<1> QED
  BY <1>3, <1>4, <1>5, <1>6 DEF AccountsIInv

\* Steps of other components leave it alone.
LEMMA AccountsStutter ==
    ASSUME AccountsIInv, UNCHANGED accountVars
    PROVE  AccountsIInv'
<1>0. UNCHANGED <<users, sessions, tokens, links, caller, vouched, resetTo>> /\ UNCHANGED Accounts
  BY DEF accountVars, accountTables, accountHistory, Accounts
<1>1. RowsMatch' /\ PasswordsCounted' /\ VerifiedMatch'
  BY <1>0 DEF AccountsIInv, RowsMatch, PasswordsCounted, Resetting, VerifiedMatch, Used
<1>2. CallersMatch'
  BY <1>0 DEF AccountsIInv, CallersMatch, CallerMatches, Used
<1>3. ResetsMatch'
  BY <1>0 DEF AccountsIInv, ResetsMatch, ResetEndsOlderSessions
<1> QED
  BY <1>1, <1>2, <1>3 DEF AccountsIInv

\* AccountsIInv is an invariant of the console's accounts.
THEOREM AccountsInvariance == AccountsSpec => []AccountsIInv
<1>1. AccountsInit => AccountsIInv
  BY AccountsStart
<1>2. AccountsIInv /\ [AccountsNext]_accountVars => AccountsIInv'
  <2> SUFFICES ASSUME AccountsIInv, [AccountsNext]_accountVars
               PROVE  AccountsIInv'
    OBVIOUS
  <2>1. ASSUME NEW r \in Callers, CallerArrives(r)
        PROVE  AccountsIInv'
    BY <2>1, ArrivalPreserves, ConsumePreservesAccounts, CallbackPreserves DEF CallerArrives
  <2>2. ASSUME NEW r \in Callers, CallerStep(r)
        PROVE  AccountsIInv'
    <3>1. CASE OpenSession(r)
      BY <3>1, SessionPreserves
    <3>2. CASE RegisterInsert(r) \/ CreateOAuthUser(r)
      BY <3>2, InsertUserPreserves
    <3>3. CASE IssueVerification(r)
      BY <3>3, IssuePreserves
    <3>4. CASE MarkEmailVerified(r)
      BY <3>4, VerifyPreserves
    <3>5. CASE SetUserPassword(r)
      BY <3>5, PasswordPreserves
    <3>6. CASE RevokeAllUserSessions(r)
      BY <3>6, RevokePreserves
    <3>7. CASE FindByEmail(r)
      BY <3>7, FindPreserves
    <3>8. CASE InsertLink(r)
      BY <3>8, LinkPreserves
    <3>9. CASE StopCaller(r)
      BY <3>9, ArrivalPreserves
    <3> QED
      BY <2>2, <3>1, <3>2, <3>3, <3>4, <3>5, <3>6, <3>7, <3>8, <3>9 DEF CallerStep
  <2>3. CASE \E e \in Emails : RequestReset(e)
    BY <2>3, IssuePreserves
  <2>4. CASE \E s \in DOMAIN sessions : Logout(s)
    BY <2>4, LogoutPreserves
  <2>5. CASE UNCHANGED accountVars
    BY <2>5, AccountsStutter
  <2> QED
    BY <2>1, <2>2, <2>3, <2>4, <2>5 DEF AccountsNext
<1> QED
  BY <1>1, <1>2, PTL DEF AccountsSpec

\* Every password but the first has a spent reset token of its own, every verified address a
\* spent token or the provider's word, every link an account of its own or that word.
THEOREM AccountsHaveProof == AccountsSpec => []AccountsAreBacked
<1>1. AccountsIInv => AccountsAreBacked
  <2> SUFFICES ASSUME AccountsIInv
               PROVE  AccountsAreBacked
    OBVIOUS
  <2>0. RowsMatch
    BY DEF AccountsIInv
  <2>1. \A s \in DOMAIN sessions :
           sessions[s] \in [user : Accounts, pw : Nat, late : BOOLEAN, live : BOOLEAN]
    <3>1. ASSUME NEW s \in DOMAIN sessions
          PROVE  sessions[s] \in SessionRecord /\ sessions[s].user \in Accounts
      BY <2>0 DEF RowsMatch
    <3> QED
      BY <3>1 DEF SessionRecord
  <2>2. \A t \in DOMAIN tokens :
           tokens[t] \in [user : Accounts, kind : {"verify", "reset"}, used : BOOLEAN]
    <3>1. ASSUME NEW t \in DOMAIN tokens
          PROVE  tokens[t] \in TokenRecord /\ tokens[t].user \in Accounts
      BY <2>0 DEF RowsMatch
    <3> QED
      BY <3>1 DEF TokenRecord
  <2>3. AccountsTypeOK
    BY <2>0, <2>1, <2>2 DEF RowsMatch, AccountsTypeOK
  <2>4. ASSUME NEW e \in Accounts
        PROVE  users[e].pw <= 1 + Cardinality(Used(e, "reset"))
    <3>1. users[e].pw \in Nat
          /\ users[e].pw + Cardinality(Resetting(e)) <= 1 + Cardinality(Used(e, "reset"))
      BY <2>0 DEF RowsMatch, AccountsIInv, PasswordsCounted
    <3> QED
      BY <2>0, <3>1, ResettingFinite, UsedFinite
  <2> QED
    BY <2>3, <2>4 DEF AccountsAreBacked, AccountsIInv, VerifiedMatch
<1> QED
  BY <1>1, AccountsInvariance, PTL

\* A reset that answered leaves no older session alive, but one whose login had already read.
THEOREM ResetsEndSessions == AccountsSpec => []ResetEndsOlderSessions
<1>1. AccountsIInv => ResetEndsOlderSessions
  BY DEF AccountsIInv, ResetsMatch
<1> QED
  BY <1>1, AccountsInvariance, PTL

-----------------------------------------------------------------------------
(* GraphDeploy: the inductive invariant                                    *)

NodeSpend(g, i) == Compiled(g).roles[i].spend
DrawnSpends == UNION {{NodeSpend(g, i) : i \in DOMAIN g.nodes} : g \in Canvases}

Working == {"register", "provision", "write", "assign", "mark", "answered"}
DeployRecord == [at : Working, graph : Canvases, made : Seq(Nat), done : Nat]
DeployRecords == {Rest, [at |-> "refused"], [at |-> "failed"]} \cup DeployRecord

CanvasMatches ==
    /\ stored \in [graph : Canvases, deployed : BOOLEAN, bound : {stored.bound}]
    /\ fleet \in Seq([key : BOOLEAN])
    /\ layers \in Seq(SUBSET DrawnSpends)
    /\ Len(layers) = Len(fleet)

\* How far a deploy is: its agents come one by one, then the policies of its roles.
ProgressMatches(d) ==
    LET n == Len(d.graph.nodes)
    IN  /\ d.at = "register" => Len(d.made) < n
        /\ d.at = "provision" => Len(d.made) \in 1 .. n
        /\ d.at \in {"write", "assign", "mark", "answered"} => Len(d.made) = n
        /\ d.at \in {"register", "provision"} => d.done = 0
        /\ d.at \in {"write", "assign"} => d.done < n
        /\ d.at \in {"mark", "answered"} => d.done = n

\* What a deploy has created, and that each policy it assigned is where its role went.
DeployMatches(d) ==
    d.at \in Working =>
        /\ ValidGraph(d.graph)
        /\ ProgressMatches(d)
        /\ \A i \in DOMAIN d.made : d.made[i] \in DOMAIN layers
        /\ \A i, j \in DOMAIN d.made : i < j => d.made[i] < d.made[j]
        /\ \A i \in 1 .. d.done :
               NodeSpend(d.graph, i) \in layers[RoleAgent(d, d.graph.nodes[i].role)]

DeploysMatch ==
    /\ deployer \in [Deploys -> DeployRecords]
    /\ \A q \in Deploys : DeployMatches(deployer[q])

\* The canvas says it is deployed only with the bindings of a deploy that answered.
DeployedMatches == stored.deployed => \E d \in Answered : stored.bound = Bindings(d)

DeployIInv == CanvasMatches /\ DeploysMatch /\ DeployedMatches

-----------------------------------------------------------------------------
(* GraphDeploy: least and last elements, and what a compiled policy is     *)

\* Among the intervals below the members of T, a smallest one is below its least member.
LEMMA LeastMember ==
    ASSUME NEW T, T \subseteq Nat, T # {}
    PROVE  \E x \in T : \A y \in T : x <= y
<1> DEFINE F == {0 .. x : x \in T}
           R == StrictSubsetOrdering(Nat)
<1>1. F # {} /\ F \subseteq FiniteSubsetsOf(Nat)
  <2>1. ASSUME NEW x \in T
        PROVE  0 .. x \in FiniteSubsetsOf(Nat)
    <3>1. 0 .. x \subseteq Nat /\ 0 \in Int /\ x \in Int
      OBVIOUS
    <3>2. IsFiniteSet(0 .. x)
      BY <3>1, FS_Interval
    <3> QED
      BY <3>1, <3>2 DEF FiniteSubsetsOf
  <2> QED
    BY <2>1
<1>2. IsWellFoundedOn(R, FiniteSubsetsOf(Nat))
  BY FS_StrictSubsetOrderingWellFounded
<1>3. \E S \in F : \A Q \in F : ~(<<Q, S>> \in R)
  <2> HIDE DEF F, R
  <2> QED
    BY <1>1, <1>2, WFMin
<1>4. PICK x \in T : \A y \in T : ~(<<0 .. y, 0 .. x>> \in R)
  BY <1>3
<1>5. ASSUME NEW y \in T
      PROVE  x <= y
  <2>1. y < x => /\ 0 .. y \subseteq 0 .. x /\ 0 .. y # 0 .. x
                 /\ 0 .. y \in SUBSET Nat /\ 0 .. x \in SUBSET Nat
    OBVIOUS
  <2>2. ~(y < x)
    BY <1>4, <2>1 DEF StrictSubsetOrdering
  <2> QED
    BY <2>2
<1> QED
  BY <1>5

\* A set of positions has a last one.
LEMMA LastMember ==
    ASSUME NEW n \in Nat, NEW T, T \subseteq 1 .. n, T # {}
    PROVE  \E x \in T : \A y \in T : y <= x
<1> DEFINE D == {n - y : y \in T}
<1>1. D \subseteq Nat /\ D # {}
  <2>1. \A y \in T : n - y \in Nat
    OBVIOUS
  <2> QED
    BY <2>1
<1>2. PICK z \in D : \A y \in D : z <= y
  BY <1>1, LeastMember
<1>3. PICK x \in T : z = n - x
  OBVIOUS
<1>4. ASSUME NEW y \in T
      PROVE  y <= x
  <2>1. n - y \in D
    OBVIOUS
  <2> QED
    BY <1>2, <1>3, <2>1
<1> QED
  BY <1>4

\* A compiled policy is as narrow as each of its layers.
LEMMA CompileSpendNarrows ==
    ASSUME NEW S, S # {}, \A p \in S : p.cap \in Nat
    PROVE  /\ CompileSpend(S).cap \in Nat
           /\ \A p \in S : CompileSpend(S).cap <= p.cap /\ CompileSpend(S).rails \subseteq p.rails
<1> DEFINE C == {p.cap : p \in S}
           least == CHOOSE n \in C : \A p \in S : n <= p.cap
           common == {r \in UNION {p.rails : p \in S} : \A p \in S : r \in p.rails}
<1>1. PICK m \in C : \A n \in C : m <= n
  <2>1. C \subseteq Nat /\ C # {}
    OBVIOUS
  <2> QED
    BY <2>1, LeastMember
<1>2. \A p \in S : m <= p.cap
  BY <1>1
<1>3. least \in C /\ \A p \in S : least <= p.cap
  BY <1>1, <1>2
<1>4. CompileSpend(S) = [cap |-> least, rails |-> common]
  BY DEF CompileSpend
<1>5. CompileSpend(S).cap = least /\ CompileSpend(S).rails = common
  BY <1>4
<1>6. \A r : r \in common <=> \A p \in S : r \in p.rails
  OBVIOUS
<1>7. PICK p0 \in S : least = p0.cap
  BY <1>3
<1>8. least \in Nat
  BY <1>7
<1> HIDE DEF least, common
<1> QED
  BY <1>3, <1>5, <1>6, <1>8
-----------------------------------------------------------------------------
(* GraphDeploy: what a step of one deploy leaves alone                     *)

\* What the compiler reads of each node of a canvas.
LEMMA CanvasNodes ==
    ASSUME NEW g \in Canvases
    PROVE  /\ Len(g.nodes) \in Nat /\ DOMAIN g.nodes = 1 .. Len(g.nodes)
           /\ \A i \in DOMAIN g.nodes :
                  /\ NodeSpend(g, i) = [cap |-> g.nodes[i].cap, rails |-> g.nodes[i].rails]
                  /\ NodeSpend(g, i) \in DrawnSpends /\ NodeSpend(g, i).cap \in Nat
                  /\ NodeSpend(g, i).cap = g.nodes[i].cap
                  /\ NodeSpend(g, i).rails = g.nodes[i].rails
                  /\ Compiled(g).roles[i].role = g.nodes[i].role
<1>1. /\ g.nodes \in Seq({g.nodes[i] : i \in DOMAIN g.nodes})
      /\ \A i \in DOMAIN g.nodes : g.nodes[i].cap \in Nat
  BY DeployAssumption
<1>2. Len(g.nodes) \in Nat /\ DOMAIN g.nodes = 1 .. Len(g.nodes)
  BY <1>1
<1>3. ASSUME NEW i \in DOMAIN g.nodes
      PROVE  /\ NodeSpend(g, i) = [cap |-> g.nodes[i].cap, rails |-> g.nodes[i].rails]
             /\ Compiled(g).roles[i].role = g.nodes[i].role
  BY DEF NodeSpend, Compiled
<1>4. \A i \in DOMAIN g.nodes : NodeSpend(g, i) \in DrawnSpends
  BY DEF DrawnSpends
<1> QED
  BY <1>1, <1>2, <1>3, <1>4

\* A drawn cap is a number.
LEMMA DrawnCaps ==
    ASSUME NEW p \in DrawnSpends
    PROVE  p.cap \in Nat
<1>1. PICK g \in Canvases : \E i \in DOMAIN g.nodes : p = NodeSpend(g, i)
  BY DEF DrawnSpends
<1>2. PICK i \in DOMAIN g.nodes : p = NodeSpend(g, i)
  BY <1>1
<1> QED
  BY <1>2, CanvasNodes

\* The agent a role went to is that of the last node drawn with the role.
LEMMA RoleAgentIs ==
    ASSUME NEW d \in DeployRecord, NEW i \in DOMAIN d.graph.nodes, DeployMatches(d),
           Len(d.made) = Len(d.graph.nodes)
    PROVE  LET role0 == d.graph.nodes[i].role
           IN  \E k \in DOMAIN d.made :
                   /\ k \in DOMAIN d.graph.nodes /\ d.graph.nodes[k].role = role0
                   /\ RoleAgent(d, role0) = d.made[k] /\ d.made[k] \in DOMAIN layers
                   /\ k \in MadeFor(d, role0) /\ \A j \in MadeFor(d, role0) : j <= k
                   /\ k = CHOOSE x \in MadeFor(d, role0) : \A j \in MadeFor(d, role0) : j <= x
<1> DEFINE role0 == d.graph.nodes[i].role
           M == MadeFor(d, role0)
<1>1. /\ d.graph \in Canvases /\ d.made \in Seq(Nat) /\ d.at \in Working
      /\ \A j \in DOMAIN d.made : d.made[j] \in DOMAIN layers
  BY DEF DeployRecord, DeployMatches
<1>2. PICK n \in Nat : n = Len(d.made) /\ DOMAIN d.made = 1 .. n /\ DOMAIN d.graph.nodes = 1 .. n
  BY <1>1, CanvasNodes
<1>3. M \subseteq 1 .. n /\ i \in M
  BY <1>2 DEF MadeFor
<1>4. \E x \in M : \A j \in M : j <= x
  <2> HIDE DEF M
  <2> QED
    BY <1>3, LastMember
<1>5. PICK k : k = CHOOSE x \in M : \A j \in M : j <= x
  OBVIOUS
<1>6. k \in M /\ \A j \in M : j <= k
  BY <1>4, <1>5
<1>7. d.graph.nodes[k].role = role0 /\ k \in 1 .. n
  BY <1>3, <1>6 DEF MadeFor
<1>8. RoleAgent(d, role0) = d.made[k]
  BY <1>5 DEF RoleAgent
<1> QED
  BY <1>1, <1>2, <1>5, <1>6, <1>7, <1>8

\* Policies are only ever added to an agent.
LayersGrow == \A a \in DOMAIN layers : a \in DOMAIN layers' /\ layers[a] \subseteq layers'[a]

\* A layer of policy once written stays, so what a deploy knows of its own goes on to hold.
LEMMA MatchesKept ==
    ASSUME LayersGrow, NEW d \in DeployRecord, DeployMatches(d)
    PROVE  DeployMatches(d)'
<1>1. /\ d.at \in Working /\ d.made \in Seq(Nat) /\ d.done \in Nat /\ d.graph \in Canvases
      /\ ProgressMatches(d)
  BY DEF DeployRecord, DeployMatches
<1>2. ASSUME NEW i \in 1 .. d.done
      PROVE  NodeSpend(d.graph, i) \in layers'[RoleAgent(d, d.graph.nodes[i].role)]
  <2>1. d.done # 0 /\ i \in Nat /\ i <= d.done /\ 1 <= i
    BY <1>1
  <2>2. d.at \in {"write", "assign", "mark", "answered"}
    BY <1>1, <2>1 DEF ProgressMatches, Working
  <2>3. Len(d.made) = Len(d.graph.nodes) /\ d.done <= Len(d.graph.nodes)
    BY <1>1, <2>2, CanvasNodes DEF ProgressMatches
  <2>4. i \in DOMAIN d.graph.nodes
    BY <1>1, <2>1, <2>3, CanvasNodes
  <2>5. RoleAgent(d, d.graph.nodes[i].role) \in DOMAIN layers
    BY <2>3, <2>4, RoleAgentIs
  <2>6. NodeSpend(d.graph, i) \in layers[RoleAgent(d, d.graph.nodes[i].role)]
    BY <1>1 DEF DeployMatches
  <2> QED
    BY <2>5, <2>6 DEF LayersGrow
<1> QED
  BY <1>1, <1>2 DEF DeployMatches, LayersGrow

\* A deploy that has ended is not at work.
LEMMA EndsMatch ==
    /\ \A d \in {Rest, [at |-> "refused"], [at |-> "failed"]} : d.at \notin Working
    /\ Rest.at = "new"
  BY DEF Rest, Working

\* A deploy that is at work holds a record of its kind.
LEMMA DeployForms ==
    ASSUME DeploysMatch, NEW q \in Deploys, deployer[q].at \in Working
    PROVE  deployer[q] \in DeployRecord /\ DeployMatches(deployer[q])
  BY EndsMatch DEF DeploysMatch, DeployRecords

\* One deploy turns to a record that matches; the others stay where they are.
LEMMA OthersKept ==
    ASSUME DeploysMatch, LayersGrow, NEW q \in Deploys, NEW next \in DeployRecords,
           Turn(q, next), DeployMatches(next)'
    PROVE  /\ DeploysMatch' /\ deployer'[q] = next
           /\ \A p \in Deploys \ {q} : deployer'[p] = deployer[p]
<1>1. /\ deployer' \in [Deploys -> DeployRecords] /\ deployer'[q] = next
      /\ \A p \in Deploys \ {q} : deployer'[p] = deployer[p]
  BY DEF DeploysMatch, Turn
<1>2. ASSUME NEW p \in Deploys
      PROVE  DeployMatches(deployer[p])'
  <2>1. CASE p = q
    BY <1>1, <2>1 DEF DeployMatches
  <2>2. CASE p # q
    <3>1. PICK d \in DeployRecords : d = deployer[p] /\ d = deployer'[p] /\ DeployMatches(d)
      BY <1>1, <2>2 DEF DeploysMatch
    <3>2. DeployMatches(d)'
      <4>1. CASE d \in DeployRecord
        BY <3>1, <4>1, MatchesKept
      <4>2. CASE d \notin DeployRecord
        BY <4>2, EndsMatch DEF DeployRecords, DeployMatches
      <4> QED
        BY <4>1, <4>2
    <3> QED
      BY <3>1, <3>2 DEF DeployMatches
  <2> QED
    BY <2>1, <2>2
<1> QED
  BY <1>1, <1>2 DEF DeploysMatch

\* A canvas keeps being deployed: a deploy that answered answered for good.
LEMMA DeployedKept ==
    ASSUME DeployedMatches, NEW q \in Deploys, deployer[q].at # "answered",
           \A p \in Deploys \ {q} : deployer'[p] = deployer[p],
           stored'.deployed = stored.deployed, stored'.bound = stored.bound
    PROVE  DeployedMatches'
<1> SUFFICES ASSUME stored.deployed
             PROVE  \E d \in Answered' : stored.bound = Bindings(d)
  BY DEF DeployedMatches
<1>1. PICK d \in Answered : stored.bound = Bindings(d)
  BY DEF DeployedMatches
<1>2. PICK p \in Deploys : deployer[p] = d /\ d.at = "answered"
  BY <1>1 DEF Answered
<1>3. deployer'[p] = d /\ p \in Deploys
  BY <1>2
<1>4. d \in Answered'
  BY <1>2, <1>3 DEF Answered
<1> QED
  BY <1>1, <1>4

\* A step of one deploy that ends where it matches.
LEMMA TurnPreserves ==
    ASSUME DeployIInv, CanvasMatches', LayersGrow, NEW q \in Deploys, NEW next \in DeployRecords,
           Turn(q, next), DeployMatches(next)', deployer[q].at # "answered",
           stored'.deployed = stored.deployed, stored'.bound = stored.bound
    PROVE  DeployIInv'
  BY OthersKept, DeployedKept DEF DeployIInv

\* Saving a canvas keeps what was deployed and the agents bound to it.
LEMMA Upserted ==
    ASSUME CanvasMatches, NEW g \in Canvases, Upsert(g), UNCHANGED <<fleet, layers>>
    PROVE  /\ CanvasMatches' /\ LayersGrow
           /\ stored'.deployed = stored.deployed /\ stored'.bound = stored.bound
<1>1. stored' \in [graph : {g}, deployed : {stored.deployed}, bound : {stored.bound}]
  BY DEF CanvasMatches, Upsert
<1>2. stored'.deployed = stored.deployed /\ stored'.bound = stored.bound
  BY <1>1
<1>3. stored' \in [graph : Canvases, deployed : BOOLEAN, bound : {stored'.bound}]
  <2>1. stored.deployed \in BOOLEAN
    BY DEF CanvasMatches
  <2> QED
    BY <1>1, <1>2, <2>1
<1> QED
  BY <1>2, <1>3 DEF CanvasMatches, LayersGrow

\* The user saves the canvas while deploys are under way.
LEMMA SavePreserves ==
    ASSUME DeployIInv, NEW g \in Canvases, SaveGraph(g)
    PROVE  DeployIInv'
<1>1. /\ CanvasMatches' /\ UNCHANGED <<fleet, layers, deployer>>
      /\ stored'.deployed = stored.deployed /\ stored'.bound = stored.bound
  BY Upserted DEF SaveGraph, DeployIInv
<1> QED
  BY <1>1 DEF DeployIInv, DeploysMatch, DeployMatches, DeployedMatches, Answered

\* A valid canvas begins a deploy, an invalid one is refused.
LEMMA DeployPreserves ==
    ASSUME DeployIInv, NEW q \in Deploys, NEW g \in Canvases, Deploy(q, g)
    PROVE  DeployIInv'
<1>1. /\ CanvasMatches' /\ LayersGrow /\ deployer[q].at # "answered"
      /\ stored'.deployed = stored.deployed /\ stored'.bound = stored.bound
  BY Upserted, EndsMatch DEF Deploy, DeployIInv
<1>2. CASE Turn(q, [at |-> "refused"])
  <2>1. PICK next : next = [at |-> "refused"]
    OBVIOUS
  <2>2. next \in DeployRecords /\ DeployMatches(next)'
    BY <2>1, EndsMatch DEF DeployRecords, DeployMatches
  <2> QED
    BY <1>1, <1>2, <2>1, <2>2, TurnPreserves
<1>3. CASE /\ ValidGraph(g)
           /\ Turn(q, [at |-> IF g.nodes = << >> THEN "mark" ELSE "register", graph |-> g,
                       made |-> << >>, done |-> 0])
  <2>1. PICK at : at = IF g.nodes = << >> THEN "mark" ELSE "register"
    OBVIOUS
  <2>2. PICK next : next = [at |-> at, graph |-> g, made |-> << >>, done |-> 0]
    OBVIOUS
  <2>3. /\ next \in [at : {at}, graph : {g}, made : {<< >>}, done : {0}]
        /\ Len(<< >>) = 0 /\ DOMAIN << >> = {} /\ << >> \in Seq(Nat)
    BY <2>2
  <2>4. next \in DeployRecord
    <3>1. at \in Working /\ 0 \in Nat
      BY <2>1 DEF Working
    <3>2. next \in [at : Working, graph : Canvases, made : Seq(Nat), done : Nat]
      BY <2>3, <3>1
    <3> QED
      BY <3>2 DEF DeployRecord
  <2>5. Len(g.nodes) \in Nat /\ (g.nodes # << >> => Len(g.nodes) > 0)
        /\ (g.nodes = << >> => Len(g.nodes) = 0)
    BY DeployAssumption
  <2>6. ProgressMatches(next)
    BY <2>1, <2>3, <2>5 DEF ProgressMatches
  <2>7. DeployMatches(next)'
    <3>1. /\ next.graph = g /\ next.made = << >> /\ next.done = 0
          /\ DOMAIN next.made = {} /\ 1 .. next.done = {}
      BY <2>3
    <3> QED
      BY <1>3, <2>6, <3>1 DEF DeployMatches
  <2>8. Turn(q, next)
    BY <1>3, <2>1, <2>2
  <2>9. next \in DeployRecords
    BY <2>4 DEF DeployRecords
  <2> QED
    BY <1>1, <2>7, <2>8, <2>9, TurnPreserves
<1> QED
  BY <1>2, <1>3 DEF Deploy

\* The agents a deploy has made decide which of them stands for a role.
LastOf(M) == CHOOSE i \in M : \A j \in M : j <= i

\* The agents of the roles are those of the agents made and the graph.
LEMMA SameAgents ==
    ASSUME NEW d, NEW e, e.made = d.made, e.graph = d.graph
    PROVE  /\ \A r : RoleAgent(e, r) = RoleAgent(d, r)
           /\ Bindings(e) = Bindings(d)
<1>1. \A r : MadeFor(e, r) = MadeFor(d, r)
  BY DEF MadeFor
<1>2. ASSUME NEW x
      PROVE  /\ \A r : RoleAgent(x, r) = x.made[LastOf(MadeFor(x, r))]
             /\ Bindings(x) = [r \in Roles(x) |-> x.made[LastOf(MadeFor(x, r))]]
  BY DEF RoleAgent, Bindings, LastOf
<1>3. \A r : LastOf(MadeFor(e, r)) = LastOf(MadeFor(d, r))
  BY <1>1
<1>4. Roles(e) = Roles(d)
  BY DEF Roles
<1> QED
  BY <1>2, <1>3, <1>4

\* An agent is registered: it is younger than every agent its deploy has made.
LEMMA RegisterPreserves ==
    ASSUME DeployIInv, NEW q \in Deploys, RegisterNode(q)
    PROVE  DeployIInv'
<1>1. PICK d \in DeployRecord : d = deployer[q] /\ DeployMatches(d) /\ d.at = "register"
  BY DeployForms DEF RegisterNode, DeployIInv, Working
<1>2. /\ fleet \in Seq([key : BOOLEAN]) /\ layers \in Seq(SUBSET DrawnSpends)
      /\ Len(layers) = Len(fleet) /\ UNCHANGED stored
      /\ fleet' = Append(fleet, [key |-> FALSE]) /\ layers' = Append(layers, {})
  BY DEF DeployIInv, CanvasMatches, RegisterNode
<1>3. PICK n \in Nat : n = Len(fleet)
  BY <1>2
<1>4. PICK agent \in [key : BOOLEAN] : fleet' = Append(fleet, agent)
  BY <1>2
<1>5. PICK none \in SUBSET DrawnSpends : layers' = Append(layers, none)
  BY <1>2
<1>6. CanvasMatches'
  <2>1. fleet' \in Seq([key : BOOLEAN]) /\ Len(fleet') = n + 1
    BY <1>2, <1>3, <1>4
  <2>2. layers' \in Seq(SUBSET DrawnSpends) /\ Len(layers') = n + 1
    BY <1>2, <1>3, <1>5
  <2> QED
    BY <1>2, <2>1, <2>2 DEF DeployIInv, CanvasMatches
<1>7. LayersGrow /\ DOMAIN layers = 1 .. n /\ DOMAIN layers' = 1 .. (n + 1)
  BY <1>2, <1>3, <1>5 DEF LayersGrow
<1>8. /\ d.graph \in Canvases /\ d.made \in Seq(Nat) /\ d.done = 0 /\ ValidGraph(d.graph)
      /\ Len(d.made) < Len(d.graph.nodes) /\ Len(d.graph.nodes) \in Nat
      /\ \A i \in DOMAIN d.made : d.made[i] \in 1 .. n
      /\ \A i, j \in DOMAIN d.made : i < j => d.made[i] < d.made[j]
  BY <1>1, <1>7, CanvasNodes DEF DeployRecord, DeployMatches, ProgressMatches, Working
<1>9. PICK made \in Seq(Nat) :
         /\ made = Append(d.made, n + 1) /\ Len(made) = Len(d.made) + 1
         /\ DOMAIN made = 1 .. (Len(d.made) + 1) /\ made[Len(d.made) + 1] = n + 1
         /\ \A i \in DOMAIN d.made : made[i] = d.made[i]
  <2>1. PICK old \in Seq(Nat) : old = d.made
    BY <1>8
  <2>2. PICK made : made = Append(old, n + 1)
    OBVIOUS
  <2>3. /\ made \in Seq(Nat) /\ Len(made) = Len(old) + 1
        /\ DOMAIN made = 1 .. (Len(old) + 1) /\ made[Len(old) + 1] = n + 1
        /\ \A i \in DOMAIN old : made[i] = old[i]
    BY <2>2
  <2> QED
    BY <2>1, <2>2, <2>3
<1>10. /\ \A i \in DOMAIN made : made[i] \in 1 .. (n + 1)
       /\ \A i, j \in DOMAIN made : i < j => made[i] < made[j]
  <2>1. PICK m \in Nat : m = Len(d.made) /\ DOMAIN d.made = 1 .. m
    BY <1>8
  <2>2. \A i \in DOMAIN made : i \in 1 .. m \/ i = m + 1
    BY <1>9, <2>1
  <2> QED
    BY <1>8, <1>9, <2>1, <2>2
<1>11. PICK next \in [at : {"provision"}, graph : {d.graph}, made : {made}, done : {0}] :
          Turn(q, next)
  <2>1. PICK next : next = [d EXCEPT !.at = "provision", !.made = made]
    OBVIOUS
  <2>2. next \in [at : {"provision"}, graph : {d.graph}, made : {made}, done : {0}]
    BY <1>8, <2>1 DEF DeployRecord
  <2>3. Turn(q, next)
    BY <1>1, <1>3, <1>9, <2>1 DEF RegisterNode, DeployRecord
  <2> QED
    BY <2>2, <2>3
<1>12. next \in DeployRecords
  <2>1. next \in DeployRecord
    BY <1>8, <1>9, <1>11 DEF DeployRecord, Working
  <2> QED
    BY <2>1 DEF DeployRecords
<1>13. DeployMatches(next)'
  <2>1. ProgressMatches(next)
    BY <1>8, <1>9, <1>11 DEF ProgressMatches
  <2> QED
    BY <1>7, <1>8, <1>10, <1>11, <2>1 DEF DeployMatches
<1> QED
  BY <1>1, <1>2, <1>6, <1>7, <1>11, <1>12, <1>13, TurnPreserves

\* A step that only moves a deploy on: its agents and its canvas stay what they were.
LEMMA MovingOn ==
    ASSUME NEW d \in DeployRecord, NEW at \in Working
    PROVE  \E next \in [at : {at}, graph : {d.graph}, made : {d.made}, done : {d.done}] :
               next = [d EXCEPT !.at = at] /\ next \in DeployRecord /\ next \in DeployRecords
<1>1. PICK next : next = [d EXCEPT !.at = at]
  OBVIOUS
<1>2. next \in [at : {at}, graph : {d.graph}, made : {d.made}, done : {d.done}]
  BY <1>1 DEF DeployRecord
<1>3. d.graph \in Canvases /\ d.made \in Seq(Nat) /\ d.done \in Nat
  BY DEF DeployRecord
<1>4. next \in DeployRecord
  BY <1>2, <1>3 DEF DeployRecord
<1> QED
  BY <1>1, <1>2, <1>4 DEF DeployRecords

\* The agent may have a keypair or none; its deploy goes on either way.
LEMMA ProvisionPreserves ==
    ASSUME DeployIInv, NEW q \in Deploys, Provision(q)
    PROVE  DeployIInv'
<1>1. PICK d \in DeployRecord : d = deployer[q] /\ DeployMatches(d) /\ d.at = "provision"
  BY DeployForms DEF Provision, DeployIInv, Working
<1>2. UNCHANGED <<stored, layers>> /\ LayersGrow /\ deployer[q].at # "answered"
  BY <1>1 DEF Provision, LayersGrow
<1>3. /\ ProgressMatches(d) /\ d.graph \in Canvases /\ Len(d.graph.nodes) \in Nat
      /\ d.made \in Seq(Nat) /\ Len(d.made) \in Nat /\ ValidGraph(d.graph)
  BY <1>1, CanvasNodes DEF DeployMatches, DeployRecord, Working
<1>4. CanvasMatches'
  <2>0. PICK ok \in BOOLEAN : \E a : fleet' = [fleet EXCEPT ![a].key = ok]
    BY DEF Provision
  <2>1. PICK a : fleet' = [fleet EXCEPT ![a].key = ok]
    BY <2>0
  <2>2. fleet \in Seq([key : BOOLEAN])
    BY DEF DeployIInv, CanvasMatches
  <2>3. fleet' \in Seq([key : BOOLEAN]) /\ Len(fleet') = Len(fleet)
    <3>1. CASE a \in DOMAIN fleet
      <4>1. PICK agent : agent = [fleet[a] EXCEPT !.key = ok]
        OBVIOUS
      <4>2. fleet[a] \in [key : BOOLEAN]
        <5>1. PICK Agent : Agent = [key : BOOLEAN]
          OBVIOUS
        <5>2. fleet \in Seq(Agent)
          BY <2>2, <5>1
        <5>3. fleet[a] \in Agent
          BY <3>1, <5>2
        <5> QED
          BY <5>1, <5>3
      <4>3. agent \in [key : BOOLEAN] /\ fleet' = [fleet EXCEPT ![a] = agent]
        BY <2>1, <4>1, <4>2
      <4> QED
        BY <2>2, <3>1, <4>3
    <3>2. CASE a \notin DOMAIN fleet
      <4>1. fleet' = fleet
        BY <2>1, <2>2, <3>2
      <4> QED
        BY <2>2, <4>1
    <3> QED
      BY <3>1, <3>2
  <2> QED
    BY <1>2, <2>3 DEF DeployIInv, CanvasMatches
<1>5. PICK at \in {"register", "write"} :
         at = IF Len(d.made) < Len(d.graph.nodes) THEN "register" ELSE "write"
  OBVIOUS
<1>6. PICK next \in [at : {at}, graph : {d.graph}, made : {d.made}, done : {d.done}] :
         next = [d EXCEPT !.at = at] /\ next \in DeployRecord /\ next \in DeployRecords
  <2>1. at \in Working
    BY <1>5 DEF Working
  <2> QED
    BY <2>1, MovingOn
<1>7. Turn(q, next)
  BY <1>1, <1>5, <1>6 DEF Provision
<1>8. ProgressMatches(next)
  BY <1>1, <1>3, <1>5, <1>6 DEF ProgressMatches
<1>9. DeployMatches(next)'
  <2>1. d.done = 0 /\ 1 .. next.done = {}
    BY <1>1, <1>3, <1>6 DEF ProgressMatches
  <2> QED
    BY <1>1, <1>2, <1>3, <1>6, <1>8, <2>1 DEF DeployMatches, Working
<1> QED
  BY <1>1, <1>2, <1>4, <1>6, <1>7, <1>9, TurnPreserves

\* The versions of a role's policies are written and still assigned to nobody.
LEMMA WriteVersionsPreserves ==
    ASSUME DeployIInv, NEW q \in Deploys, WriteVersions(q)
    PROVE  DeployIInv'
<1>1. PICK d \in DeployRecord : d = deployer[q] /\ DeployMatches(d) /\ d.at = "write"
  BY DeployForms DEF WriteVersions, DeployIInv, Working
<1>2. /\ UNCHANGED <<stored, fleet, layers>> /\ LayersGrow /\ CanvasMatches'
      /\ deployer[q].at # "answered"
  BY <1>1 DEF WriteVersions, LayersGrow, DeployIInv, CanvasMatches
<1>3. PICK next \in [at : {"assign"}, graph : {d.graph}, made : {d.made}, done : {d.done}] :
         next = [d EXCEPT !.at = "assign"] /\ next \in DeployRecord /\ next \in DeployRecords
  BY MovingOn DEF Working
<1>4. Turn(q, next)
  BY <1>1, <1>3 DEF WriteVersions
<1>5. ProgressMatches(next) /\ ValidGraph(d.graph)
  BY <1>1, <1>3 DEF ProgressMatches, DeployMatches, Working
<1>6. \A r : RoleAgent(next, r) = RoleAgent(d, r)
  BY <1>3, SameAgents
<1>7. DeployMatches(next)'
  BY <1>1, <1>2, <1>3, <1>5, <1>6 DEF DeployMatches, Working
<1> QED
  BY <1>1, <1>2, <1>3, <1>4, <1>7, TurnPreserves

\* The policy of the next role goes to the agent that stands for the role.
LEMMA AssignPreserves ==
    ASSUME DeployIInv, NEW q \in Deploys, AssignSpend(q)
    PROVE  DeployIInv'
<1>1. PICK d \in DeployRecord : d = deployer[q] /\ DeployMatches(d) /\ d.at = "assign"
  BY DeployForms DEF AssignSpend, DeployIInv, Working
<1>2. /\ d.graph \in Canvases /\ d.made \in Seq(Nat) /\ d.done \in Nat /\ ValidGraph(d.graph)
      /\ Len(d.made) = Len(d.graph.nodes) /\ d.done < Len(d.graph.nodes)
      /\ Len(d.graph.nodes) \in Nat /\ DOMAIN d.graph.nodes = 1 .. Len(d.graph.nodes)
  BY <1>1, CanvasNodes DEF DeployMatches, DeployRecord, ProgressMatches, Working
<1>3. PICK k \in DOMAIN d.graph.nodes : k = d.done + 1
  BY <1>2
<1>4. PICK a \in DOMAIN layers : a = RoleAgent(d, d.graph.nodes[k].role)
  BY <1>1, <1>2, RoleAgentIs
<1>5. PICK spend \in DrawnSpends : spend = NodeSpend(d.graph, k)
  BY <1>2, CanvasNodes
<1>6. /\ layers' = [layers EXCEPT ![a] = @ \cup {spend}] /\ UNCHANGED <<stored, fleet>>
      /\ deployer[q].at # "answered"
  <2>1. Compiled(d.graph).roles[k].role = d.graph.nodes[k].role
    BY <1>2, CanvasNodes
  <2> QED
    BY <1>1, <1>3, <1>4, <1>5, <2>1 DEF AssignSpend, NodeSpend
<1>7. layers \in Seq(SUBSET DrawnSpends)
  BY DEF DeployIInv, CanvasMatches
<1>8. PICK all \in SUBSET DrawnSpends :
         all = layers[a] \cup {spend} /\ layers' = [layers EXCEPT ![a] = all]
  <2>1. PICK old \in SUBSET DrawnSpends : old = layers[a]
    BY <1>7
  <2>2. PICK all \in SUBSET DrawnSpends : all = old \cup {spend}
    OBVIOUS
  <2> QED
    BY <1>6, <2>1, <2>2
<1>9. /\ layers' \in Seq(SUBSET DrawnSpends) /\ Len(layers') = Len(layers)
      /\ DOMAIN layers' = DOMAIN layers /\ spend \in layers'[a]
      /\ \A b \in DOMAIN layers \ {a} : layers'[b] = layers[b]
  BY <1>7, <1>8
<1>10. CanvasMatches' /\ LayersGrow
  BY <1>6, <1>8, <1>9 DEF DeployIInv, CanvasMatches, LayersGrow
<1>11. PICK at \in {"write", "mark"} :
          at = IF d.done + 1 < Len(d.graph.nodes) THEN "write" ELSE "mark"
  OBVIOUS
<1>12. PICK next \in [at : {at}, graph : {d.graph}, made : {d.made}, done : {k}] : Turn(q, next)
  <2>1. PICK next : next = [d EXCEPT !.done = @ + 1, !.at = at]
    OBVIOUS
  <2>2. next \in [at : {at}, graph : {d.graph}, made : {d.made}, done : {k}]
    BY <1>3, <2>1 DEF DeployRecord
  <2>3. Turn(q, next)
    BY <1>1, <1>11, <2>1 DEF AssignSpend
  <2> QED
    BY <2>2, <2>3
<1>13. next \in DeployRecords
  <2>1. next \in DeployRecord
    BY <1>2, <1>3, <1>12 DEF DeployRecord, Working
  <2> QED
    BY <2>1 DEF DeployRecords
<1>14. \A r : RoleAgent(next, r) = RoleAgent(d, r)
  BY <1>12, SameAgents
<1>15. ProgressMatches(next)
  BY <1>2, <1>3, <1>11, <1>12 DEF ProgressMatches
<1>16. ASSUME NEW i \in 1 .. k
       PROVE  NodeSpend(d.graph, i) \in layers'[RoleAgent(d, d.graph.nodes[i].role)]
  <2>1. CASE i = k
    BY <1>4, <1>5, <1>9, <2>1
  <2>2. CASE i # k
    <3>1. i \in 1 .. d.done
      BY <1>2, <1>3, <2>2
    <3>2. DeployMatches(d)'
      BY <1>1, <1>10, MatchesKept
    <3> QED
      BY <1>1, <3>1, <3>2 DEF DeployMatches, Working
  <2> QED
    BY <2>1, <2>2
<1>17. DeployMatches(next)'
  <2>1. next.graph = d.graph /\ next.made = d.made /\ next.done = k
    BY <1>12
  <2>2. \A i \in DOMAIN next.made : next.made[i] \in DOMAIN layers'
    BY <1>1, <1>9, <2>1 DEF DeployMatches, Working
  <2>3. \A i, j \in DOMAIN next.made : i < j => next.made[i] < next.made[j]
    BY <1>1, <2>1 DEF DeployMatches, Working
  <2>4. \A i \in 1 .. next.done :
           NodeSpend(next.graph, i) \in layers'[RoleAgent(next, next.graph.nodes[i].role)]
    BY <1>14, <1>16, <2>1
  <2> QED
    BY <1>2, <1>15, <2>1, <2>2, <2>3, <2>4 DEF DeployMatches
<1> QED
  BY <1>1, <1>6, <1>10, <1>12, <1>13, <1>17, TurnPreserves

\* The canvas is marked with the bindings of the deploy that answers.
LEMMA MarkPreserves ==
    ASSUME DeployIInv, NEW q \in Deploys, MarkGraphDeployed(q)
    PROVE  DeployIInv'
<1>1. PICK d \in DeployRecord : d = deployer[q] /\ DeployMatches(d) /\ d.at = "mark"
  BY DeployForms DEF MarkGraphDeployed, DeployIInv, Working
<1>2. UNCHANGED <<fleet, layers>> /\ LayersGrow
  BY DEF MarkGraphDeployed, LayersGrow
<1>3. stored' \in [graph : {stored.graph}, deployed : {TRUE}, bound : {Bindings(d)}]
  BY <1>1 DEF MarkGraphDeployed, DeployIInv, CanvasMatches
<1>4. CanvasMatches'
  <2>1. stored.graph \in Canvases
    BY DEF DeployIInv, CanvasMatches
  <2>2. stored' \in [graph : Canvases, deployed : BOOLEAN, bound : {stored'.bound}]
    BY <1>3, <2>1
  <2> QED
    BY <1>2, <2>2 DEF DeployIInv, CanvasMatches
<1>5. PICK next \in [at : {"answered"}, graph : {d.graph}, made : {d.made}, done : {d.done}] :
         next = [d EXCEPT !.at = "answered"] /\ next \in DeployRecord /\ next \in DeployRecords
  BY MovingOn DEF Working
<1>6. Turn(q, next)
  BY <1>1, <1>5 DEF MarkGraphDeployed
<1>7. ProgressMatches(next) /\ ValidGraph(d.graph)
  BY <1>1, <1>5 DEF ProgressMatches, DeployMatches, Working
<1>8. (\A r : RoleAgent(next, r) = RoleAgent(d, r)) /\ Bindings(next) = Bindings(d)
  BY <1>5, SameAgents
<1>9. DeployMatches(next)'
  BY <1>1, <1>2, <1>5, <1>7, <1>8 DEF DeployMatches, Working
<1>10. DeploysMatch' /\ deployer'[q] = next
  BY <1>2, <1>5, <1>6, <1>9, OthersKept DEF DeployIInv
<1>11. DeployedMatches'
  <2>1. next \in Answered'
    BY <1>5, <1>10 DEF Answered
  <2> QED
    BY <1>3, <1>8, <2>1 DEF DeployedMatches
<1> QED
  BY <1>4, <1>10, <1>11 DEF DeployIInv

\* A deploy ends early: what it has created stays.
LEMMA StopPreserves ==
    ASSUME DeployIInv, NEW q \in Deploys, StopDeploy(q)
    PROVE  DeployIInv'
<1>1. /\ UNCHANGED <<stored, fleet, layers>> /\ LayersGrow /\ CanvasMatches'
      /\ deployer[q].at # "answered" /\ Turn(q, [at |-> "failed"])
  BY DEF StopDeploy, LayersGrow, DeployIInv, CanvasMatches
<1>2. PICK next : next = [at |-> "failed"]
  OBVIOUS
<1>3. next \in DeployRecords /\ DeployMatches(next)'
  BY <1>2, EndsMatch DEF DeployRecords, DeployMatches
<1> QED
  BY <1>1, <1>2, <1>3, TurnPreserves

\* One canvas is stored, no agent is made and no deploy has begun.
LEMMA DeployStart ==
    ASSUME DeployInit
    PROVE  DeployIInv
<1>1. /\ fleet = << >> /\ layers = << >> /\ deployer = [q \in Deploys |-> Rest]
      /\ stored \in [graph : Canvases, deployed : {FALSE}, bound : {<< >>}]
  BY DEF DeployInit
<1>2. stored \in [graph : Canvases, deployed : BOOLEAN, bound : {stored.bound}]
  BY <1>1
<1>3. /\ fleet \in Seq([key : BOOLEAN]) /\ layers \in Seq(SUBSET DrawnSpends)
      /\ Len(layers) = Len(fleet)
  BY <1>1
<1>4. DeploysMatch
  BY <1>1, EndsMatch DEF DeploysMatch, DeployRecords, DeployMatches
<1> QED
  BY <1>1, <1>2, <1>3, <1>4 DEF DeployIInv, CanvasMatches, DeployedMatches

\* DeployIInv is an invariant of the visual builder.
THEOREM DeployInvariance == DeploySpec => []DeployIInv
<1>1. DeployInit => DeployIInv
  BY DeployStart
<1>2. DeployIInv /\ [DeployNext]_deployVars => DeployIInv'
  <2> SUFFICES ASSUME DeployIInv, [DeployNext]_deployVars
               PROVE  DeployIInv'
    OBVIOUS
  <2>1. CASE \E g \in Canvases : SaveGraph(g)
    BY <2>1, SavePreserves
  <2>2. CASE \E q \in Deploys, g \in Canvases : Deploy(q, g)
    BY <2>2, DeployPreserves
  <2>3. ASSUME NEW q \in Deploys,
               \/ RegisterNode(q) \/ Provision(q) \/ WriteVersions(q) \/ AssignSpend(q)
               \/ MarkGraphDeployed(q) \/ StopDeploy(q)
        PROVE  DeployIInv'
    BY <2>3, RegisterPreserves, ProvisionPreserves, WriteVersionsPreserves, AssignPreserves,
       MarkPreserves, StopPreserves
  <2>4. CASE UNCHANGED deployVars
    <3>1. UNCHANGED <<stored, fleet, layers, deployer>>
      BY <2>4 DEF deployVars
    <3> QED
      BY <3>1 DEF DeployIInv, CanvasMatches, DeploysMatch, DeployMatches, DeployedMatches, Answered
  <2> QED
    BY <2>1, <2>2, <2>3, <2>4 DEF DeployNext
<1> QED
  BY <1>1, <1>2, PTL DEF DeploySpec
-----------------------------------------------------------------------------
(* GraphDeploy: what the invariant says of the agents of a deploy          *)

\* Every layer of an agent, and the organisation's, has a cap that is an amount.
LEMMA LayerCaps ==
    ASSUME CanvasMatches, NEW a \in DOMAIN layers
    PROVE  LET S == layers[a] \cup {OrgSpend}
           IN  S # {} /\ \A p \in S : p.cap \in Nat
<1>1. PICK L \in SUBSET DrawnSpends : L = layers[a]
  BY DEF CanvasMatches
<1> QED
  BY <1>1, DrawnCaps, DeployAssumption

\* The agent of the last node of a role has the policy of that node, within what was drawn.
LEMMA LastAgentIsWithin ==
    ASSUME CanvasMatches, NEW d \in DeployRecord, DeployMatches(d), d.at = "answered",
           NEW k \in DOMAIN d.graph.nodes,
           RoleAgent(d, d.graph.nodes[k].role) = d.made[k]
    PROVE  Within(d.made[k], NodeOf(d, d.made[k]), d.graph.ceilings[1])
<1>1. /\ d.graph \in Canvases /\ d.made \in Seq(Nat) /\ d.done = Len(d.graph.nodes)
      /\ Len(d.made) = Len(d.graph.nodes) /\ ValidGraph(d.graph)
      /\ DOMAIN d.graph.nodes = 1 .. Len(d.graph.nodes) /\ Len(d.graph.nodes) \in Nat
  BY CanvasNodes DEF DeployMatches, DeployRecord, ProgressMatches, Working
<1>2. k \in 1 .. d.done /\ k \in DOMAIN d.made
  BY <1>1
<1>3. PICK a \in DOMAIN layers : a = d.made[k]
  BY <1>2 DEF DeployMatches, Working
<1>4. NodeSpend(d.graph, k) \in layers[a]
  BY <1>2, <1>3 DEF DeployMatches, Working
<1>5. NodeOf(d, a) = d.graph.nodes[k]
  <2>1. \A i \in DOMAIN d.made : d.made[i] = a => i = k
    <3>1. \A i, j \in DOMAIN d.made : i < j => d.made[i] < d.made[j]
      BY DEF DeployMatches, Working
    <3>2. ASSUME NEW i \in DOMAIN d.made, d.made[i] = a
          PROVE  i = k
      <4>1. i \in Nat /\ k \in Nat /\ a \in Nat
        BY <1>1, <1>2, <1>3
      <4>2. ~(i < k) /\ ~(k < i)
        BY <1>2, <1>3, <3>1, <3>2, <4>1
      <4> QED
        BY <4>1, <4>2
    <3> QED
      BY <3>2
  <2>2. (CHOOSE i \in DOMAIN d.made : d.made[i] = a) = k
    BY <1>2, <1>3, <2>1
  <2> QED
    BY <2>2 DEF NodeOf
<1>6. PICK S : S = layers[a] \cup {OrgSpend}
  OBVIOUS
<1>7. S # {} /\ (\A p \in S : p.cap \in Nat) /\ EnforcedOn(a) = CompileSpend(S)
  BY <1>6, LayerCaps DEF EnforcedOn
<1>8. /\ NodeSpend(d.graph, k) \in S
      /\ NodeSpend(d.graph, k).cap = d.graph.nodes[k].cap
      /\ NodeSpend(d.graph, k).rails = d.graph.nodes[k].rails
  BY <1>1, <1>4, <1>6, CanvasNodes
<1>9. /\ EnforcedOn(a).cap <= d.graph.nodes[k].cap
      /\ EnforcedOn(a).rails \subseteq d.graph.nodes[k].rails
  BY <1>7, <1>8, CompileSpendNarrows
<1>10. /\ d.graph.nodes[k].cap <= d.graph.ceilings[1]
       /\ ("trade" \in d.graph.nodes[k].rails => "trade" \in d.graph.nodes[k].guards)
  BY <1>1 DEF ValidGraph, TradersAreGuarded
<1> QED
  BY <1>3, <1>4, <1>5, <1>9, <1>10 DEF Within

\* A grant is offered for the last agent of its node, which is the last one of the node's role.
LEMMA OfferedIsLast ==
    ASSUME NEW d \in DeployRecord, DeployMatches(d), d.at = "answered", NEW id, WithId(d, id) # {}
    PROVE  LET i == CHOOSE x \in WithId(d, id) : \A j \in WithId(d, id) : j <= x
           IN  /\ i \in DOMAIN d.graph.nodes
               /\ RoleAgent(d, d.graph.nodes[i].role) = d.made[i]
<1>1. /\ d.graph \in Canvases /\ d.made \in Seq(Nat) /\ Len(d.made) = Len(d.graph.nodes)
      /\ DOMAIN d.graph.nodes = 1 .. Len(d.graph.nodes) /\ Len(d.graph.nodes) \in Nat
  BY CanvasNodes DEF DeployMatches, DeployRecord, ProgressMatches, Working
<1>2. PICK n \in Nat : DOMAIN d.made = 1 .. n /\ DOMAIN d.graph.nodes = 1 .. n
  BY <1>1
<1>3. PICK W : W = WithId(d, id) /\ W # {} /\ W \subseteq 1 .. n
  BY <1>2 DEF WithId
<1>4. \E x \in W : \A j \in W : j <= x
  BY <1>3, LastMember
<1>5. PICK i : i = CHOOSE x \in W : \A j \in W : j <= x
  OBVIOUS
<1>6. i \in W /\ \A j \in W : j <= i
  BY <1>4, <1>5
<1>7. i \in DOMAIN d.graph.nodes /\ NodeIdOf(d, i) = id
  BY <1>2, <1>3, <1>6 DEF WithId
<1> DEFINE role0 == d.graph.nodes[i].role
<1>8. role0 = d.graph.nodes[i].role
  OBVIOUS
<1>9. PICK k \in DOMAIN d.made :
         /\ k \in DOMAIN d.graph.nodes /\ d.graph.nodes[k].role = role0
         /\ RoleAgent(d, role0) = d.made[k]
         /\ \A j \in MadeFor(d, role0) : j <= k
         /\ k = CHOOSE x \in MadeFor(d, role0) : \A j \in MadeFor(d, role0) : j <= x
  BY <1>1, <1>7, RoleAgentIs
<1>10. NodeIdOf(d, i) = d.graph.nodes[k].id /\ NodeIdOf(d, k) = d.graph.nodes[k].id
  BY <1>8, <1>9 DEF NodeIdOf
<1>11. k \in W
  BY <1>3, <1>7, <1>10 DEF WithId
<1>12. i \in MadeFor(d, role0)
  BY <1>2, <1>7, <1>8 DEF MadeFor
<1>13. i = k
  <2>0. i \in 1 .. n /\ k \in 1 .. n
    BY <1>2, <1>7, <1>9
  <2>1. i \in Nat /\ k \in Nat
    BY <2>0
  <2>2. i <= k
    BY <1>9, <1>12
  <2>3. k <= i
    BY <1>6, <1>11
  <2> QED
    BY <2>1, <2>2, <2>3
<1> QED
  BY <1>3, <1>5, <1>7, <1>8, <1>9, <1>13

\* What a deploy that answered says of its agents is enforced, for any canvases and any number
\* of deploys and drafts that interleave, and a canvas says it is deployed only with such agents.
THEOREM FleetsHold == DeploySpec => []FleetsAreEnforced
<1>1. DeployIInv => FleetsAreEnforced
  <2> SUFFICES ASSUME DeployIInv
               PROVE  FleetsAreEnforced
    OBVIOUS
  <2>1. CanvasMatches /\ DeploysMatch /\ DeployedMatches
    BY DEF DeployIInv
  <2>2. DeployTypeOK
    <3>1. \A a \in DOMAIN fleet : fleet[a].key \in BOOLEAN
      <4>1. PICK Agent : Agent = [key : BOOLEAN]
        OBVIOUS
      <4>2. fleet \in Seq(Agent)
        BY <2>1, <4>1 DEF CanvasMatches
      <4>3. \A a \in DOMAIN fleet : fleet[a] \in Agent
        BY <4>2
      <4> QED
        BY <4>1, <4>3
    <3>2. DOMAIN layers = DOMAIN fleet
      BY <2>1 DEF CanvasMatches
    <3> QED
      BY <2>1, <3>1, <3>2 DEF CanvasMatches, DeployTypeOK
  <2>3. ASSUME NEW d \in Answered, NEW a \in {Bindings(d)[r] : r \in Roles(d)} \cup Offered(d)
        PROVE  Within(a, NodeOf(d, a), d.graph.ceilings[1])
    <3>1. d \in DeployRecord /\ DeployMatches(d) /\ d.at = "answered"
      BY <2>1, DeployForms DEF Answered, Working
    <3>2. Len(d.made) = Len(d.graph.nodes)
      BY <3>1 DEF DeployMatches, ProgressMatches, Working
    <3>3. PICK k \in DOMAIN d.graph.nodes :
             a = d.made[k] /\ RoleAgent(d, d.graph.nodes[k].role) = d.made[k]
      <4>1. CASE a \in {Bindings(d)[r] : r \in Roles(d)}
        <5>1. PICK i \in DOMAIN d.graph.nodes : a = Bindings(d)[d.graph.nodes[i].role]
          BY <4>1 DEF Roles
        <5>2. Bindings(d)[d.graph.nodes[i].role] = RoleAgent(d, d.graph.nodes[i].role)
          BY DEF Bindings, RoleAgent, Roles
        <5> QED
          BY <3>1, <3>2, <5>1, <5>2, RoleAgentIs
      <4>2. CASE a \in Offered(d)
        <5>1. PICK id : WithId(d, id) # {} /\
                 a = d.made[CHOOSE i \in WithId(d, id) : \A j \in WithId(d, id) : j <= i]
          BY <4>2 DEF Offered
        <5> QED
          BY <3>1, <5>1, OfferedIsLast
      <4> QED
        BY <4>1, <4>2
    <3> QED
      BY <2>1, <3>1, <3>3, LastAgentIsWithin
  <2> QED
    BY <2>1, <2>2, <2>3 DEF FleetsAreEnforced, DeployedMatches
<1> QED
  BY <1>1, DeployInvariance, PTL
=============================================================================
