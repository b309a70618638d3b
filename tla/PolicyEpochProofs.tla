--------------------------- MODULE PolicyEpochProofs ---------------------------
(***************************************************************************)
(* Proofs about the policy epoch, for any number of agents, edits and      *)
(* readers, and wherever they stop.                                        *)
(***************************************************************************)
EXTENDS PolicyEpoch, TLAPS

-----------------------------------------------------------------------------
(* Type correctness *)

\* The actions of an edit, and those that edits and readers share.
EditStep(e) ==
    \/ DialAgent(e) \/ DialOrg(e) \/ AttachTradingFlow(e)
    \/ CreatePolicyVersion(e) \/ CreateAllocationVersion(e) \/ AssignPolicy(e)

RequestStep(p) ==
    \/ \E g \in Agents : ReadEffectiveLayers(p, g) \/ PublishEffectivePolicy(p, g)
    \/ BumpOrgEpoch(p) \/ Halt(p)

ReaderStep(r) == ReadBlob(r) \/ ReadCounterAndDecide(r)

\* Nothing is published at first.
LEMMA InitTypes == PolicyInit => PolicyTypeOK
BY PolicyAssumption
   DEF PolicyInit, PolicyTypeOK, Policies, Blob, NoBlob, Unset, Requests

\* A step of an edit up to its recompilation.
LEMMA EditTypes ==
    ASSUME PolicyTypeOK, NEW e \in Edits, EditStep(e)
    PROVE  PolicyTypeOK'
<1> USE PolicyAssumption
    DEF PolicyTypeOK, Move, pgVars, redisVars, requestVars, Policies, Requests, Touched, Scopes
<1>1. CASE LookupAssignment(e)
  BY <1>1 DEF LookupAssignment
<1>2. CASE AttachTradingFlow(e)
  BY <1>2 DEF AttachTradingFlow
<1>3. PICK T \in SUBSET Agents : T = Touched(ScopeOf[e])
  OBVIOUS
<1>4. CASE CreatePolicyVersion(e)
  <2>1. /\ epoch' \in Nat /\ order' \in [Edits -> Nat]
        /\ UNCHANGED <<policyOf, assigned, counter, blob, seen, floor>>
    BY <1>4 DEF CreatePolicyVersion
  <2>2. \E step \in {"allocation", "assign", "recompile"} : at' = [at EXCEPT ![e] = step]
    BY <1>4 DEF CreatePolicyVersion
  <2>3. todo' = todo \/ todo' = [todo EXCEPT ![e] = T]
    BY <1>3, <1>4 DEF CreatePolicyVersion
  <2>4. /\ todo' \in [Requests -> SUBSET Agents]
        /\ at' \in [Requests -> {"idle", "create", "allocation", "assign", "recompile", "bump",
                                 "acknowledged", "decide", "served", "halted"}]
    BY <2>2, <2>3
  <2> QED
    BY <2>1, <2>4
<1>5. CASE CreateAllocationVersion(e)
  BY <1>5 DEF CreateAllocationVersion
<1>6. CASE AssignPolicy(e)
  <2>1. /\ assigned' \in SUBSET Policies
        /\ UNCHANGED <<epoch, order, policyOf, counter, blob, seen, floor>>
    BY <1>6 DEF AssignPolicy
  <2>2. \E step \in {"acknowledged", "recompile"} : at' = [at EXCEPT ![e] = step]
    BY <1>6 DEF AssignPolicy
  <2>3. todo' = todo \/ todo' = [todo EXCEPT ![e] = T]
    BY <1>3, <1>6 DEF AssignPolicy
  <2>4. /\ todo' \in [Requests -> SUBSET Agents]
        /\ at' \in [Requests -> {"idle", "create", "allocation", "assign", "recompile", "bump",
                                 "acknowledged", "decide", "served", "halted"}]
    BY <2>2, <2>3
  <2> QED
    BY <2>1, <2>4
<1> QED
  BY <1>1, <1>2, <1>4, <1>5, <1>6 DEF EditStep, DialAgent, DialOrg

\* A recompilation, by an edit or a reader.
LEMMA RequestTypes ==
    ASSUME PolicyTypeOK, NEW p \in Requests, RequestStep(p)
    PROVE  PolicyTypeOK'
<1> USE PolicyAssumption DEF PolicyTypeOK, Move, pgVars, redisVars, requestVars
<1>1. ASSUME NEW g \in Agents, ReadEffectiveLayers(p, g) PROVE PolicyTypeOK'
  <2>1. [epoch |-> epoch, rules |-> LayersInForce(g)] \in Blob
    BY DEF Blob, LayersInForce
  <2> QED
    BY <1>1, <2>1 DEF ReadEffectiveLayers
<1>2. ASSUME NEW g \in Agents, PublishEffectivePolicy(p, g) PROVE PolicyTypeOK'
  <2>1. NoBlob \in Blob
    BY DEF Blob, NoBlob
  <2> QED
    BY <1>2, <2>1 DEF PublishEffectivePolicy
<1>3. CASE BumpOrgEpoch(p)
  <2>1. p \in Readers => seen[p][ReadsFor[p]].epoch \in Nat \cup {Unset}
    BY DEF Blob
  <2>2. counter' \in Nat \cup {Unset}
    BY <1>3, <2>1 DEF BumpOrgEpoch, Advanced, Requests
  <2> QED
    BY <1>3, <2>2 DEF BumpOrgEpoch
<1>4. CASE Halt(p)
  <2>1. NoBlob \in Blob
    BY DEF Blob, NoBlob
  <2> QED
    BY <1>4, <2>1 DEF Halt
<1> QED
  BY <1>1, <1>2, <1>3, <1>4 DEF RequestStep

\* A reader before it recompiles.
LEMMA ReaderTypes ==
    ASSUME PolicyTypeOK, NEW r \in Readers, ReaderStep(r)
    PROVE  PolicyTypeOK'
<1> USE PolicyAssumption DEF PolicyTypeOK, Move, pgVars, redisVars, requestVars, Requests
<1>1. CASE ReadBlob(r)
  BY <1>1 DEF ReadBlob, Acknowledged
<1>2. CASE ReadCounterAndDecide(r)
  <2>1. NoBlob \in Blob /\ ReadsFor[r] \in Agents
    BY DEF Blob, NoBlob
  <2>2. \/ seen' = seen
        \/ seen' = [seen EXCEPT ![r] = [@ EXCEPT ![ReadsFor[r]] = NoBlob]]
    BY <1>2 DEF ReadCounterAndDecide
  <2>3. seen' \in [Requests -> [Agents -> Blob]]
    <3>1. [seen[r] EXCEPT ![ReadsFor[r]] = NoBlob] \in [Agents -> Blob]
      BY <2>1
    <3>2. CASE seen' = seen
      BY <3>2
    <3>3. CASE seen' = [seen EXCEPT ![r] = [@ EXCEPT ![ReadsFor[r]] = NoBlob]]
      BY <3>1, <3>3
    <3> QED
      BY <2>2, <3>2, <3>3
  <2>4. PICK T \in SUBSET Agents : T = {ReadsFor[r]}
    BY <2>1
  <2>5. todo' = todo \/ todo' = [todo EXCEPT ![r] = T]
    BY <1>2, <2>4 DEF ReadCounterAndDecide
  <2>6. \E step \in {"served", "recompile"} : at' = [at EXCEPT ![r] = step]
    BY <1>2 DEF ReadCounterAndDecide
  <2>7. /\ todo' \in [Requests -> SUBSET Agents]
        /\ at' \in [Requests -> {"idle", "create", "allocation", "assign", "recompile", "bump",
                                 "acknowledged", "decide", "served", "halted"}]
    BY <2>5, <2>6
  <2>8. UNCHANGED <<epoch, order, policyOf, assigned, counter, blob, floor>>
    BY <1>2 DEF ReadCounterAndDecide
  <2> QED
    BY <2>3, <2>7, <2>8
<1> QED
  BY <1>1, <1>2 DEF ReaderStep

\* The next-state relation, by who acts.
LEMMA NextSplit ==
    ASSUME [PolicyNext]_policyVars
    PROVE  \/ \E e \in Edits : EditStep(e)
           \/ \E p \in Requests : RequestStep(p)
           \/ \E r \in Readers : ReaderStep(r)
           \/ UNCHANGED policyVars
BY DEF PolicyNext, EditStep, RequestStep, ReaderStep

\* Every step keeps the types.
LEMMA TypeStep == PolicyTypeOK /\ [PolicyNext]_policyVars => PolicyTypeOK'
<1> SUFFICES ASSUME PolicyTypeOK, [PolicyNext]_policyVars PROVE PolicyTypeOK'
  OBVIOUS
<1>1. CASE UNCHANGED policyVars
  BY <1>1 DEF PolicyTypeOK, policyVars, pgVars, redisVars, requestVars
<1> QED
  BY <1>1, NextSplit, EditTypes, RequestTypes, ReaderTypes

\* Every table, key and request holds a value of its kind.
THEOREM TypeCorrect == PolicySpec => []PolicyTypeOK
BY InitTypes, TypeStep, PTL DEF PolicySpec

-----------------------------------------------------------------------------
(* The inductive invariant *)

\* A compiled policy of g says what it claims: its rules are versions that exist, and they
\* cover every edit up to its epoch that was not the first of its policy.
Sound(b, g) ==
    /\ b.epoch <= epoch
    /\ \A f \in b.rules : order[f] > 0
    /\ \A e \in Edits :
          g \in Touched(ScopeOf[e]) /\ policyOf[e] # e /\ order[e] \in 1 .. b.epoch
          => Covers(b.rules, e)

\* Every policy with a version has a latest one.
HasLatest(e) ==
    order[e] > 0 =>
       \E f \in Edits : /\ policyOf[f] = policyOf[e] /\ order[f] > 0
                        /\ \A h \in Edits : policyOf[h] = policyOf[e] => order[h] <= order[f]

\* An edit writes a policy of its own scope, a new one or one that is assigned; its version
\* is committed once it is past "create".
EditMatches(e) ==
    /\ order[e] <= epoch
    /\ PolicyScope(policyOf[e]) = ScopeOf[e]
    /\ policyOf[e] # e => policyOf[e] \in assigned
    /\ at[e] \in {"idle", "create"} => order[e] = 0
    /\ at[e] = "idle" \/ e \in Attaches => policyOf[e] = e
    /\ at[e] \in {"allocation", "assign", "recompile", "bump", "acknowledged"} => order[e] > 0
    /\ at[e] \in {"allocation", "assign"} => policyOf[e] = e

IInv ==
    /\ PolicyTypeOK
    /\ \A e \in Edits : EditMatches(e) /\ HasLatest(e)
    /\ \A g \in Agents : Sound(blob[g], g)
    /\ \A p \in Requests, g \in Agents : Sound(seen[p][g], g)

-----------------------------------------------------------------------------
(* Every step preserves it *)

\* What a step may do to the versions: those that exist stay, and a new one is later than all
\* of them.
VersionsGrow ==
    /\ epoch <= epoch'
    /\ \A f \in Edits :
          /\ order[f] > 0 => order'[f] = order[f] /\ policyOf'[f] = policyOf[f]
          /\ order[f] = 0 => order'[f] = 0 \/ order'[f] > epoch

\* A compiled policy stays sound while versions grow.
LEMMA SoundStays ==
    ASSUME PolicyTypeOK, PolicyTypeOK', VersionsGrow,
           NEW b \in Blob, NEW g \in Agents, Sound(b, g)
    PROVE  Sound(b, g)'
<1>1. /\ b.epoch \in Nat \cup {Unset} /\ b.rules \in SUBSET Edits
      /\ epoch \in Nat /\ epoch' \in Nat
      /\ \A f \in Edits : order[f] \in Nat /\ order'[f] \in Nat
  BY DEF PolicyTypeOK, Blob
<1>2. b.epoch \in Int
  BY <1>1 DEF Unset
<1>3. b.epoch <= epoch' /\ \A f \in b.rules : order'[f] > 0
  BY <1>1, <1>2 DEF Sound, VersionsGrow
<1>4. ASSUME NEW e \in Edits, g \in Touched(ScopeOf[e]), policyOf'[e] # e,
             order'[e] \in 1 .. b.epoch
      PROVE  Covers(b.rules, e)'
  <2>1. order[e] > 0
    BY <1>1, <1>2, <1>4 DEF Sound, VersionsGrow
  <2>2. order'[e] = order[e] /\ policyOf'[e] = policyOf[e]
    BY <2>1 DEF VersionsGrow
  <2>3. Covers(b.rules, e)
    BY <1>4, <2>2 DEF Sound
  <2>4. PICK f \in b.rules : policyOf[f] = policyOf[e] /\ order[f] >= order[e]
    BY <2>3 DEF Covers
  <2>5. f \in Edits /\ order'[f] = order[f] /\ policyOf'[f] = policyOf[f]
    BY <1>1, <2>4 DEF Sound, VersionsGrow
  <2> QED
    BY <2>2, <2>4, <2>5 DEF Covers
<1> QED
  BY <1>3, <1>4 DEF Sound, Touched

\* What is compiled from a snapshot is sound.
LEMMA SnapshotSound ==
    ASSUME IInv, NEW g \in Agents
    PROVE  Sound([epoch |-> epoch, rules |-> LayersInForce(g)], g)
<1> DEFINE b == [epoch |-> epoch, rules |-> LayersInForce(g)]
<1>1. b.epoch <= epoch /\ \A f \in b.rules : order[f] > 0
  BY DEF IInv, PolicyTypeOK, LayersInForce
<1>2. ASSUME NEW e \in Edits, g \in Touched(ScopeOf[e]), policyOf[e] # e, order[e] > 0
      PROVE  Covers(b.rules, e)
  <2>1. EditMatches(e) /\ HasLatest(e)
    BY DEF IInv
  <2>2. PICK f \in Edits :
           /\ policyOf[f] = policyOf[e] /\ order[f] > 0
           /\ \A h \in Edits : policyOf[h] = policyOf[e] => order[h] <= order[f]
    BY <1>2, <2>1 DEF HasLatest
  <2>3. policyOf[f] \in assigned
    BY <1>2, <2>1, <2>2 DEF EditMatches
  <2>4. ScopeOf[f] = ScopeOf[e]
    BY <2>1, <2>2 DEF IInv, EditMatches
  <2>5. f \in LayersInForce(g)
    BY <1>2, <2>2, <2>3, <2>4 DEF LayersInForce
  <2>6. order[f] >= order[e]
    BY <2>2 DEF IInv, PolicyTypeOK
  <2> QED
    BY <2>2, <2>5, <2>6 DEF Covers
<1>3. \A e \in Edits : order[e] \in 1 .. b.epoch => order[e] > 0
  BY DEF IInv, PolicyTypeOK
<1> QED
  BY <1>1, <1>2, <1>3 DEF Sound

\* A blob that was never written claims nothing.
LEMMA NoBlobSound == ASSUME PolicyTypeOK, NEW g \in Agents PROVE Sound(NoBlob, g)
BY DEF PolicyTypeOK, Sound, NoBlob, Unset

\* An edit commits its version once.
LEMMA EditPreserves ==
    ASSUME IInv, PolicyTypeOK', NEW e \in Edits, EditStep(e)
    PROVE  /\ VersionsGrow
           /\ \A f \in Edits : EditMatches(f)' /\ HasLatest(f)'
<1> USE PolicyAssumption
    DEF Move, pgVars, redisVars, requestVars, Requests
<1>0. PolicyTypeOK /\ (\A f \in Edits : EditMatches(f) /\ HasLatest(f)) /\ e \in Requests
  BY DEF IInv
<1>1. CASE DialAgent(e) \/ DialOrg(e)
  <2>0. e \notin Attaches /\ LookupAssignment(e)
    BY <1>1 DEF DialAgent, DialOrg
  <2>1. /\ order[e] = 0 /\ policyOf[e] = e /\ UNCHANGED <<epoch, order, assigned>>
        /\ at' = [at EXCEPT ![e] = "create"] /\ at[e] = "idle"
        /\ \A f \in Edits \ {e} : policyOf'[f] = policyOf[f]
        /\ policyOf'[e] = e \/ (policyOf'[e] \in assigned /\ e \notin Attaches
                                /\ PolicyScope(policyOf'[e]) = ScopeOf[e])
    BY <1>0, <2>0 DEF EditMatches, LookupAssignment, PolicyTypeOK
  <2>2. VersionsGrow
    BY <1>0, <2>1 DEF VersionsGrow, PolicyTypeOK
  <2>3. ASSUME NEW f \in Edits PROVE EditMatches(f)'
    <3>1. EditMatches(f)
      BY <1>0
    <3>2. CASE f # e
      BY <1>0, <2>1, <3>1, <3>2 DEF EditMatches, PolicyScope, PolicyTypeOK
    <3>3. CASE f = e
      BY <1>0, <2>1, <3>1, <3>3 DEF EditMatches, PolicyScope, PolicyTypeOK
    <3> QED
      BY <3>2, <3>3
  <2>4. ASSUME NEW f \in Edits, order[f] > 0 PROVE HasLatest(f)'
    <3>1. PICK k \in Edits :
             /\ policyOf[k] = policyOf[f] /\ order[k] > 0
             /\ \A h \in Edits : policyOf[h] = policyOf[f] => order[h] <= order[k]
      BY <1>0, <2>4 DEF HasLatest
    <3>2. f # e /\ k # e
      BY <2>1, <2>4, <3>1
    <3>3. \A h \in Edits : policyOf'[h] = policyOf'[f] => order'[h] <= order'[k]
      BY <1>0, <2>1, <3>1, <3>2 DEF PolicyTypeOK
    <3> QED
      BY <2>1, <3>1, <3>2, <3>3 DEF HasLatest
  <2> QED
    BY <2>1, <2>2, <2>3, <2>4 DEF HasLatest
<1>2. CASE AttachTradingFlow(e)
  <2>1. UNCHANGED <<epoch, order, policyOf, assigned>> /\ at[e] = "idle"
        /\ at' = [at EXCEPT ![e] = "create"]
    BY <1>2 DEF AttachTradingFlow
  <2>2. ASSUME NEW f \in Edits PROVE EditMatches(f)'
    BY <1>0, <2>1 DEF EditMatches, PolicyScope, PolicyTypeOK
  <2> QED
    BY <1>0, <2>1, <2>2 DEF VersionsGrow, HasLatest, PolicyTypeOK
<1>3. CASE CreatePolicyVersion(e)
  <2>1. /\ order[e] = 0 /\ epoch' = epoch + 1 /\ order' = [order EXCEPT ![e] = epoch + 1]
        /\ UNCHANGED <<policyOf, assigned>>
        /\ \/ policyOf[e] = e /\ \E step \in {"allocation", "assign"} : Move(e, step)
           \/ policyOf[e] # e /\ Move(e, "recompile")
    BY <1>0, <1>3 DEF EditMatches, CreatePolicyVersion
  <2>2. VersionsGrow
    BY <1>0, <2>1 DEF VersionsGrow, PolicyTypeOK
  <2>3. ASSUME NEW f \in Edits PROVE EditMatches(f)'
    <3>1. EditMatches(f)
      BY <1>0
    <3>2. CASE f # e
      BY <1>0, <2>1, <3>1, <3>2 DEF EditMatches, PolicyScope, PolicyTypeOK
    <3>3. CASE f = e
      BY <1>0, <2>1, <3>1, <3>3 DEF EditMatches, PolicyScope, PolicyTypeOK
    <3> QED
      BY <3>2, <3>3
  <2>4. ASSUME NEW f \in Edits, order'[f] > 0 PROVE HasLatest(f)'
    <3>1. CASE policyOf[f] = policyOf[e]
      <4>1. \A h \in Edits : order'[h] <= order'[e]
        BY <1>0, <2>1 DEF EditMatches, PolicyTypeOK
      <4>2. order'[e] > 0
        BY <1>0, <2>1 DEF PolicyTypeOK
      <4> QED
        BY <2>1, <3>1, <4>1, <4>2 DEF HasLatest
    <3>2. CASE policyOf[f] # policyOf[e]
      <4>1. order'[f] = order[f]
        BY <1>0, <2>1, <3>2 DEF PolicyTypeOK
      <4>2. PICK k \in Edits :
               /\ policyOf[k] = policyOf[f] /\ order[k] > 0
               /\ \A h \in Edits : policyOf[h] = policyOf[f] => order[h] <= order[k]
        BY <1>0, <2>4, <4>1 DEF HasLatest
      <4>3. \A h \in Edits : policyOf[h] = policyOf[f] => order'[h] = order[h]
        BY <1>0, <2>1, <3>2 DEF PolicyTypeOK
      <4> QED
        BY <2>1, <4>2, <4>3 DEF HasLatest
    <3> QED
      BY <3>1, <3>2
  <2> QED
    BY <2>2, <2>3, <2>4 DEF HasLatest
<1>4. CASE CreateAllocationVersion(e) \/ AssignPolicy(e)
  <2>1. /\ UNCHANGED <<order, policyOf>> /\ epoch <= epoch' /\ assigned \subseteq assigned'
        /\ at[e] \in {"allocation", "assign"}
        /\ \E step \in {"assign", "acknowledged", "recompile"} : Move(e, step)
    BY <1>0, <1>4 DEF CreateAllocationVersion, AssignPolicy, PolicyTypeOK
  <2>2. ASSUME NEW f \in Edits PROVE EditMatches(f)'
    <3>1. EditMatches(f) /\ EditMatches(e)
      BY <1>0
    <3>2. order'[f] <= epoch'
      BY <1>0, <2>1, <3>1 DEF EditMatches, PolicyTypeOK
    <3> QED
      BY <1>0, <2>1, <3>1, <3>2 DEF EditMatches, PolicyScope, PolicyTypeOK
  <2> QED
    BY <1>0, <2>1, <2>2 DEF VersionsGrow, HasLatest, PolicyTypeOK
<1> QED
  BY <1>1, <1>2, <1>3, <1>4 DEF EditStep

\* The versions are not touched by a recompilation or a reader.
LEMMA RequestPreserves ==
    ASSUME IInv, PolicyTypeOK', NEW p \in Requests,
           RequestStep(p) \/ (p \in Readers /\ ReaderStep(p))
    PROVE  /\ VersionsGrow
           /\ \A f \in Edits : EditMatches(f)' /\ HasLatest(f)'
<1> USE PolicyAssumption
    DEF Move, pgVars, redisVars, requestVars, Requests
<1>0. PolicyTypeOK /\ (\A f \in Edits : EditMatches(f) /\ HasLatest(f))
  BY DEF IInv
<1>1. /\ UNCHANGED <<epoch, order, policyOf, assigned>>
      /\ \/ p \notin Edits /\ \E step : Move(p, step)
         \/ UNCHANGED at
         \/ \E step \in {"bump", "acknowledged"} : Move(p, step) /\ at[p] \in {"recompile", "bump"}
         \/ Move(p, "halted") /\ at[p] # "idle"
  <2>1. CASE RequestStep(p)
    BY <2>1 DEF RequestStep, ReadEffectiveLayers, PublishEffectivePolicy, BumpOrgEpoch, Halt
  <2>2. CASE p \in Readers /\ ReaderStep(p)
    <3>1. p \notin Edits
      BY <2>2
    <3> QED
      BY <2>2, <3>1 DEF ReaderStep, ReadBlob, ReadCounterAndDecide
  <2> QED
    BY <2>1, <2>2
<1>2. ASSUME NEW f \in Edits PROVE EditMatches(f)'
  BY <1>0, <1>1 DEF EditMatches, PolicyScope, PolicyTypeOK
<1> QED
  BY <1>0, <1>1, <1>2 DEF VersionsGrow, HasLatest, PolicyTypeOK

\* What is published and what a request holds was compiled, read or never written.
LEMMA CompiledAreSound ==
    ASSUME IInv, PolicyTypeOK', VersionsGrow,
           \/ \E e \in Edits : EditStep(e)
           \/ \E p \in Requests : RequestStep(p)
           \/ \E r \in Readers : ReaderStep(r)
    PROVE  /\ \A g \in Agents : Sound(blob[g], g)'
           /\ \A p \in Requests, g \in Agents : Sound(seen[p][g], g)'
<1> USE DEF pgVars, redisVars, requestVars
<1>0. PolicyTypeOK /\ NoBlob \in Blob
  BY DEF IInv, Blob, NoBlob
<1>1. ASSUME NEW g \in Agents
      PROVE  /\ \/ blob'[g] = blob[g]
                \/ \E p \in Requests : blob'[g] = seen[p][g]
             /\ \A q \in Requests : \/ seen'[q][g] = seen[q][g]
                                    \/ seen'[q][g] = NoBlob
                                    \/ seen'[q][g] = blob[g]
                                    \/ seen'[q][g] = [epoch |-> epoch, rules |-> LayersInForce(g)]
  <2>1. CASE \E e \in Edits : EditStep(e)
    BY <2>1 DEF EditStep, DialAgent, DialOrg, LookupAssignment, AttachTradingFlow,
                CreatePolicyVersion, CreateAllocationVersion, AssignPolicy
  <2>2. ASSUME NEW p \in Requests, NEW h \in Agents, ReadEffectiveLayers(p, h)
        PROVE  <1>1!2
    BY <1>0, <2>2 DEF ReadEffectiveLayers, PolicyTypeOK
  <2>3. ASSUME NEW p \in Requests, NEW h \in Agents, PublishEffectivePolicy(p, h)
        PROVE  <1>1!2
    BY <1>0, <2>3 DEF PublishEffectivePolicy, PolicyTypeOK
  <2>4. ASSUME NEW p \in Requests, BumpOrgEpoch(p) \/ Halt(p)
        PROVE  <1>1!2
    BY <1>0, <2>4 DEF BumpOrgEpoch, Halt, PolicyTypeOK
  <2>5. ASSUME NEW r \in Readers, ReaderStep(r)
        PROVE  <1>1!2
    <3>1. PICK h \in Agents : h = ReadsFor[r]
      BY PolicyAssumption
    <3>2. UNCHANGED blob /\ r \in Requests
          /\ \E b \in {seen[r][h], NoBlob, blob[h]} : seen' = [seen EXCEPT ![r][h] = b]
      BY <1>0, <2>5, <3>1
         DEF ReaderStep, ReadBlob, ReadCounterAndDecide, PolicyTypeOK, Requests
    <3> QED
      BY <1>0, <3>2 DEF PolicyTypeOK
  <2> QED
    BY <2>1, <2>2, <2>3, <2>4, <2>5 DEF RequestStep
<1>2. ASSUME NEW g \in Agents, NEW b \in Blob,
             \/ b = blob[g] \/ b = NoBlob
             \/ b = [epoch |-> epoch, rules |-> LayersInForce(g)]
             \/ \E p \in Requests : b = seen[p][g]
      PROVE  Sound(b, g)'
  <2>1. Sound(b, g)
    BY <1>0, <1>2, SnapshotSound, NoBlobSound DEF IInv
  <2> QED
    BY <1>0, <2>1, SoundStays
<1>3. ASSUME NEW g \in Agents PROVE Sound(blob[g], g)'
  <2>1. PICK b \in Blob : b = blob'[g]
    BY DEF PolicyTypeOK
  <2>2. Sound(b, g)'
    BY <1>1, <1>2, <2>1
  <2> QED
    BY <2>1, <2>2 DEF Sound, Covers
<1>4. ASSUME NEW p \in Requests, NEW g \in Agents PROVE Sound(seen[p][g], g)'
  <2>1. PICK b \in Blob : b = seen'[p][g]
    BY DEF PolicyTypeOK
  <2>2. Sound(b, g)'
    BY <1>1, <1>2, <2>1
  <2> QED
    BY <2>1, <2>2 DEF Sound, Covers
<1> QED
  BY <1>3, <1>4

\* Every step preserves the inductive invariant.
LEMMA IInvStep == IInv /\ [PolicyNext]_policyVars => IInv'
<1> SUFFICES ASSUME IInv, [PolicyNext]_policyVars PROVE IInv'
  OBVIOUS
<1>1. PolicyTypeOK'
  BY TypeStep DEF IInv
<1>2. CASE \/ \E e \in Edits : EditStep(e)
           \/ \E p \in Requests : RequestStep(p)
           \/ \E r \in Readers : ReaderStep(r)
  <2>1. VersionsGrow /\ \A f \in Edits : EditMatches(f)' /\ HasLatest(f)'
    BY <1>1, <1>2, EditPreserves, RequestPreserves DEF Requests
  <2> QED
    BY <1>1, <1>2, <2>1, CompiledAreSound DEF IInv
<1>3. CASE UNCHANGED policyVars
  BY <1>1, <1>3
  DEF IInv, EditMatches, HasLatest, Sound, Covers, PolicyScope, Touched, policyVars, pgVars,
      redisVars, requestVars
<1> QED
  BY <1>2, <1>3, NextSplit

\* It holds of a new organisation.
LEMMA InitIInv == PolicyInit => IInv
<1> SUFFICES ASSUME PolicyInit PROVE IInv
  OBVIOUS
<1>1. PolicyTypeOK
  BY InitTypes
<1>2. ASSUME NEW g \in Agents PROVE Sound(NoBlob, g)
  BY <1>1, NoBlobSound
<1>3. ASSUME NEW e \in Edits PROVE EditMatches(e) /\ HasLatest(e)
  BY PolicyAssumption DEF PolicyInit, EditMatches, HasLatest, PolicyScope, Requests
<1> QED
  BY <1>1, <1>2, <1>3 DEF PolicyInit, IInv

\* The inductive invariant, for every value of the constants.
THEOREM Invariance == PolicySpec => []IInv
BY InitIInv, IInvStep, PTL DEF PolicySpec

\* store.ts, getEffectiveLayers: a published blob has every edit up to its epoch, but the
\* first of a policy, in whatever order recompilations publish.
THEOREM BlobsAreExact == PolicySpec => []BlobMatchesEpoch
<1>1. IInv => BlobMatchesEpoch
  BY DEF IInv, Sound, BlobMatchesEpoch
<1> QED
  BY <1>1, Invariance, PTL

-----------------------------------------------------------------------------
(* What readers are served *)

\* Once a reader has compiled or accepted a policy, it is as new as every edit that was
\* acknowledged before the reader began.
ReaderMatches(r) ==
    /\ todo[r] \subseteq {ReadsFor[r]}
    /\ at[r] = "recompile" => todo[r] = {ReadsFor[r]}
    /\ floor[r] \subseteq Acknowledged(ReadsFor[r])
    /\ at[r] \in {"bump", "served"} \/ (at[r] = "recompile" /\ seen[r][ReadsFor[r]] # NoBlob)
       => \A e \in floor[r] : policyOf[e] # e => order[e] <= seen[r][ReadsFor[r]].epoch

\* The counter is as new as every acknowledged edit that was not the first of its policy.
CounterMatches == \A e \in Edits : at[e] = "acknowledged" /\ policyOf[e] # e => order[e] <= counter

ServeInv ==
    /\ IInv
    /\ CounterMatches
    /\ \A r \in Readers : ReaderMatches(r)

\* A policy that is served has every acknowledged edit that was not the first of its policy.
RepeatedEditsAreServed ==
    \A r \in Readers :
        at[r] = "served" =>
           \A e \in floor[r] : policyOf[e] # e => Covers(seen[r][ReadsFor[r]].rules, e)

\* An acknowledged edit stays so, and its version is not touched again.
LEMMA AcknowledgedStays ==
    ASSUME IInv, IInv', VersionsGrow, [PolicyNext]_policyVars,
           NEW e \in Edits, at[e] = "acknowledged"
    PROVE  at'[e] = "acknowledged" /\ order'[e] = order[e] /\ policyOf'[e] = policyOf[e]
<1> USE PolicyAssumption DEF Move, pgVars, redisVars, requestVars, Requests
<1>0. PolicyTypeOK /\ order[e] > 0
  BY DEF IInv, EditMatches
<1>1. ASSUME NEW f \in Edits, EditStep(f) PROVE at'[e] = "acknowledged"
  <2>1. at[f] # "acknowledged" /\ \E step : Move(f, step)
    BY <1>1 DEF EditStep, DialAgent, DialOrg, LookupAssignment, AttachTradingFlow,
                CreatePolicyVersion, CreateAllocationVersion, AssignPolicy
  <2> QED
    BY <1>0, <2>1 DEF PolicyTypeOK
<1>2. ASSUME NEW p \in Requests, RequestStep(p) \/ ReaderStep(p) PROVE at'[e] = "acknowledged"
  <2>1. at[p] # "acknowledged" /\ (UNCHANGED at \/ \E step : Move(p, step))
    BY <1>2 DEF RequestStep, ReaderStep, ReadEffectiveLayers, PublishEffectivePolicy,
                BumpOrgEpoch, Halt, ReadBlob, ReadCounterAndDecide
  <2> QED
    BY <1>0, <2>1 DEF PolicyTypeOK
<1>3. at'[e] = "acknowledged"
  BY <1>1, <1>2, NextSplit DEF policyVars
<1> QED
  BY <1>0, <1>3 DEF VersionsGrow

\* The versions of an organisation only grow.
LEMMA StepGrows == IInv /\ [PolicyNext]_policyVars => VersionsGrow
<1> SUFFICES ASSUME IInv, [PolicyNext]_policyVars PROVE VersionsGrow
  OBVIOUS
<1>1. PolicyTypeOK'
  BY TypeStep DEF IInv
<1>2. CASE UNCHANGED policyVars
  BY <1>1, <1>2 DEF VersionsGrow, policyVars, pgVars, PolicyTypeOK
<1> QED
  BY <1>1, <1>2, NextSplit, EditPreserves, RequestPreserves DEF Requests

\* The counter advances to the version of an edit before the edit is acknowledged.
LEMMA CounterStep == ServeInv /\ [PolicyNext]_policyVars => CounterMatches'
<1> SUFFICES ASSUME ServeInv, [PolicyNext]_policyVars PROVE CounterMatches'
  OBVIOUS
<1> USE PolicyAssumption DEF Move, pgVars, redisVars, requestVars, Requests
<1>0. IInv /\ IInv' /\ PolicyTypeOK /\ PolicyTypeOK' /\ VersionsGrow
  BY IInvStep, StepGrows DEF ServeInv, IInv
<1>1. ASSUME NEW e \in Edits, counter <= counter', at[e] = "acknowledged", policyOf'[e] # e
      PROVE  order'[e] <= counter'
  <2>1. order'[e] = order[e] /\ policyOf'[e] = policyOf[e]
    BY <1>0, <1>1, AcknowledgedStays
  <2>2. order[e] <= counter
    BY <1>1, <2>1 DEF ServeInv, CounterMatches
  <2>3. order[e] \in Int /\ counter \in Int /\ counter' \in Int
    BY <1>0 DEF PolicyTypeOK, Unset
  <2> QED
    BY <1>1, <2>1, <2>2, <2>3
<1>2. counter \in Int /\ counter' \in Int
  BY <1>0 DEF PolicyTypeOK, Unset
<1>3. ASSUME NEW p \in Requests, BumpOrgEpoch(p) PROVE CounterMatches'
  <2>1. /\ counter <= counter' /\ (p \in Edits => order[p] <= counter')
        /\ UNCHANGED <<order, policyOf>>
        /\ \E step : Move(p, step)
    <3>1. PICK n \in Int : n = IF p \in Edits THEN order[p] ELSE seen[p][ReadsFor[p]].epoch
      <4>1. CASE p \in Edits
        BY <1>0, <4>1 DEF PolicyTypeOK
      <4>2. CASE p \in Readers /\ p \notin Edits
        <5>1. seen[p][ReadsFor[p]] \in Blob
          BY <1>0, <4>2 DEF PolicyTypeOK
        <5> QED
          BY <4>2, <5>1 DEF Blob, Unset
      <4> QED
        BY <4>1, <4>2
    <3>2. counter' = Advanced(n) /\ (p \in Edits => order[p] = n)
      BY <1>3, <3>1 DEF BumpOrgEpoch
    <3>3. counter <= counter' /\ n <= counter'
      BY <1>2, <3>1, <3>2 DEF Advanced
    <3> QED
      BY <1>3, <3>2, <3>3 DEF BumpOrgEpoch
  <2>2. ASSUME NEW e \in Edits, at'[e] = "acknowledged", policyOf'[e] # e
        PROVE  order'[e] <= counter'
    BY <1>0, <1>1, <2>1, <2>2 DEF PolicyTypeOK
  <2> QED
    BY <2>2 DEF CounterMatches
<1>4. ASSUME UNCHANGED counter,
             \A e \in Edits : at'[e] = "acknowledged" /\ policyOf'[e] # e => at[e] = "acknowledged"
      PROVE  CounterMatches'
  BY <1>1, <1>2, <1>4 DEF CounterMatches
<1>5. ASSUME NEW f \in Edits, EditStep(f) PROVE CounterMatches'
  <2>1. UNCHANGED counter
    BY <1>5 DEF EditStep, DialAgent, DialOrg, LookupAssignment, AttachTradingFlow,
                CreatePolicyVersion, CreateAllocationVersion, AssignPolicy
  <2>2. \E step : Move(f, step) /\ (step = "acknowledged" => f \in Attaches)
    BY <1>5 DEF EditStep, DialAgent, DialOrg, LookupAssignment, AttachTradingFlow,
                CreatePolicyVersion, CreateAllocationVersion, AssignPolicy
  <2>3. f \in Attaches => policyOf'[f] = f
    BY <1>0 DEF IInv, EditMatches
  <2> QED
    BY <1>0, <1>4, <2>1, <2>2, <2>3 DEF PolicyTypeOK
<1>6. ASSUME NEW p \in Requests, RequestStep(p) \/ ReaderStep(p), ~BumpOrgEpoch(p)
      PROVE  CounterMatches'
  <2>1. UNCHANGED counter
    BY <1>6 DEF RequestStep, ReaderStep, ReadEffectiveLayers, PublishEffectivePolicy, Halt,
                ReadBlob, ReadCounterAndDecide
  <2>2. UNCHANGED at \/ \E step : Move(p, step) /\ step # "acknowledged"
    BY <1>6 DEF RequestStep, ReaderStep, ReadEffectiveLayers, PublishEffectivePolicy, Halt,
                ReadBlob, ReadCounterAndDecide
  <2> QED
    BY <1>0, <1>4, <2>1, <2>2 DEF PolicyTypeOK
<1>7. CASE UNCHANGED policyVars
  BY <1>4, <1>7 DEF policyVars
<1> QED
  BY <1>3, <1>5, <1>6, <1>7, NextSplit

\* A reader keeps what it has compared with the counter or compiled itself.
LEMMA ReaderMatchesStep ==
    ASSUME ServeInv, [PolicyNext]_policyVars, NEW r \in Readers
    PROVE  ReaderMatches(r)'
<1> USE PolicyAssumption DEF Move, pgVars, redisVars, requestVars, Requests
<1>0. /\ IInv /\ IInv' /\ PolicyTypeOK /\ PolicyTypeOK' /\ VersionsGrow
      /\ ReaderMatches(r)
  BY IInvStep, StepGrows DEF ServeInv, IInv
<1> PICK g \in Agents : g = ReadsFor[r]
  OBVIOUS
<1>1. \A e \in Acknowledged(g) : /\ e \in Acknowledged(g)'
                                 /\ order'[e] = order[e] /\ policyOf'[e] = policyOf[e]
  BY <1>0, AcknowledgedStays DEF Acknowledged, Touched
<1>2. \A e \in floor[r] : /\ e \in Acknowledged(g)'
                          /\ order'[e] = order[e] /\ policyOf'[e] = policyOf[e]
  BY <1>0, <1>1 DEF ReaderMatches
<1>3. CASE /\ at'[r] = at[r] /\ todo'[r] = todo[r] /\ floor'[r] = floor[r]
           /\ seen'[r] = seen[r]
  BY <1>0, <1>2, <1>3 DEF ReaderMatches
<1>4. CASE ReadBlob(r)
  <2>1. /\ floor'[r] = Acknowledged(g) /\ at'[r] = "decide" /\ todo'[r] = todo[r]
    BY <1>0, <1>4 DEF ReadBlob, PolicyTypeOK
  <2> QED
    BY <1>0, <1>1, <2>1 DEF ReaderMatches
<1>5. CASE ReadCounterAndDecide(r)
  <2>1. CASE IsCacheFresh(seen[r][g], counter)
    <3>1. /\ at'[r] = "served" /\ UNCHANGED <<todo, seen, floor, order, policyOf>>
          /\ counter <= seen[r][g].epoch
      BY <1>0, <1>5, <2>1 DEF ReadCounterAndDecide, IsCacheFresh, PolicyTypeOK
    <3>2. counter \in Int /\ seen[r][g].epoch \in Int
      BY <1>0 DEF PolicyTypeOK, Unset, Blob
    <3>3. ASSUME NEW e \in floor[r], policyOf[e] # e PROVE order[e] <= seen[r][g].epoch
      <4>1. e \in Edits /\ at[e] = "acknowledged"
        BY <1>0, <3>3 DEF ReaderMatches, Acknowledged
      <4>2. order[e] <= counter /\ order[e] \in Int
        BY <1>0, <3>3, <4>1 DEF ServeInv, CounterMatches, PolicyTypeOK
      <4> QED
        BY <3>1, <3>2, <4>2
    <3> QED
      BY <1>0, <1>2, <3>1, <3>3 DEF ReaderMatches
  <2>2. CASE ~IsCacheFresh(seen[r][g], counter)
    <3>1. /\ at'[r] = "recompile" /\ todo'[r] = {g} /\ UNCHANGED floor
          /\ seen'[r][g] = NoBlob
      BY <1>0, <1>5, <2>2 DEF ReadCounterAndDecide, PolicyTypeOK
    <3> QED
      BY <1>2, <3>1 DEF ReaderMatches
  <2> QED
    BY <2>1, <2>2
<1>6. ASSUME NEW h \in Agents, ReadEffectiveLayers(r, h) PROVE ReaderMatches(r)'
  <2>1. /\ h = g /\ seen'[r][g].epoch = epoch /\ UNCHANGED <<at, todo, floor, order, policyOf>>
    BY <1>0, <1>6 DEF ReadEffectiveLayers, ReaderMatches, PolicyTypeOK
  <2>2. \A e \in floor[r] : order[e] <= epoch
    BY <1>0 DEF IInv, EditMatches, PolicyTypeOK
  <2> QED
    BY <1>0, <1>2, <2>1, <2>2 DEF ReaderMatches
<1>7. ASSUME NEW h \in Agents, PublishEffectivePolicy(r, h) PROVE ReaderMatches(r)'
  <2>1. /\ h = g /\ seen[r][g] # NoBlob /\ at[r] = "recompile"
        /\ at'[r] = "bump" /\ todo'[r] = {} /\ UNCHANGED <<seen, floor>>
    BY <1>0, <1>7 DEF PublishEffectivePolicy, ReaderMatches, PolicyTypeOK
  <2> QED
    BY <1>0, <1>2, <2>1 DEF ReaderMatches
<1>8. CASE BumpOrgEpoch(r)
  <2>1. at[r] = "bump" /\ at'[r] = "served" /\ UNCHANGED <<todo, seen, floor>>
    BY <1>0, <1>8 DEF BumpOrgEpoch, PolicyTypeOK
  <2> QED
    BY <1>0, <1>2, <2>1 DEF ReaderMatches
<1>9. CASE Halt(r)
  <2>1. at'[r] = "idle" /\ todo'[r] = {} /\ floor'[r] = {}
    BY <1>0, <1>9 DEF Halt, PolicyTypeOK
  <2> QED
    BY <2>1 DEF ReaderMatches
<1>10. ASSUME NEW q \in Requests \ {r}, RequestStep(q) \/ (q \in Readers /\ ReaderStep(q))
       PROVE  ReaderMatches(r)'
  <2>1. /\ at'[r] = at[r] /\ todo'[r] = todo[r] /\ floor'[r] = floor[r]
        /\ seen'[r] = seen[r]
    BY <1>0, <1>10
    DEF RequestStep, ReaderStep, ReadEffectiveLayers, PublishEffectivePolicy, BumpOrgEpoch,
        Halt, ReadBlob, ReadCounterAndDecide, PolicyTypeOK
  <2> QED
    BY <1>3, <2>1
<1>11. ASSUME NEW e \in Edits, EditStep(e) PROVE ReaderMatches(r)'
  <2>1. /\ at'[r] = at[r] /\ todo'[r] = todo[r] /\ floor'[r] = floor[r]
        /\ seen'[r] = seen[r]
    BY <1>0, <1>11
    DEF EditStep, DialAgent, DialOrg, LookupAssignment, AttachTradingFlow,
        CreatePolicyVersion, CreateAllocationVersion, AssignPolicy, PolicyTypeOK
  <2> QED
    BY <1>3, <2>1
<1>12. CASE UNCHANGED policyVars
  BY <1>3, <1>12 DEF policyVars
<1> QED
  BY <1>4, <1>5, <1>6, <1>7, <1>8, <1>9, <1>10, <1>11, <1>12, NextSplit
  DEF RequestStep, ReaderStep

\* The invariant of the readers holds of a new organisation.
LEMMA InitServeInv == PolicyInit => ServeInv
<1> SUFFICES ASSUME PolicyInit PROVE ServeInv
  OBVIOUS
<1>1. IInv
  BY InitIInv
<1> QED
  BY <1>1 DEF PolicyInit, ServeInv, CounterMatches, ReaderMatches, Requests

\* Every step preserves it.
LEMMA ServeInvStep == ServeInv /\ [PolicyNext]_policyVars => ServeInv'
BY IInvStep, CounterStep, ReaderMatchesStep DEF ServeInv

\* What was compiled or accepted covers what was acknowledged before.
LEMMA ServeInvServes == ServeInv => RepeatedEditsAreServed
<1> SUFFICES ASSUME ServeInv, NEW r \in Readers, at[r] = "served",
                    NEW e \in floor[r], policyOf[e] # e
             PROVE  Covers(seen[r][ReadsFor[r]].rules, e)
  BY DEF RepeatedEditsAreServed
<1> PICK g \in Agents : g = ReadsFor[r]
  BY PolicyAssumption
<1>1. /\ PolicyTypeOK /\ Sound(seen[r][g], g) /\ ReaderMatches(r)
  BY DEF ServeInv, IInv, Requests
<1>2. e \in Edits /\ at[e] = "acknowledged" /\ g \in Touched(ScopeOf[e])
  BY <1>1 DEF ReaderMatches, Acknowledged
<1>3. order[e] > 0 /\ order[e] \in Nat /\ order[e] <= seen[r][g].epoch
  BY <1>1, <1>2 DEF ServeInv, IInv, EditMatches, ReaderMatches, PolicyTypeOK
<1>4. seen[r][g].epoch \in Int
  BY <1>1 DEF PolicyTypeOK, Blob, Unset, Requests
<1> QED
  BY <1>1, <1>2, <1>3, <1>4 DEF Sound

\* policy-epoch-guard.ts, "never a stale serve", with the exception that the first dial of a
\* scope shows to be needed: the first version of a policy is acknowledged in the wrong order.
THEOREM RepeatedEditsReachReaders == PolicySpec => []RepeatedEditsAreServed
BY InitServeInv, ServeInvStep, ServeInvServes, PTL DEF PolicySpec

\* Every edit dials a scope that is assigned a policy: an agent after its first dial.
DialsAreRepeated == Attaches = {} /\ \A e \in Edits : ScopeOf[e] \in Seeded

\* Then no edit writes a policy of its own.
DialInv ==
    /\ ServeInv
    /\ assigned = Seeded
    /\ \A e \in Edits : at[e] \notin {"idle", "halted"} => policyOf[e] # e

\* Where every scope that is dialled has a policy, a policy that is served has every
\* acknowledged edit, whatever late publish or bump happens since.
THEOREM ServesAreCurrent == DialsAreRepeated => (PolicySpec => []ServedIsCurrent)
<1> SUFFICES ASSUME DialsAreRepeated PROVE PolicySpec => []ServedIsCurrent
  OBVIOUS
<1> USE PolicyAssumption DEF DialsAreRepeated
<1>1. PolicyInit =>
         assigned = Seeded /\ \A e \in Edits : at[e] \notin {"idle", "halted"} => policyOf[e] # e
  BY DEF PolicyInit, Requests
<1>2. DialInv /\ [PolicyNext]_policyVars => DialInv'
  <2> SUFFICES ASSUME DialInv, [PolicyNext]_policyVars PROVE DialInv'
    OBVIOUS
  <2> USE DEF Move, pgVars, redisVars, requestVars, Requests
  <2>0. ServeInv /\ ServeInv' /\ PolicyTypeOK
    BY ServeInvStep DEF DialInv, ServeInv, IInv
  <2>1. ASSUME NEW e \in Edits, LookupAssignment(e) PROVE DialInv'
    <3>1. ScopeOf[e] \in assigned /\ PolicyScope(ScopeOf[e]) = ScopeOf[e]
      BY DEF DialInv, PolicyScope, Scopes
    <3>2. PICK p \in assigned : policyOf' = [policyOf EXCEPT ![e] = p]
      BY <2>1, <3>1 DEF LookupAssignment
    <3>3. p # e
      BY <3>2 DEF DialInv, Scopes
    <3>4. /\ \A f \in Edits : policyOf'[f] = IF f = e THEN p ELSE policyOf[f]
          /\ \A f \in Edits \ {e} : at'[f] = at[f]
          /\ UNCHANGED assigned
      BY <2>0, <2>1, <3>2 DEF LookupAssignment, PolicyTypeOK
    <3> QED
      BY <2>0, <3>3, <3>4 DEF DialInv
  <2>2. ASSUME NEW e \in Edits, EditStep(e), ~LookupAssignment(e) PROVE DialInv'
    <3>1. policyOf[e] = e => at[e] \notin {"create", "allocation", "assign"}
      BY DEF DialInv
    <3>2. at[e] \in {"allocation", "assign"} => policyOf[e] = e
      BY DEF DialInv, ServeInv, IInv, EditMatches
    <3>3. CreatePolicyVersion(e)
      BY <2>2, <3>1, <3>2 DEF EditStep, DialAgent, DialOrg, AttachTradingFlow,
         CreateAllocationVersion, AssignPolicy
    <3>4. UNCHANGED <<assigned, policyOf>> /\ \A f \in Edits \ {e} : at'[f] = at[f]
      BY <2>0, <3>3 DEF CreatePolicyVersion, PolicyTypeOK
    <3>5. policyOf[e] # e
      BY <3>1, <3>3 DEF CreatePolicyVersion
    <3> QED
      BY <2>0, <3>4, <3>5 DEF DialInv
  <2>3. ASSUME NEW p \in Requests, RequestStep(p) \/ (p \in Readers /\ ReaderStep(p))
        PROVE  DialInv'
    <3>1. /\ UNCHANGED <<assigned, policyOf>>
          /\ \/ UNCHANGED at
             \/ \E step : Move(p, step) /\ (p \in Edits => at[p] \notin {"idle", "halted"})
      BY <2>3 DEF RequestStep, ReaderStep, ReadEffectiveLayers, PublishEffectivePolicy,
                  BumpOrgEpoch, Halt, ReadBlob, ReadCounterAndDecide
    <3> QED
      BY <2>0, <3>1 DEF DialInv, PolicyTypeOK
  <2>4. CASE UNCHANGED policyVars
    BY <2>0, <2>4 DEF DialInv, policyVars
  <2> QED
    BY <2>1, <2>2, <2>3, <2>4, NextSplit DEF Requests
<1>3. DialInv => ServedIsCurrent
  <2> SUFFICES ASSUME DialInv, NEW r \in Readers, at[r] = "served", NEW e \in floor[r]
               PROVE  Covers(seen[r][ReadsFor[r]].rules, e)
    BY DEF ServedIsCurrent
  <2>1. e \in Edits /\ at[e] = "acknowledged"
    BY DEF DialInv, ServeInv, ReaderMatches, Acknowledged
  <2>2. policyOf[e] # e
    BY <2>1 DEF DialInv
  <2> QED
    BY <2>2, ServeInvServes DEF DialInv, RepeatedEditsAreServed
<1>4. PolicyInit => DialInv
  BY <1>1, InitServeInv DEF DialInv
<1> QED
  BY <1>2, <1>3, <1>4, PTL DEF PolicySpec
=============================================================================
