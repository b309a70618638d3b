--------------------------- MODULE SettlementProofs ---------------------------
(***************************************************************************)
(* Proofs about the settlement of one decision, for every deployment of    *)
(* the slots and any number of requests, hashes, attempts and takeovers.   *)
(***************************************************************************)
EXTENDS Settlement, FiniteSetTheorems, TLAPS

-----------------------------------------------------------------------------
(* The inductive invariant *)

Places ==
    {"rest", "observe", "observeMcp", "attempt", "renumber", "markSettled", "settle", "refresh",
     "reread", "markExpiry", "fail", "markFailed", "release", "claim", "submit", "confirm",
     "failAnchor"}
Observing == {"observe", "observeMcp"}
Anchoring == {"claim", "submit", "confirm", "failAnchor"}
Submitting == {"submit", "confirm", "failAnchor"}
Outcomes == {"settled", "pending", "failed"}
JobRecord ==
    [at : Places, slot : CasperNets, hash : Hashes, obs : Outcomes \cup {"none"},
     tx : TxHashes \cup {NoTxHash}, n : Nat, tries : Nat, then : {"rest", "claim", "refresh"}]
Decision ==
    [status : {"none", "RESERVED", "SIGNED", "EXPIRY_CHECK"} \cup Final, signed : BOOLEAN,
     tx : TxHashes \cup {NoTxHash}]

\* The hold is reserved until the row is closed, and is then settled or released as the row says.
DecisionMatches ==
    /\ decision \in Decision
    /\ decision.status \in {"none", "RESERVED"} => ~decision.signed
    /\ decision.status \in {"SIGNED", "EXPIRY_CHECK", "SETTLED"} => decision.signed
    /\ decision.status = "none" => held = "none"
    /\ decision.status \in {"RESERVED", "SIGNED", "EXPIRY_CHECK"} => held = "RESERVED"
    /\ decision.status = "SETTLED" => held \in {"RESERVED", "SETTLED"}
    /\ decision.status = "FAILED_TERMINAL" => held \in {"RESERVED", "RELEASED"}

ObservedSettled == \E a \in attempts : a.status = "settled"

\* Attempts are numbered from 1 on, without a gap.
AttemptsMatch ==
    /\ IsFiniteSet(attempts)
    /\ attempts \subseteq [n : Nat, status : Outcomes]
    /\ Numbers = 1 .. Cardinality(attempts)
    /\ decision.status = "SETTLED" => ObservedSettled

\* The only hash that is anchored.
IsTheHash(h) == decision.status = "SETTLED" /\ h = DecisionHash(decision)

AnchorsMatch ==
    /\ \A h \in DOMAIN anchors : IsTheHash(h) /\ h \in Hashes
    /\ \A h \in DOMAIN anchors :
          anchors[h] \in [status : {"submitted", "confirmed", "failed"}, recent : BOOLEAN]
    /\ registry \in [CasperNets -> Hashes]
    /\ \A n \in CasperNets : registry[n] # NoHash => IsTheHash(registry[n])
    /\ ~reverted

\* What a request has read, and what its step relies on.
JobMatches(w) ==
    LET x == job[w]
    IN  /\ x \in JobRecord
        /\ x.at \in Observing \cup {"attempt"} => x.n \in 1 .. Cardinality(attempts) + 1
        /\ x.at \in Observing \cup {"attempt", "renumber", "markSettled"} => decision.signed
        /\ x.at \in {"attempt", "renumber"} => x.obs \in Outcomes
        /\ x.at = "markSettled" => x.obs = "settled" /\ ObservedSettled
        /\ x.at \in {"fail", "markFailed", "release"} => x.obs \in {"none", "failed"}
        /\ x.at \in {"fail", "markFailed"} => decision.status # "none"
        /\ x.at = "release" => decision.status = "FAILED_TERMINAL"
        /\ x.at = "settle" => decision.status = "SETTLED"
                              /\ (x.then = "claim" => IsTheHash(x.hash))
        /\ x.at \in Anchoring => IsTheHash(x.hash)
        /\ x.at \in Submitting => x.hash \in DOMAIN anchors

JobsMatch == DOMAIN job = Jobs /\ \A w \in Jobs : JobMatches(w)

Core == DecisionMatches /\ AttemptsMatch /\ AnchorsMatch /\ JobsMatch

\* A submitted row stands for one request; every other one was overtaken.
Outstanding == IF \E h \in DOMAIN anchors : anchors[h].status = "submitted" THEN 1 ELSE 0
ClaimsMatch == takeovers \in Nat /\ Cardinality(Submitters) <= takeovers + Outstanding

\* Unless two requests observed together or one in vain: what was executed is known to the one
\* request that observes, or is recorded and the row closed.
Total == moved["test"] + moved["main"]
MovesMatch ==
    /\ moved \in [CasperNets -> 0 .. 2] /\ net \in CasperNets
    /\ \/ crossed
       \/ /\ \A v, w \in Observers : v = w
          /\ Total \in {0, 1}
          /\ Total = 1 => \/ decision.status \in Final
                          \/ \E w \in Observers :
                                job[w].at \notin Observing /\ job[w].obs \in {"settled", "failed"}
          /\ \A w \in Observers : job[w].at \in Observing => Total = 0

IInv ==
    /\ Core
    /\ ClaimsMatch
    /\ MovesMatch

-----------------------------------------------------------------------------
(* What a step of one request leaves alone                                 *)

Exactly(at, slot, hash, obs, tx, n, tries, then) ==
    [at : {at}, slot : {slot}, hash : {hash}, obs : {obs}, tx : {tx}, n : {n}, tries : {tries},
     then : {then}]

\* A request that goes to its next step keeps the rest of what it knows.
LEMMA ToNext ==
    ASSUME NEW w, job[w] \in JobRecord, NEW at
    PROVE  To(w, at) \in Exactly(at, job[w].slot, job[w].hash, job[w].obs, job[w].tx, job[w].n,
                                 job[w].tries, job[w].then)
  BY DEF To, JobRecord, Exactly

\* A job at rest holds a record of its kind.
LEMMA RestingRecord ==
    /\ NoHash \in Hashes /\ "test" \in CasperNets
    /\ Resting \in JobRecord
    /\ Resting \in Exactly("rest", "test", NoHash, "none", NoTxHash, 0, 0, "rest")
<1>1. NoHash \in Hashes /\ "test" \in CasperNets
  BY DEF Hashes, NoHash, CasperNets
<1> QED
  BY <1>1 DEF Resting, Exactly, JobRecord, Places

\* A job goes on alone.
LEMMA Becoming ==
    ASSUME DOMAIN job = Jobs, NEW w \in Jobs, NEW next, Becomes(w, next)
    PROVE  /\ DOMAIN job' = Jobs /\ job'[w] = next
           /\ \A v \in Jobs \ {w} : job'[v] = job[v]
  BY DEF Becomes

\* The row is signed once, closed once and then stays; attempts and anchors are kept.
Grows ==
    /\ decision.signed => decision'.signed
    /\ decision.status # "none" => decision'.status # "none"
    /\ decision.status = "SETTLED" => decision' = decision
    /\ decision.status = "FAILED_TERMINAL" => decision'.status = "FAILED_TERMINAL"
    /\ attempts \subseteq attempts'
    /\ DOMAIN anchors \subseteq DOMAIN anchors'

\* What a job knows goes on to hold while others append and settle.
LEMMA JobKept ==
    ASSUME Core, Grows, AttemptsMatch', NEW w \in Jobs, UNCHANGED job[w]
    PROVE  JobMatches(w)'
<1>1. JobMatches(w)
  BY DEF Core, JobsMatch
<1>2. /\ Cardinality(attempts) \in Nat /\ Cardinality(attempts') \in Nat
      /\ Cardinality(attempts) <= Cardinality(attempts')
  BY FS_Subset, FS_CardinalityType DEF Core, AttemptsMatch, Grows
<1>3. ObservedSettled => ObservedSettled'
  BY DEF Grows, ObservedSettled
<1>4. \A h : IsTheHash(h) => IsTheHash(h)'
  BY DEF Grows, IsTheHash, DecisionHash
<1>5. PICK h : h = job[w].hash /\ h = job'[w].hash
  OBVIOUS
<1>6. (IsTheHash(h) => IsTheHash(h)') /\ (h \in DOMAIN anchors => h \in DOMAIN anchors')
  BY <1>4 DEF Grows
<1>7. job[w].n \in 1 .. Cardinality(attempts) + 1 => job[w].n \in 1 .. Cardinality(attempts') + 1
  BY <1>2
<1> QED
  BY <1>1, <1>3, <1>5, <1>6, <1>7 DEF JobMatches, Grows, IsTheHash, DecisionHash

\* Anchors are untouched by steps that write none.
LEMMA AnchorsKept ==
    ASSUME Core, Grows, UNCHANGED <<anchors, registry, reverted>>
    PROVE  AnchorsMatch'
  BY DEF Core, Grows, AnchorsMatch, IsTheHash, DecisionHash

\* Attempts left alone still match a decision that is settled only once that was observed.
LEMMA AttemptsKept ==
    ASSUME Core, UNCHANGED attempts, decision'.status = "SETTLED" => ObservedSettled
    PROVE  AttemptsMatch'
  BY DEF Core, AttemptsMatch, Numbers, ObservedSettled

\* A step of one request, when what it writes and where it goes match.
LEMMA CorePreserved ==
    ASSUME Core, Grows, NEW w \in Jobs, NEW next, Becomes(w, next),
           DecisionMatches', AttemptsMatch', AnchorsMatch', JobMatches(w)'
    PROVE  Core'
<1>1. /\ DOMAIN job' = Jobs /\ \A v \in Jobs \ {w} : job'[v] = job[v]
  BY Becoming DEF Core, JobsMatch
<1>2. \A v \in Jobs : JobMatches(v)'
  BY <1>1, JobKept
<1> QED
  BY <1>1, <1>2 DEF Core, JobsMatch

\* A step of one request that writes nothing but what the request knows.
LEMMA ReadingStep ==
    ASSUME Core, UNCHANGED <<decision, held, attempts, anchors, registry, reverted>>,
           NEW w \in Jobs, NEW next, Becomes(w, next), JobMatches(w)'
    PROVE  Core'
<1>1. Grows
  BY DEF Grows
<1>2. DecisionMatches'
  BY DEF Core, DecisionMatches
<1>3. AttemptsMatch'
  BY AttemptsKept DEF Core, AttemptsMatch
<1> QED
  BY <1>1, <1>2, <1>3, AnchorsKept, CorePreserved

\* A request that has nothing to rely on.
LEMMA RestMatches ==
    ASSUME NEW w \in Jobs, job'[w] = Resting
    PROVE  JobMatches(w)'
  BY RestingRecord DEF JobMatches, Exactly, Observing, Anchoring, Submitting

-----------------------------------------------------------------------------
(* What the requests read and write: every step keeps the core             *)

\* The next attempt is numbered after the ones there are.
LEMMA NextNumber ==
    ASSUME AttemptsMatch
    PROVE  /\ Cardinality(attempts) \in Nat
           /\ NextAttemptNumber = Cardinality(attempts) + 1
<1>1. PICK m \in Nat : m = Cardinality(attempts)
  BY FS_CardinalityType DEF AttemptsMatch
<1>2. Numbers \cup {0} = 0 .. m
  BY <1>1 DEF AttemptsMatch
<1>3. Max(0 .. m) = m
  <2>1. \A x \in 0 .. m : (\A y \in 0 .. m : x >= y) <=> x = m
    OBVIOUS
  <2> QED
    BY <2>1 DEF Max
<1> QED
  BY <1>1, <1>2, <1>3 DEF NextAttemptNumber

\* The hash of the row is one that can be anchored.
LEMMA HashOfRow ==
    ASSUME DecisionMatches
    PROVE  DecisionHash(decision) \in Hashes
  BY DEF DecisionMatches, Decision, DecisionHash, Hashes

\* A settled decision sends its job to the anchor, or to rest.
LEMMA TurningMatches ==
    ASSUME Core, decision.status = "SETTLED", NEW w \in Jobs, NEW slot \in CasperNets,
           NEW repairs \in BOOLEAN, TurnsToAnchor(w, slot, repairs),
           UNCHANGED <<decision, attempts, anchors>>
    PROVE  /\ JobMatches(w)'
           /\ \E next : Becomes(w, next) /\ next.at \in {"rest", "settle", "claim"}
<1>0. DOMAIN job = Jobs
  BY DEF Core, JobsMatch
<1>1. CASE Becomes(w, Resting)
  BY <1>0, <1>1, Becoming, RestMatches, RestingRecord DEF Exactly
<1>2. ASSUME ~Becomes(w, Resting)
      PROVE  \E at \in {"settle", "claim"}, then \in {"rest", "claim"} :
                Becomes(w, [Resting EXCEPT !.at = at, !.slot = slot,
                                           !.hash = DecisionHash(decision), !.then = then])
  <2>1. AnchorFrom(slot) \in {"rest", "claim"}
    BY DEF AnchorFrom
  <2> QED
    BY <1>2, <2>1 DEF TurnsToAnchor
<1>3. ASSUME NEW at \in {"settle", "claim"}, NEW then \in {"rest", "claim"},
             Becomes(w, [Resting EXCEPT !.at = at, !.slot = slot,
                                        !.hash = DecisionHash(decision), !.then = then])
      PROVE  /\ JobMatches(w)'
             /\ \E next : Becomes(w, next) /\ next.at \in {"rest", "settle", "claim"}
  <2> DEFINE next == [Resting EXCEPT !.at = at, !.slot = slot, !.hash = DecisionHash(decision),
                                     !.then = then]
  <2>1. next \in Exactly(at, slot, DecisionHash(decision), "none", NoTxHash, 0, 0, then)
    BY RestingRecord DEF Exactly
  <2>2. job'[w] = next
    BY <1>0, <1>3, Becoming
  <2>3. IsTheHash(DecisionHash(decision))'
    BY DEF IsTheHash
  <2> HIDE DEF next
  <2>4. next \in JobRecord
    BY <2>1, HashOfRow DEF Core, Exactly, JobRecord, Places
  <2>5. JobMatches(w)'
    BY <2>1, <2>2, <2>3, <2>4 DEF JobMatches, Exactly, Observing, Anchoring, Submitting, IsTheHash
  <2> QED
    BY <1>3, <2>1, <2>5 DEF next, Exactly
<1> QED
  BY <1>1, <1>2, <1>3

\* A job begins: by HTTP with a network of the caller's, by MCP, or by a revocation.
LEMMA OpenCore ==
    ASSUME Core, NEW w \in Jobs,
           \/ \E header \in CasperNets : OpenReconcileHttp(w, header)
           \/ OpenReconcileMcp(w) \/ OpenRevoke(w)
    PROVE  Core'
<1>0. DOMAIN job = Jobs
  BY DEF Core, JobsMatch
<1>1. ASSUME NEW slot \in CasperNets, NEW at \in Observing, Reconciles(w, slot, at)
      PROVE  Core'
  <2>0. UNCHANGED <<decision, held, attempts, anchors, registry, reverted>>
    BY <1>1 DEF Reconciles, chain
  <2>1. CASE decision.status = "SETTLED"
    <3>1. TurnsToAnchor(w, slot, TRUE)
      BY <1>1, <2>1 DEF Reconciles
    <3> QED
      BY <2>0, <2>1, <3>1, TurningMatches, ReadingStep
  <2>2. CASE decision.status # "SETTLED"
    <3> DEFINE next == [Resting EXCEPT !.at = at, !.slot = slot, !.n = NextAttemptNumber]
    <3>1. Becomes(w, next) /\ decision.signed
      BY <1>1, <2>2 DEF Reconciles
    <3>2. next \in Exactly(at, slot, NoHash, "none", NoTxHash, NextAttemptNumber, 0, "rest")
      BY RestingRecord DEF Exactly
    <3>3. NextAttemptNumber = Cardinality(attempts) + 1 /\ Cardinality(attempts) \in Nat
      BY NextNumber DEF Core
    <3> HIDE DEF next
    <3>4. next \in JobRecord
      BY <3>2, <3>3, RestingRecord DEF Exactly, JobRecord, Places, Observing
    <3>5. job'[w] = next
      BY <1>0, <3>1, Becoming
    <3>6. next.n \in 1 .. Cardinality(attempts) + 1 /\ next.at \in Observing
      BY <3>2, <3>3 DEF Exactly
    <3>7. JobMatches(w)'
      BY <2>0, <3>1, <3>4, <3>5, <3>6 DEF JobMatches, Observing, Anchoring, Submitting
    <3> QED
      BY <2>0, <3>1, <3>7, ReadingStep
  <2> QED
    BY <2>1, <2>2
<1>2. CASE OpenRevoke(w)
  <2> DEFINE next == [Resting EXCEPT !.at = "fail"]
  <2>0. UNCHANGED <<decision, held, attempts, anchors, registry, reverted>> /\ Becomes(w, next)
    BY <1>2 DEF OpenRevoke, chain
  <2>1. next \in Exactly("fail", "test", NoHash, "none", NoTxHash, 0, 0, "rest")
    BY RestingRecord DEF Exactly
  <2> HIDE DEF next
  <2>2. next \in JobRecord
    BY <2>1, RestingRecord DEF Exactly, JobRecord, Places
  <2>3. job'[w] = next
    BY <1>0, <2>0, Becoming
  <2>4. JobMatches(w)'
    BY <1>2, <2>0, <2>1, <2>2, <2>3
    DEF OpenRevoke, JobMatches, Exactly, Observing, Anchoring, Submitting
  <2> QED
    BY <2>0, <2>4, ReadingStep
<1>3. "test" \in CasperNets /\ "observe" \in Observing /\ "observeMcp" \in Observing
  BY DEF CasperNets, Observing
<1> QED
  BY <1>1, <1>2, <1>3 DEF OpenReconcileHttp, OpenReconcileMcp, SelectNetworkSlot

\* The steps after which the request only has its next step to do, or is done.
LEMMA MovingMatches ==
    ASSUME Core, NEW w \in Jobs, NEW at \in {"refresh", "reread", "release", "markFailed"},
           Becomes(w, To(w, at)),
           at = "release" => decision'.status = "FAILED_TERMINAL",
           at = "markFailed" => decision'.status # "none",
           at \in {"release", "markFailed"} => job[w].obs \in {"none", "failed"}
    PROVE  JobMatches(w)'
<1>1. DOMAIN job = Jobs /\ job[w] \in JobRecord
  BY DEF Core, JobsMatch, JobMatches
<1>2. job'[w] = To(w, at)
  BY <1>1, Becoming
<1>3. To(w, at) \in Exactly(at, job[w].slot, job[w].hash, job[w].obs, job[w].tx, job[w].n,
                            job[w].tries, job[w].then)
  BY <1>1, ToNext
<1>4. To(w, at) \in JobRecord
  BY <1>1, <1>3 DEF Exactly, JobRecord, Places
<1> QED
  BY <1>1, <1>2, <1>3, <1>4 DEF JobMatches, Exactly, Observing, Anchoring, Submitting

\* A job at rest claims nothing.
LEMMA DoneMatches ==
    ASSUME Core, NEW w \in Jobs, Becomes(w, Resting)
    PROVE  JobMatches(w)'
<1>1. job'[w] = Resting
  BY Becoming DEF Core, JobsMatch
<1> QED
  BY <1>1, RestMatches

\* A failed observation ends the job, or sends a revocation to read again.
LEMMA AfterFailureMatches ==
    ASSUME Core, NEW w \in Jobs, Becomes(w, AfterFailure(w))
    PROVE  JobMatches(w)'
  BY MovingMatches, DoneMatches DEF AfterFailure

\* A step of the chain or of the rows alone leaves every job as it was.
LEMMA QuietJobs ==
    ASSUME Core, Grows, UNCHANGED job, DecisionMatches', AttemptsMatch', AnchorsMatch'
    PROVE  Core'
  BY JobKept DEF Core, JobsMatch

\* The decision is reserved, and signed.
LEMMA DecisionCore ==
    ASSUME Core, Authorized \/ MarkSigned
    PROVE  Core'
<1>0. UNCHANGED <<attempts, anchors, registry, reverted, job>> /\ DecisionMatches
  BY DEF Authorized, MarkSigned, chain, Core
<1>1. CASE Authorized
  <2>1. decision.status = "none" /\ decision' = [decision EXCEPT !.status = "RESERVED"]
        /\ held' = "RESERVED" /\ ~decision.signed /\ decision \in Decision
    BY <1>0, <1>1 DEF Authorized, DecisionMatches
  <2>2. decision' \in Decision /\ decision'.status = "RESERVED" /\ ~decision'.signed
    BY <2>1 DEF Decision
  <2>3. Grows /\ DecisionMatches'
    BY <1>0, <2>1, <2>2 DEF Grows, DecisionMatches
  <2>4. AttemptsMatch'
    BY <1>0, <2>2, AttemptsKept
  <2> QED
    BY <1>0, <2>3, <2>4, AnchorsKept, QuietJobs
<1>2. CASE MarkSigned
  <2>1. decision.status = "RESERVED" /\ decision \in Decision
        /\ decision' = [decision EXCEPT !.status = "SIGNED", !.signed = TRUE]
        /\ held' = "RESERVED"
    BY <1>0, <1>2 DEF MarkSigned, DecisionMatches
  <2>2. decision' \in Decision /\ decision'.status = "SIGNED" /\ decision'.signed
    BY <2>1 DEF Decision
  <2>3. Grows /\ DecisionMatches'
    BY <1>0, <2>1, <2>2 DEF Grows, DecisionMatches
  <2>4. AttemptsMatch'
    BY <1>0, <2>2, AttemptsKept
  <2> QED
    BY <1>0, <2>3, <2>4, AnchorsKept, QuietJobs
<1> QED
  BY <1>1, <1>2

\* An observation, whatever the reader answers.
LEMMA ObserveCore ==
    ASSUME Core, NEW w \in Jobs, Observe(w)
    PROVE  Core'
<1>0. UNCHANGED <<decision, held, attempts, anchors, registry, reverted>> /\ job[w].at \in Observing
  BY DEF Observe, Observing
<1>1. DOMAIN job = Jobs /\ JobMatches(w) /\ job[w] \in JobRecord
  BY DEF Core, JobsMatch, JobMatches
<1>2. To(w, "attempt") \in Exactly("attempt", job[w].slot, job[w].hash, job[w].obs, job[w].tx,
                                   job[w].n, job[w].tries, job[w].then)
  BY <1>1, ToNext
<1> DEFINE Observed(o, t) ==
      Exactly("attempt", job[w].slot, job[w].hash, o, t, job[w].n, job[w].tries, job[w].then)
<1>3. \E o \in Outcomes, t \in TxHashes \cup {NoTxHash, job[w].tx} :
         \E next \in Observed(o, t) : Becomes(w, next)
  <2>1. ASSUME NEW o, NEW t
        PROVE  [To(w, "attempt") EXCEPT !.obs = o, !.tx = t]
                  \in Exactly("attempt", job[w].slot, job[w].hash, o, t, job[w].n, job[w].tries,
                              job[w].then)
    BY <1>2 DEF Exactly
  <2>2. [To(w, "attempt") EXCEPT !.obs = "failed"]
           \in Exactly("attempt", job[w].slot, job[w].hash, "failed", job[w].tx, job[w].n,
                       job[w].tries, job[w].then)
    BY <1>2 DEF Exactly
  <2>3. CASE \E t \in TxHashes :
                Becomes(w, [To(w, "attempt") EXCEPT !.obs = "settled", !.tx = t])
    BY <2>1, <2>3 DEF Outcomes
  <2>4. CASE Becomes(w, [To(w, "attempt") EXCEPT !.obs = "failed"])
    BY <2>2, <2>4 DEF Outcomes
  <2>5. CASE \E o \in Answers(w), t \in TxHashes \cup {NoTxHash} :
                Becomes(w, [To(w, "attempt") EXCEPT !.obs = o, !.tx = t])
    <3>1. Answers(w) \subseteq Outcomes
      BY DEF Answers, Outcomes
    <3> QED
      BY <2>1, <2>5, <3>1
  <2> QED
    BY <2>3, <2>4, <2>5 DEF Observe
<1>4. PICK o \in Outcomes, t \in TxHashes \cup {NoTxHash, job[w].tx} :
         \E next \in Observed(o, t) : Becomes(w, next)
  BY <1>3
<1>5. PICK next \in Observed(o, t) : Becomes(w, next)
  BY <1>4
<1>6. next \in JobRecord
  BY <1>1, <1>4, <1>5 DEF Exactly, JobRecord, Places
<1>7. job'[w] = next
  BY <1>1, <1>5, Becoming
<1>8. JobMatches(w)'
  BY <1>0, <1>1, <1>4, <1>5, <1>6, <1>7
  DEF JobMatches, Exactly, Observing, Anchoring, Submitting
<1> QED
  BY <1>0, <1>5, <1>8, ReadingStep

\* The next number is free, so the numbers stay without a gap.
LEMMA AttemptCore ==
    ASSUME Core, NEW w \in Jobs, AppendAttempt(w) \/ Renumber(w)
    PROVE  Core'
<1>0. /\ UNCHANGED <<decision, held, anchors, registry, reverted>>
      /\ job[w].at \in {"attempt", "renumber"}
  BY DEF AppendAttempt, Renumber, chain
<1>1. DOMAIN job = Jobs /\ JobMatches(w) /\ job[w] \in JobRecord /\ AttemptsMatch
  BY DEF Core, JobsMatch, JobMatches
<1>2. job[w].obs \in Outcomes /\ decision.signed
  BY <1>0, <1>1 DEF JobMatches
<1>3. NextAttemptNumber = Cardinality(attempts) + 1 /\ Cardinality(attempts) \in Nat
  BY <1>1, NextNumber
<1>4. CASE UNCHANGED attempts /\ Becomes(w, Resting)
  BY <1>0, <1>4, DoneMatches, ReadingStep
<1>5. CASE UNCHANGED attempts /\ Becomes(w, [To(w, "renumber") EXCEPT !.tries = @ + 1])
  <2> DEFINE next == [To(w, "renumber") EXCEPT !.tries = @ + 1]
  <2>1. next \in Exactly("renumber", job[w].slot, job[w].hash, job[w].obs, job[w].tx, job[w].n,
                         job[w].tries + 1, job[w].then)
    <3>1. To(w, "renumber") \in Exactly("renumber", job[w].slot, job[w].hash, job[w].obs,
                                        job[w].tx, job[w].n, job[w].tries, job[w].then)
      BY <1>1, ToNext
    <3> QED
      BY <3>1 DEF Exactly
  <2>2. job'[w] = next
    BY <1>1, <1>5, Becoming
  <2> HIDE DEF next
  <2>3. next \in JobRecord
    BY <1>1, <2>1 DEF Exactly, JobRecord, Places
  <2>4. JobMatches(w)'
    BY <1>0, <1>2, <2>1, <2>2, <2>3 DEF JobMatches, Exactly, Observing, Anchoring, Submitting
  <2> QED
    BY <1>0, <1>5, <2>4, ReadingStep
<1>6. CASE Renumber(w)
  <2> DEFINE next == [To(w, "attempt") EXCEPT !.n = NextAttemptNumber]
  <2>1. next \in Exactly("attempt", job[w].slot, job[w].hash, job[w].obs, job[w].tx,
                         NextAttemptNumber, job[w].tries, job[w].then)
    <3>1. To(w, "attempt") \in Exactly("attempt", job[w].slot, job[w].hash, job[w].obs,
                                       job[w].tx, job[w].n, job[w].tries, job[w].then)
      BY <1>1, ToNext
    <3> QED
      BY <3>1 DEF Exactly
  <2>2. job'[w] = next /\ UNCHANGED attempts /\ Becomes(w, next)
    BY <1>1, <1>6, Becoming DEF Renumber
  <2> HIDE DEF next
  <2>3. next \in JobRecord
    BY <1>1, <1>3, <2>1 DEF Exactly, JobRecord, Places
  <2>4. next.n \in 1 .. Cardinality(attempts) + 1 /\ next.at = "attempt" /\ next.obs = job[w].obs
    BY <1>3, <2>1 DEF Exactly
  <2>5. JobMatches(w)'
    BY <1>0, <1>2, <2>2, <2>3, <2>4 DEF JobMatches, Observing, Anchoring, Submitting
  <2> QED
    BY <1>0, <2>2, <2>5, ReadingStep
<1>7. CASE /\ UniqueNumber(job[w].n) /\ job[w].at = "attempt"
           /\ attempts' = attempts \cup {[n |-> job[w].n, status |-> job[w].obs]}
           /\ Becomes(w, [To(w, Effect(job[w].obs)) EXCEPT !.n = 0, !.tries = 0])
  <2>1. PICK k \in Nat : k = Cardinality(attempts)
    BY <1>3
  <2>2. Numbers = 1 .. k /\ job[w].n = k + 1
    BY <1>1, <1>7, <2>1 DEF AttemptsMatch, JobMatches, UniqueNumber
  <2>3. PICK a : a = [n |-> k + 1, status |-> job[w].obs]
    OBVIOUS
  <2>4. a.n = k + 1 /\ a.status = job[w].obs /\ a \in [n : Nat, status : Outcomes]
    BY <1>2, <2>1, <2>3
  <2>5. attempts' = attempts \cup {a} /\ a \notin attempts
    BY <1>7, <2>2, <2>3, <2>4 DEF Numbers
  <2>6. IsFiniteSet(attempts') /\ Cardinality(attempts') = k + 1
    BY <1>1, <2>1, <2>5, FS_AddElement DEF AttemptsMatch
  <2>7. Numbers' = 1 .. (k + 1)
    BY <2>2, <2>4, <2>5 DEF Numbers
  <2>8. ObservedSettled \/ job[w].obs = "settled" => ObservedSettled'
    BY <2>4, <2>5 DEF ObservedSettled
  <2>9. AttemptsMatch'
    BY <1>0, <1>1, <2>4, <2>5, <2>6, <2>7, <2>8 DEF AttemptsMatch
  <2>10. Grows
    BY <1>0, <2>5 DEF Grows
  <2> DEFINE next == [To(w, Effect(job[w].obs)) EXCEPT !.n = 0, !.tries = 0]
  <2>11. next \in Exactly(Effect(job[w].obs), job[w].slot, job[w].hash, job[w].obs, job[w].tx, 0, 0,
                          job[w].then)
    <3>1. To(w, Effect(job[w].obs))
             \in Exactly(Effect(job[w].obs), job[w].slot, job[w].hash, job[w].obs, job[w].tx,
                         job[w].n, job[w].tries, job[w].then)
      BY <1>1, ToNext
    <3> QED
      BY <3>1 DEF Exactly
  <2>12. job'[w] = next
    BY <1>1, <1>7, Becoming
  <2> HIDE DEF next
  <2>13. \/ job[w].obs = "settled" /\ next.at = "markSettled"
         \/ job[w].obs = "pending" /\ next.at = "markExpiry"
         \/ job[w].obs = "failed" /\ next.at = "fail"
    BY <1>2, <2>11 DEF Effect, Outcomes, Exactly
  <2>14. next \in JobRecord
    BY <1>1, <2>11, <2>13 DEF Exactly, JobRecord, Places
  <2>15. next.obs = job[w].obs
    BY <2>11 DEF Exactly
  <2>16. JobMatches(w)'
    <3>1. decision.status # "none"
      BY <1>2 DEF Core, DecisionMatches
    <3> QED
      BY <1>0, <1>2, <2>8, <2>12, <2>13, <2>14, <2>15, <3>1
      DEF JobMatches, Observing, Anchoring, Submitting
  <2>17. DecisionMatches' /\ AnchorsMatch'
    BY <1>0, <2>10, AnchorsKept DEF Core, DecisionMatches
  <2> QED
    BY <1>7, <2>9, <2>10, <2>16, <2>17, CorePreserved
<1> QED
  BY <1>4, <1>5, <1>6, <1>7 DEF AppendAttempt

\* The row is settled, by a request whose attempt says so, or the request goes on to read it.
LEMMA SettleCore ==
    ASSUME Core, NEW w \in Jobs, MarkSettled(w)
    PROVE  Core'
<1>0. /\ UNCHANGED <<held, attempts, anchors, registry, reverted>>
      /\ job[w].at = "markSettled"
  BY DEF MarkSettled, chain
<1>1. DOMAIN job = Jobs /\ JobMatches(w) /\ job[w] \in JobRecord /\ DecisionMatches
  BY DEF Core, JobsMatch, JobMatches
<1>2. job[w].obs = "settled" /\ ObservedSettled /\ decision.signed
  BY <1>0, <1>1 DEF JobMatches
<1>3. AttemptsMatch'
  BY <1>0, <1>2, AttemptsKept
<1>4. CASE CanSettle
  <2> DEFINE next == [To(w, "settle") EXCEPT !.tx = NoTxHash, !.then = "refresh"]
  <2>1. /\ decision' = [decision EXCEPT !.status = "SETTLED", !.tx = job[w].tx]
        /\ Becomes(w, next)
    BY <1>4 DEF MarkSettled
  <2>2. decision' \in Decision /\ decision'.status = "SETTLED" /\ decision'.signed
    BY <1>1, <1>2, <2>1 DEF Decision, DecisionMatches, JobRecord, Final
  <2>3. held' = "RESERVED" /\ decision.status \in {"SIGNED", "EXPIRY_CHECK"}
    BY <1>0, <1>4 DEF CanSettle
  <2>4. Grows /\ DecisionMatches'
    BY <1>0, <2>2, <2>3 DEF Grows, DecisionMatches
  <2>5. next \in Exactly("settle", job[w].slot, job[w].hash, job[w].obs, NoTxHash, job[w].n,
                         job[w].tries, "refresh")
    <3>1. To(w, "settle") \in Exactly("settle", job[w].slot, job[w].hash, job[w].obs, job[w].tx,
                                      job[w].n, job[w].tries, job[w].then)
      BY <1>1, ToNext
    <3> QED
      BY <3>1 DEF Exactly
  <2>6. job'[w] = next
    BY <1>1, <2>1, Becoming
  <2> HIDE DEF next
  <2>7. next \in JobRecord
    BY <1>1, <2>5 DEF Exactly, JobRecord, Places
  <2>8. JobMatches(w)'
    BY <2>2, <2>5, <2>6, <2>7 DEF JobMatches, Exactly, Observing, Anchoring, Submitting
  <2> QED
    BY <1>0, <1>3, <2>1, <2>4, <2>8, AnchorsKept, CorePreserved
<1>5. CASE ~CanSettle
  <2> DEFINE next == [To(w, "refresh") EXCEPT !.tx = NoTxHash]
  <2>1. UNCHANGED decision /\ Becomes(w, next)
    BY <1>5 DEF MarkSettled
  <2>2. next \in Exactly("refresh", job[w].slot, job[w].hash, job[w].obs, NoTxHash, job[w].n,
                         job[w].tries, job[w].then)
    <3>1. To(w, "refresh") \in Exactly("refresh", job[w].slot, job[w].hash, job[w].obs, job[w].tx,
                                       job[w].n, job[w].tries, job[w].then)
      BY <1>1, ToNext
    <3> QED
      BY <3>1 DEF Exactly
  <2>3. job'[w] = next
    BY <1>1, <2>1, Becoming
  <2> HIDE DEF next
  <2>4. next \in JobRecord
    BY <1>1, <2>2 DEF Exactly, JobRecord, Places
  <2>5. JobMatches(w)'
    BY <2>2, <2>3, <2>4 DEF JobMatches, Exactly, Observing, Anchoring, Submitting
  <2> QED
    BY <1>0, <2>1, <2>5, ReadingStep
<1> QED
  BY <1>4, <1>5

\* The hold is settled, for a settled row, or released, for a failed one.
LEMMA HoldCore ==
    ASSUME Core, NEW w \in Jobs, SettleHoldRow(w) \/ ReleaseHoldRow(w)
    PROVE  Core'
<1>0. UNCHANGED <<decision, attempts, anchors, registry, reverted>>
  BY DEF SettleHoldRow, ReleaseHoldRow, chain
<1>1. DOMAIN job = Jobs /\ JobMatches(w) /\ job[w] \in JobRecord /\ DecisionMatches
  BY DEF Core, JobsMatch, JobMatches
<1>2. Grows /\ AttemptsMatch' /\ AnchorsMatch'
  BY <1>0, AttemptsKept, AnchorsKept DEF Grows, Core, AttemptsMatch
<1>3. CASE SettleHoldRow(w)
  <2>1. decision.status = "SETTLED" /\ (job[w].then = "claim" => IsTheHash(job[w].hash))
    BY <1>1, <1>3 DEF SettleHoldRow, JobMatches
  <2>2. DecisionMatches'
    BY <1>0, <1>1, <1>3, <2>1 DEF SettleHoldRow, DecisionMatches
  <2>3. CASE Becomes(w, Resting)
    BY <1>2, <2>2, <2>3, DoneMatches, CorePreserved
  <2>4. CASE Becomes(w, [To(w, job[w].then) EXCEPT !.then = "rest"]) /\ job[w].then # "rest"
    <3> DEFINE next == [To(w, job[w].then) EXCEPT !.then = "rest"]
    <3>1. next \in Exactly(job[w].then, job[w].slot, job[w].hash, job[w].obs, job[w].tx, job[w].n,
                           job[w].tries, "rest")
      <4>1. To(w, job[w].then)
               \in Exactly(job[w].then, job[w].slot, job[w].hash, job[w].obs, job[w].tx, job[w].n,
                           job[w].tries, job[w].then)
        BY <1>1, ToNext
      <4> QED
        BY <4>1 DEF Exactly
    <3>2. job'[w] = next
      BY <1>1, <2>4, Becoming
    <3> HIDE DEF next
    <3>3. job[w].then \in {"claim", "refresh"}
      BY <1>1, <2>4 DEF JobRecord
    <3>4. next \in JobRecord /\ next.at = job[w].then /\ next.hash = job[w].hash
      BY <1>1, <3>1, <3>3 DEF Exactly, JobRecord, Places
    <3>5. next.at = "claim" => IsTheHash(job[w].hash)
      BY <2>1, <3>4
    <3>6. JobMatches(w)'
      BY <1>0, <2>1, <3>2, <3>3, <3>4, <3>5
      DEF JobMatches, Observing, Anchoring, Submitting, IsTheHash
    <3> QED
      BY <1>2, <2>2, <2>4, <3>6, CorePreserved
  <2> QED
    BY <1>3, <2>3, <2>4 DEF SettleHoldRow
<1>4. CASE ReleaseHoldRow(w)
  <2>1. decision.status = "FAILED_TERMINAL"
    BY <1>1, <1>4 DEF ReleaseHoldRow, JobMatches
  <2>2. DecisionMatches'
    BY <1>0, <1>1, <1>4, <2>1 DEF ReleaseHoldRow, DecisionMatches
  <2> QED
    BY <1>2, <1>4, <2>2, AfterFailureMatches, CorePreserved DEF ReleaseHoldRow
<1> QED
  BY <1>3, <1>4

\* The row waits for its expiry.
LEMMA ExpiryCore ==
    ASSUME Core, NEW w \in Jobs, MarkExpiryCheck(w)
    PROVE  Core'
<1>0. UNCHANGED <<held, attempts, anchors, registry, reverted>> /\ Becomes(w, To(w, "reread"))
  BY DEF MarkExpiryCheck, chain
<1>1. DecisionMatches
  BY DEF Core
<1>2. CASE decision.status # "SIGNED"
  BY <1>0, <1>2, MovingMatches, ReadingStep DEF MarkExpiryCheck
<1>3. CASE decision.status = "SIGNED"
  <2>1. decision' = [decision EXCEPT !.status = "EXPIRY_CHECK"] /\ decision \in Decision
        /\ held = "RESERVED" /\ decision.signed
    BY <1>1, <1>3 DEF MarkExpiryCheck, DecisionMatches
  <2>2. decision' \in Decision /\ decision'.status = "EXPIRY_CHECK" /\ decision'.signed
    BY <2>1 DEF Decision
  <2>3. Grows /\ DecisionMatches'
    BY <1>0, <1>3, <2>1, <2>2 DEF Grows, DecisionMatches
  <2>4. AttemptsMatch'
    BY <1>0, <2>2, AttemptsKept
  <2> QED
    BY <1>0, <2>3, <2>4, MovingMatches, AnchorsKept, CorePreserved
<1> QED
  BY <1>2, <1>3

\* The row is failed unless it is closed.
LEMMA FailCore ==
    ASSUME Core, NEW w \in Jobs, ReadForFailure(w) \/ MarkFailed(w)
    PROVE  Core'
<1>0. /\ UNCHANGED <<held, attempts, anchors, registry, reverted>>
      /\ job[w].at \in {"fail", "markFailed"}
  BY DEF ReadForFailure, MarkFailed, chain
<1>1. job[w].obs \in {"none", "failed"} /\ decision.status # "none" /\ DecisionMatches
  BY <1>0 DEF Core, JobsMatch, JobMatches
<1>2. CASE ReadForFailure(w)
  <2>0. UNCHANGED decision
    BY <1>2 DEF ReadForFailure
  <2>1. CASE decision.status = "SETTLED"
    BY <1>0, <1>2, <2>0, <2>1, AfterFailureMatches, ReadingStep DEF ReadForFailure
  <2>2. CASE decision.status = "FAILED_TERMINAL"
    <3>1. Becomes(w, To(w, "release"))
      BY <1>2, <2>2 DEF ReadForFailure
    <3> QED
      BY <1>0, <1>1, <2>0, <2>2, <3>1, MovingMatches, ReadingStep
  <2>3. CASE decision.status \notin Final
    <3>1. Becomes(w, To(w, "markFailed"))
      BY <1>2, <2>3 DEF ReadForFailure, Final
    <3> QED
      BY <1>0, <1>1, <2>0, <3>1, MovingMatches, ReadingStep
  <2> QED
    BY <2>1, <2>2, <2>3 DEF Final
<1>3. CASE MarkFailed(w) /\ decision.status \in Final
  BY <1>0, <1>3, AfterFailureMatches, ReadingStep DEF MarkFailed
<1>4. CASE MarkFailed(w) /\ decision.status \notin Final
  <2>1. decision' = [decision EXCEPT !.status = "FAILED_TERMINAL"] /\ decision \in Decision
        /\ Becomes(w, To(w, "release")) /\ decision.status # "SETTLED"
    BY <1>1, <1>4 DEF MarkFailed, DecisionMatches, Final
  <2>2. decision' \in Decision /\ decision'.status = "FAILED_TERMINAL"
        /\ decision'.signed = decision.signed
    BY <2>1 DEF Decision, Final
  <2>3. held' = "RESERVED" /\ (~decision'.signed => ~decision.signed)
    BY <1>0, <1>1, <1>4, <2>1, <2>2 DEF DecisionMatches, Decision, Final
  <2>4. Grows /\ DecisionMatches'
    BY <1>0, <1>1, <2>1, <2>2, <2>3 DEF Grows, DecisionMatches
  <2>5. AttemptsMatch'
    BY <1>0, <2>2, AttemptsKept
  <2> QED
    BY <1>0, <1>1, <2>1, <2>2, <2>4, <2>5, MovingMatches, AnchorsKept, CorePreserved
<1> QED
  BY <1>2, <1>3, <1>4

\* After its own step on the row a request reads it, and is done or turns to the anchor.
LEMMA RefreshCore ==
    ASSUME Core, NEW w \in Jobs, Refresh(w)
    PROVE  Core'
<1>0. UNCHANGED <<decision, held, attempts, anchors, registry, reverted>>
  BY DEF Refresh, chain
<1>1. job[w].slot \in CasperNets
  BY DEF Core, JobsMatch, JobMatches, JobRecord
<1>2. CASE decision.status = "SETTLED"
  <2>1. PICK repairs \in BOOLEAN : TurnsToAnchor(w, job[w].slot, repairs)
    BY <1>2 DEF Refresh
  <2> QED
    BY <1>0, <1>1, <1>2, <2>1, TurningMatches, ReadingStep
<1>3. CASE decision.status # "SETTLED"
  BY <1>0, <1>3, DoneMatches, ReadingStep DEF Refresh
<1> QED
  BY <1>2, <1>3

\* Setting the anchor of a hash changes the row of that hash, and no other.
LEMMA SettingAnchor ==
    ASSUME NEW h, NEW r, SetAnchor(h, r)
    PROVE  /\ DOMAIN anchors' = DOMAIN anchors \cup {h} /\ anchors'[h] = r
           /\ \A k \in DOMAIN anchors \ {h} : anchors'[k] = anchors[k]
  BY DEF SetAnchor

\* Anchors of the hash of the settled row only.
LEMMA AnchorSet ==
    ASSUME Core, UNCHANGED <<decision, attempts, held, registry, reverted>>,
           NEW h \in Hashes, IsTheHash(h),
           NEW r \in [status : {"submitted", "confirmed", "failed"}, recent : BOOLEAN],
           SetAnchor(h, r)
    PROVE  Grows /\ DecisionMatches' /\ AttemptsMatch' /\ AnchorsMatch' /\ h \in DOMAIN anchors'
<1>1. /\ DOMAIN anchors' = DOMAIN anchors \cup {h} /\ anchors'[h] = r
      /\ \A k \in DOMAIN anchors \ {h} : anchors'[k] = anchors[k]
  BY SettingAnchor
<1>2. Grows /\ DecisionMatches' /\ AttemptsMatch'
  BY <1>1, AttemptsKept DEF Grows, Core, DecisionMatches, AttemptsMatch
<1>3. \A k : IsTheHash(k) => IsTheHash(k)'
  BY DEF IsTheHash, DecisionHash
<1>4. \A k \in DOMAIN anchors' : IsTheHash(k)' /\ k \in Hashes
  BY <1>1, <1>3 DEF Core, AnchorsMatch
<1>5. \A k \in DOMAIN anchors' :
         anchors'[k] \in [status : {"submitted", "confirmed", "failed"}, recent : BOOLEAN]
  BY <1>1 DEF Core, AnchorsMatch
<1>6. \A n \in CasperNets : (registry[n] # NoHash => IsTheHash(registry[n]))'
  BY DEF Core, AnchorsMatch, IsTheHash, DecisionHash
<1> QED
  BY <1>1, <1>2, <1>4, <1>5, <1>6 DEF Core, AnchorsMatch

\* Where a request goes that holds a claim.
LEMMA AnchoringMatches ==
    ASSUME Core, NEW w \in Jobs, job[w].at \in Anchoring, NEW at \in Submitting,
           Becomes(w, To(w, at)), UNCHANGED decision, job[w].hash \in DOMAIN anchors'
    PROVE  JobMatches(w)'
<1>1. DOMAIN job = Jobs /\ job[w] \in JobRecord /\ IsTheHash(job[w].hash)
  BY DEF Core, JobsMatch, JobMatches
<1>2. job'[w] = To(w, at)
  BY <1>1, Becoming
<1>3. To(w, at) \in Exactly(at, job[w].slot, job[w].hash, job[w].obs, job[w].tx, job[w].n,
                            job[w].tries, job[w].then)
  BY <1>1, ToNext
<1>4. To(w, at) \in JobRecord /\ To(w, at).at = at /\ To(w, at).hash = job[w].hash
  BY <1>1, <1>3 DEF Exactly, JobRecord, Places, Submitting
<1> QED
  BY <1>1, <1>2, <1>4
  DEF JobMatches, Observing, Anchoring, Submitting, IsTheHash, DecisionHash

\* A claim of the anchor of the settled row, and what becomes of it.
LEMMA AnchorCore ==
    ASSUME Core, NEW w \in Jobs, Claim(w) \/ SubmitAnchor(w) \/ ResolveAnchor(w)
    PROVE  Core'
<1> DEFINE h == job[w].hash
<1>0. UNCHANGED <<decision, held, attempts>> /\ job[w].at \in Anchoring
  BY DEF Claim, SubmitAnchor, ResolveAnchor, chain, Anchoring
<1>1. DOMAIN job = Jobs /\ JobMatches(w) /\ IsTheHash(h) /\ h \in Hashes
  BY <1>0 DEF Core, JobsMatch, JobMatches, JobRecord
<1>2. CASE Claim(w)
  <2>0. UNCHANGED <<registry, reverted>>
    BY <1>2 DEF Claim
  <2>1. CASE Becomes(w, Resting) /\ UNCHANGED anchors
    BY <1>0, <2>0, <2>1, DoneMatches, ReadingStep
  <2>2. CASE /\ SetAnchor(h, [status |-> "submitted", recent |-> TRUE])
             /\ Becomes(w, To(w, "submit"))
    <3>1. Grows /\ DecisionMatches' /\ AttemptsMatch' /\ AnchorsMatch' /\ h \in DOMAIN anchors'
      BY <1>0, <1>1, <2>0, <2>2, AnchorSet
    <3>2. JobMatches(w)'
      BY <1>0, <2>2, <3>1, AnchoringMatches DEF Submitting
    <3> QED
      BY <2>2, <3>1, <3>2, CorePreserved
  <2> QED
    BY <1>2, <2>1, <2>2 DEF Claim
<1>3. CASE SubmitAnchor(w)
  <2>1. h \in DOMAIN anchors /\ UNCHANGED anchors
    BY <1>1, <1>3 DEF SubmitAnchor, JobMatches, Submitting
  <2>2. PICK at \in {"confirm", "failAnchor"} : Becomes(w, To(w, at))
    BY <1>3 DEF SubmitAnchor
  <2>3. JobMatches(w)'
    BY <1>0, <2>1, <2>2, AnchoringMatches DEF Submitting
  <2>4. Grows /\ DecisionMatches' /\ AttemptsMatch'
    BY <1>0, <2>1, AttemptsKept DEF Grows, Core, DecisionMatches, AttemptsMatch
  <2>5. AnchorsMatch'
    <3>1. job[w].slot \in CasperNets
      BY <1>1 DEF JobMatches, JobRecord
    <3>2. \A k : IsTheHash(k) => IsTheHash(k)'
      BY <1>0 DEF IsTheHash, DecisionHash
    <3>3. CASE UNCHANGED <<registry, reverted>>
      BY <2>1, <2>4, <3>3, AnchorsKept
    <3>4. CASE AnchorDecision(job[w].slot, h)
      <4>1. registry[job[w].slot] \in {NoHash, h}
        BY <1>1, <3>1 DEF Core, AnchorsMatch, IsTheHash
      <4>2. ~reverted'
        BY <3>4, <4>1 DEF AnchorDecision, Core, AnchorsMatch
      <4>3. registry' \in [CasperNets -> Hashes]
            /\ \A n \in CasperNets : registry'[n] \in {registry[n], h}
        BY <1>1, <3>1, <3>4 DEF AnchorDecision, Core, AnchorsMatch
      <4>4. \A n \in CasperNets : (registry[n] # NoHash => IsTheHash(registry[n]))'
        BY <1>1, <3>2, <4>3 DEF Core, AnchorsMatch
      <4> QED
        BY <2>1, <3>2, <4>2, <4>3, <4>4 DEF Core, AnchorsMatch
    <3> QED
      BY <1>3, <3>3, <3>4 DEF SubmitAnchor, NetworkOfSlot
  <2> QED
    BY <2>2, <2>3, <2>4, <2>5, CorePreserved
<1>4. CASE ResolveAnchor(w)
  <2>0. UNCHANGED <<registry, reverted>> /\ Becomes(w, Resting)
    BY <1>4 DEF ResolveAnchor, chain
  <2>1. CASE UNCHANGED anchors
    BY <1>0, <2>0, <2>1, DoneMatches, ReadingStep
  <2>2. CASE anchors[h].status = "submitted"
    <3>1. PICK status \in {"confirmed", "failed"} :
             SetAnchor(h, [status |-> status, recent |-> FALSE])
      BY <1>4, <2>2 DEF ResolveAnchor
    <3>2. Grows /\ DecisionMatches' /\ AttemptsMatch' /\ AnchorsMatch'
      BY <1>0, <1>1, <2>0, <3>1, AnchorSet
    <3> QED
      BY <2>0, <3>2, DoneMatches, CorePreserved
  <2> QED
    BY <1>4, <2>1, <2>2 DEF ResolveAnchor
<1> QED
  BY <1>2, <1>3, <1>4

\* A claim grows old.
LEMMA AgeCore ==
    ASSUME Core, NEW h \in Hashes, AnchorAges(h)
    PROVE  Core'
<1>1. /\ h \in DOMAIN anchors /\ anchors[h].status = "submitted"
      /\ UNCHANGED <<decision, held, attempts, registry, reverted, job>>
      /\ SetAnchor(h, [anchors[h] EXCEPT !.recent = FALSE])
  BY DEF AnchorAges, chain
<1>2. /\ IsTheHash(h)
      /\ anchors[h] \in [status : {"submitted", "confirmed", "failed"}, recent : BOOLEAN]
  BY <1>1 DEF Core, AnchorsMatch
<1>3. [anchors[h] EXCEPT !.recent = FALSE]
         \in [status : {"submitted", "confirmed", "failed"}, recent : BOOLEAN]
  BY <1>2
<1>4. Grows /\ DecisionMatches' /\ AttemptsMatch' /\ AnchorsMatch'
  BY <1>1, <1>2, <1>3, AnchorSet
<1> QED
  BY <1>1, <1>4, QuietJobs

\* A request that stops has nothing to rely on.
LEMMA StopCore ==
    ASSUME Core, NEW w \in Jobs, StopJob(w)
    PROVE  Core'
  BY DoneMatches, ReadingStep, RestingRecord DEF StopJob, chain

\* Every step keeps what the requests rely on.
LEMMA CoreStep ==
    ASSUME Core, [SettlementNext]_settlementVars
    PROVE  Core'
<1>1. CASE UNCHANGED settlementVars
  <2>1. UNCHANGED <<decision, held, attempts, anchors, registry, reverted, job>>
    BY <1>1 DEF settlementVars, chain
  <2>2. Grows /\ DecisionMatches' /\ AttemptsMatch' /\ AnchorsMatch'
    BY <2>1, AttemptsKept, AnchorsKept DEF Grows, Core, DecisionMatches, AttemptsMatch
  <2> QED
    BY <2>1, <2>2, QuietJobs
<1>2. CASE \/ \E header \in CasperNets : AuthorizeX402(header) \/ AuthorizeAction(header)
           \/ AuthorizeMcp \/ MarkSigned
  BY <1>2, DecisionCore DEF AuthorizeX402, AuthorizeAction, AuthorizeMcp
<1>3. ASSUME NEW w \in Jobs, JobStep(w)
      PROVE  Core'
  <2>1. CASE \/ \E header \in CasperNets : OpenReconcileHttp(w, header)
             \/ OpenReconcileMcp(w) \/ OpenRevoke(w)
    BY <2>1, OpenCore
  <2>2. CASE Observe(w)
    BY <2>2, ObserveCore
  <2>3. CASE AppendAttempt(w) \/ Renumber(w)
    BY <2>3, AttemptCore
  <2>4. CASE MarkSettled(w)
    BY <2>4, SettleCore
  <2>5. CASE SettleHoldRow(w) \/ ReleaseHoldRow(w)
    BY <2>5, HoldCore
  <2>6. CASE MarkExpiryCheck(w)
    BY <2>6, ExpiryCore
  <2>7. CASE ReadForFailure(w) \/ MarkFailed(w)
    BY <2>7, FailCore
  <2>8. CASE Refresh(w)
    BY <2>8, RefreshCore
  <2>9. CASE Claim(w) \/ SubmitAnchor(w) \/ ResolveAnchor(w)
    BY <2>9, AnchorCore
  <2>10. CASE StopJob(w)
    BY <2>10, StopCore
  <2> QED
    BY <1>3, <2>1, <2>2, <2>3, <2>4, <2>5, <2>6, <2>7, <2>8, <2>9, <2>10 DEF JobStep
<1>4. CASE \E h \in Hashes : AnchorAges(h)
  BY <1>4, AgeCore
<1> QED
  BY <1>1, <1>2, <1>3, <1>4 DEF SettlementNext

-----------------------------------------------------------------------------
(* Where a step of one request takes it                                    *)

\* Places where a request neither observes the decision nor submits its anchor.
Quiet == {"rest", "settle", "refresh", "reread", "markExpiry", "release", "claim"}

\* Where a job that moves on stands, and that it keeps what it observed.
LEMMA GoesTo ==
    ASSUME Core, NEW w \in Jobs, NEW at, Becomes(w, To(w, at))
    PROVE  job'[w].at = at /\ job'[w].obs = job[w].obs
<1>1. DOMAIN job = Jobs /\ job[w] \in JobRecord
  BY DEF Core, JobsMatch, JobMatches
<1> QED
  BY <1>1, ToNext, Becoming DEF Exactly

\* Where a job that ends stands.
LEMMA GoesToRest ==
    ASSUME Core, NEW w \in Jobs, Becomes(w, Resting)
    PROVE  job'[w].at = "rest"
  BY Becoming, RestingRecord DEF Core, JobsMatch, Exactly

\* Where a job stands after a failed observation.
LEMMA AfterFailureGoes ==
    ASSUME Core, NEW w \in Jobs, Becomes(w, AfterFailure(w))
    PROVE  job'[w].at \in {"rest", "reread"}
  BY GoesTo, GoesToRest DEF AfterFailure

\* Where a job that begins stands, and whether another was looking then.
LEMMA OpenGoes ==
    ASSUME Core, NEW w \in Jobs,
           \/ \E header \in CasperNets : OpenReconcileHttp(w, header)
           \/ OpenReconcileMcp(w) \/ OpenRevoke(w)
    PROVE  /\ job[w].at = "rest"
           /\ \/ job'[w].at \in Quiet /\ (crossed => crossed')
              \/ job'[w].at = "fail" /\ job'[w].obs = "none" /\ (crossed => crossed')
              \/ /\ job'[w].at \in Observing /\ decision.status \notin Final
                 /\ crossed' = (crossed \/ Observers # {})
<1>0. DOMAIN job = Jobs /\ Resting.at = "rest"
  BY RestingRecord DEF Core, JobsMatch, Exactly
<1>1. ASSUME NEW slot \in CasperNets, NEW at \in Observing, Reconciles(w, slot, at)
      PROVE  /\ job[w].at = "rest"
             /\ \/ job'[w].at \in Quiet /\ (crossed => crossed')
                \/ /\ job'[w].at \in Observing /\ decision.status \notin Final
                   /\ crossed' = (crossed \/ Observers # {})
  <2>1. CASE decision.status = "SETTLED"
    <3>1. UNCHANGED <<decision, attempts, anchors>> /\ TurnsToAnchor(w, slot, TRUE)
      BY <1>1, <2>1 DEF Reconciles
    <3>2. \E next : Becomes(w, next) /\ next.at \in {"rest", "settle", "claim"}
      BY <2>1, <3>1, TurningMatches
    <3> QED
      BY <1>0, <1>1, <3>2, Becoming DEF Reconciles, Quiet
  <2>2. CASE decision.status # "SETTLED"
    <3> DEFINE next == [Resting EXCEPT !.at = at, !.slot = slot, !.n = NextAttemptNumber]
    <3>1. Becomes(w, next) /\ decision.status \notin Final
      BY <1>1, <2>2 DEF Reconciles
    <3>2. next.at = at
      BY RestingRecord DEF Exactly
    <3>3. job'[w] = next
      BY <1>0, <3>1, Becoming
    <3>4. crossed' = (crossed \/ Observers # {}) /\ job[w] = Resting
      BY <1>1, <2>2 DEF Reconciles
    <3> QED
      BY <1>0, <3>1, <3>2, <3>3, <3>4
  <2> QED
    BY <2>1, <2>2
<1>2. CASE OpenRevoke(w)
  <2>1. [Resting EXCEPT !.at = "fail"].at = "fail" /\ [Resting EXCEPT !.at = "fail"].obs = "none"
    BY RestingRecord DEF Exactly
  <2>2. job'[w] = [Resting EXCEPT !.at = "fail"] /\ UNCHANGED crossed /\ job[w] = Resting
    BY <1>0, <1>2, Becoming DEF OpenRevoke, history
  <2> QED
    BY <1>0, <2>1, <2>2
<1>3. "test" \in CasperNets /\ "observe" \in Observing /\ "observeMcp" \in Observing
  BY DEF CasperNets, Observing
<1> QED
  BY <1>1, <1>2, <1>3 DEF OpenReconcileHttp, OpenReconcileMcp, SelectNetworkSlot

\* A look that moves the payment comes back with its outcome.
LEMMA ObserveGoes ==
    ASSUME Core, NEW w \in Jobs, Observe(w)
    PROVE  /\ job[w].at \in Observing /\ job'[w].at = "attempt"
           /\ UNCHANGED moved \/ job'[w].obs \in {"settled", "failed"}
<1>1. DOMAIN job = Jobs /\ job[w] \in JobRecord
  BY DEF Core, JobsMatch, JobMatches
<1>2. To(w, "attempt") \in Exactly("attempt", job[w].slot, job[w].hash, job[w].obs, job[w].tx,
                                   job[w].n, job[w].tries, job[w].then)
  BY <1>1, ToNext
<1>3. ASSUME NEW o, NEW t
      PROVE  [To(w, "attempt") EXCEPT !.obs = o, !.tx = t]
                \in Exactly("attempt", job[w].slot, job[w].hash, o, t, job[w].n, job[w].tries,
                            job[w].then)
  BY <1>2 DEF Exactly
<1>4. [To(w, "attempt") EXCEPT !.obs = "failed"]
         \in Exactly("attempt", job[w].slot, job[w].hash, "failed", job[w].tx, job[w].n,
                     job[w].tries, job[w].then)
  BY <1>2 DEF Exactly
<1>5. CASE \E t \in TxHashes : Becomes(w, [To(w, "attempt") EXCEPT !.obs = "settled", !.tx = t])
  <2>1. PICK t : Becomes(w, [To(w, "attempt") EXCEPT !.obs = "settled", !.tx = t])
    BY <1>5
  <2> DEFINE next == [To(w, "attempt") EXCEPT !.obs = "settled", !.tx = t]
  <2>2. next.at = "attempt" /\ next.obs = "settled"
    BY <1>3 DEF Exactly
  <2>3. job'[w] = next
    BY <1>1, <2>1, Becoming
  <2> QED
    BY <2>2, <2>3 DEF Observe, Observing
<1>6. CASE Becomes(w, [To(w, "attempt") EXCEPT !.obs = "failed"])
  BY <1>1, <1>4, <1>6, Becoming DEF Observe, Observing, Exactly
<1>7. CASE /\ \E o \in Answers(w), t \in TxHashes \cup {NoTxHash} :
                Becomes(w, [To(w, "attempt") EXCEPT !.obs = o, !.tx = t])
           /\ UNCHANGED moved
  <2>1. PICK o, t : Becomes(w, [To(w, "attempt") EXCEPT !.obs = o, !.tx = t])
    BY <1>7
  <2> DEFINE next == [To(w, "attempt") EXCEPT !.obs = o, !.tx = t]
  <2>2. next.at = "attempt"
    BY <1>3 DEF Exactly
  <2>3. job'[w] = next
    BY <1>1, <2>1, Becoming
  <2> QED
    BY <1>7, <2>2, <2>3 DEF Observe, Observing
<1> QED
  BY <1>5, <1>6, <1>7 DEF Observe

\* Where a job goes once its attempt is recorded.
LEMMA AttemptGoes ==
    ASSUME Core, NEW w \in Jobs, AppendAttempt(w) \/ Renumber(w)
    PROVE  /\ job[w].at \in {"attempt", "renumber"}
           /\ \/ job'[w].at = "rest" /\ crossed'
              \/ /\ crossed => crossed'
                 /\ job'[w].obs = job[w].obs
                 /\ \/ job'[w].at \in {"attempt", "renumber"}
                    \/ job[w].obs = "settled" /\ job'[w].at = "markSettled"
                    \/ job[w].obs = "pending" /\ job'[w].at = "markExpiry"
                    \/ job[w].obs = "failed" /\ job'[w].at = "fail"
<1>1. DOMAIN job = Jobs /\ JobMatches(w) /\ job[w] \in JobRecord
  BY DEF Core, JobsMatch, JobMatches
<1>2. job[w].at \in {"attempt", "renumber"} /\ job[w].obs \in Outcomes
  BY <1>1 DEF AppendAttempt, Renumber, JobMatches
<1>3. \A at : To(w, at) \in Exactly(at, job[w].slot, job[w].hash, job[w].obs, job[w].tx, job[w].n,
                                    job[w].tries, job[w].then)
  BY <1>1, ToNext
<1>4. CASE Renumber(w)
  <2>1. [To(w, "attempt") EXCEPT !.n = NextAttemptNumber]
           \in Exactly("attempt", job[w].slot, job[w].hash, job[w].obs, job[w].tx,
                       NextAttemptNumber, job[w].tries, job[w].then)
    BY <1>3 DEF Exactly
  <2> QED
    BY <1>1, <1>2, <1>4, <2>1, Becoming DEF Renumber, Exactly, history
<1>5. CASE /\ UniqueNumber(job[w].n) /\ UNCHANGED crossed
           /\ Becomes(w, [To(w, Effect(job[w].obs)) EXCEPT !.n = 0, !.tries = 0])
  <2>1. [To(w, Effect(job[w].obs)) EXCEPT !.n = 0, !.tries = 0]
           \in Exactly(Effect(job[w].obs), job[w].slot, job[w].hash, job[w].obs, job[w].tx, 0, 0,
                       job[w].then)
    <3>1. To(w, Effect(job[w].obs))
             \in Exactly(Effect(job[w].obs), job[w].slot, job[w].hash, job[w].obs, job[w].tx,
                         job[w].n, job[w].tries, job[w].then)
      BY <1>3
    <3> QED
      BY <3>1 DEF Exactly
  <2>2. job'[w].at = Effect(job[w].obs) /\ job'[w].obs = job[w].obs
    BY <1>1, <1>5, <2>1, Becoming DEF Exactly
  <2> QED
    BY <1>2, <1>5, <2>2 DEF Effect, Outcomes
<1>6. CASE Becomes(w, Resting) /\ crossed'
  BY <1>2, <1>6, GoesToRest
<1>7. CASE /\ Becomes(w, [To(w, "renumber") EXCEPT !.tries = @ + 1])
           /\ crossed' = (crossed \/ FALSE)
  <2>1. [To(w, "renumber") EXCEPT !.tries = @ + 1]
           \in Exactly("renumber", job[w].slot, job[w].hash, job[w].obs, job[w].tx, job[w].n,
                       job[w].tries + 1, job[w].then)
    BY <1>3 DEF Exactly
  <2>2. job'[w].at = "renumber" /\ job'[w].obs = job[w].obs
    BY <1>1, <1>7, <2>1, Becoming DEF Exactly
  <2> QED
    BY <1>2, <1>7, <2>2
<1> QED
  BY <1>4, <1>5, <1>6, <1>7 DEF AppendAttempt

\* A settlement makes the decision final.
LEMMA SettledGoes ==
    ASSUME Core, NEW w \in Jobs, MarkSettled(w)
    PROVE  job[w].at = "markSettled" /\ job'[w].at \in Quiet /\ decision'.status \in Final
<1>1. DOMAIN job = Jobs /\ JobMatches(w) /\ job[w] \in JobRecord /\ DecisionMatches
  BY DEF Core, JobsMatch, JobMatches
<1>2. job[w].at = "markSettled" /\ decision.signed
  BY <1>1 DEF MarkSettled, JobMatches
<1>3. \A at : To(w, at) \in Exactly(at, job[w].slot, job[w].hash, job[w].obs, job[w].tx, job[w].n,
                                    job[w].tries, job[w].then)
  BY <1>1, ToNext
<1>4. CASE CanSettle
  <2>1. To(w, "settle") \in Exactly("settle", job[w].slot, job[w].hash, job[w].obs, job[w].tx,
                                    job[w].n, job[w].tries, job[w].then)
    BY <1>3
  <2>2. [To(w, "settle") EXCEPT !.tx = NoTxHash, !.then = "refresh"].at = "settle"
    BY <2>1 DEF Exactly
  <2>3. job'[w].at = "settle"
    BY <1>1, <1>4, <2>2, Becoming DEF MarkSettled
  <2>4. decision'.status = "SETTLED"
    BY <1>1, <1>4 DEF MarkSettled, DecisionMatches, Decision
  <2> QED
    BY <1>2, <2>3, <2>4 DEF Quiet, Final
<1>5. CASE ~CanSettle
  <2>1. To(w, "refresh") \in Exactly("refresh", job[w].slot, job[w].hash, job[w].obs, job[w].tx,
                                     job[w].n, job[w].tries, job[w].then)
    BY <1>3
  <2>2. [To(w, "refresh") EXCEPT !.tx = NoTxHash].at = "refresh"
    BY <2>1 DEF Exactly
  <2>3. job'[w].at = "refresh"
    BY <1>1, <1>5, <2>2, Becoming DEF MarkSettled
  <2>4. decision.status \in Final
    BY <1>1, <1>2, <1>5 DEF CanSettle, DecisionMatches, Decision
  <2> QED
    BY <1>2, <1>5, <2>3, <2>4 DEF MarkSettled, Quiet
<1> QED
  BY <1>4, <1>5

\* The steps after a decision that look at nothing.
LEMMA QuietGoes ==
    ASSUME Core, NEW w \in Jobs,
           SettleHoldRow(w) \/ MarkExpiryCheck(w) \/ ReleaseHoldRow(w) \/ Refresh(w)
    PROVE  job[w].at \in Quiet /\ job'[w].at \in Quiet
<1>1. DOMAIN job = Jobs /\ job[w] \in JobRecord
  BY DEF Core, JobsMatch, JobMatches
<1>2. job[w].at \in Quiet
  BY DEF SettleHoldRow, MarkExpiryCheck, ReleaseHoldRow, Refresh, Quiet
<1>3. CASE SettleHoldRow(w)
  <2>1. CASE Becomes(w, Resting)
    BY <1>2, <2>1, GoesToRest DEF Quiet
  <2>2. CASE Becomes(w, [To(w, job[w].then) EXCEPT !.then = "rest"])
    <3>1. To(w, job[w].then)
             \in Exactly(job[w].then, job[w].slot, job[w].hash, job[w].obs, job[w].tx, job[w].n,
                         job[w].tries, job[w].then)
      BY <1>1, ToNext
    <3>2. [To(w, job[w].then) EXCEPT !.then = "rest"].at = job[w].then
      BY <3>1 DEF Exactly
    <3>3. job'[w].at = job[w].then
      BY <1>1, <2>2, <3>2, Becoming
    <3> QED
      BY <1>1, <1>2, <3>3 DEF JobRecord, Quiet
  <2> QED
    BY <1>3, <2>1, <2>2 DEF SettleHoldRow
<1>4. CASE MarkExpiryCheck(w)
  BY <1>2, <1>4, GoesTo DEF MarkExpiryCheck, Quiet
<1>5. CASE ReleaseHoldRow(w)
  BY <1>2, <1>5, AfterFailureGoes DEF ReleaseHoldRow, Quiet
<1>6. CASE Refresh(w)
  <2>1. CASE decision.status = "SETTLED"
    <3>1. job[w].slot \in CasperNets /\ UNCHANGED <<decision, attempts, anchors>>
      BY <1>1, <1>6 DEF Refresh, JobRecord
    <3>2. PICK repairs \in BOOLEAN : TurnsToAnchor(w, job[w].slot, repairs)
      BY <1>6, <2>1 DEF Refresh
    <3>3. \E next : Becomes(w, next) /\ next.at \in {"rest", "settle", "claim"}
      BY <2>1, <3>1, <3>2, TurningMatches
    <3> QED
      BY <1>1, <1>2, <3>3, Becoming DEF Quiet
  <2>2. CASE decision.status # "SETTLED"
    BY <1>2, <1>6, <2>2, GoesToRest DEF Refresh, Quiet
  <2> QED
    BY <2>1, <2>2
<1> QED
  BY <1>3, <1>4, <1>5, <1>6

\* A failure makes the decision final, unless it was.
LEMMA FailGoes ==
    ASSUME Core, NEW w \in Jobs, ReadForFailure(w) \/ MarkFailed(w)
    PROVE  /\ job[w].at \in {"fail", "markFailed"}
           /\ \/ job'[w].at \in Quiet /\ decision'.status \in Final
              \/ job'[w].at = "markFailed" /\ job'[w].obs = job[w].obs
<1>1. CASE ReadForFailure(w)
  <2>1. UNCHANGED decision /\ job[w].at = "fail"
    BY <1>1 DEF ReadForFailure
  <2>2. CASE decision.status = "SETTLED"
    BY <1>1, <2>1, <2>2, AfterFailureGoes DEF ReadForFailure, Final, Quiet
  <2>3. CASE decision.status = "FAILED_TERMINAL"
    <3>1. Becomes(w, To(w, "release"))
      BY <1>1, <2>3 DEF ReadForFailure
    <3> QED
      BY <2>1, <2>3, <3>1, GoesTo DEF Final, Quiet
  <2>4. CASE decision.status \notin Final
    <3>1. Becomes(w, To(w, "markFailed"))
      BY <1>1, <2>4 DEF ReadForFailure, Final
    <3> QED
      BY <2>1, <3>1, GoesTo
  <2> QED
    BY <2>2, <2>3, <2>4 DEF Final
<1>2. CASE MarkFailed(w) /\ decision.status \in Final
  BY <1>2, AfterFailureGoes DEF MarkFailed, Quiet
<1>3. CASE MarkFailed(w) /\ decision.status \notin Final
  <2>1. decision'.status = "FAILED_TERMINAL" /\ Becomes(w, To(w, "release"))
    BY <1>3 DEF MarkFailed, Core, DecisionMatches, Decision
  <2> QED
    BY <1>3, <2>1, GoesTo DEF MarkFailed, Final, Quiet
<1> QED
  BY <1>1, <1>2, <1>3

\* The steps of the anchor stay with it.
LEMMA AnchorGoes ==
    ASSUME Core, NEW w \in Jobs, Claim(w) \/ SubmitAnchor(w) \/ ResolveAnchor(w)
    PROVE  job[w].at \in Anchoring /\ job'[w].at \in {"rest", "submit", "confirm", "failAnchor"}
<1>1. CASE Claim(w)
  BY <1>1, GoesTo, GoesToRest DEF Claim, Anchoring
<1>2. CASE SubmitAnchor(w)
  <2>1. PICK at \in {"confirm", "failAnchor"} : Becomes(w, To(w, at))
    BY <1>2 DEF SubmitAnchor
  <2> QED
    BY <1>2, <2>1, GoesTo DEF SubmitAnchor, Anchoring
<1>3. CASE ResolveAnchor(w)
  BY <1>3, GoesToRest DEF ResolveAnchor, Anchoring
<1> QED
  BY <1>1, <1>2, <1>3

\* The other requests stay where they are.
LEMMA OthersStay ==
    ASSUME Core, NEW w \in Jobs, JobStep(w)
    PROVE  DOMAIN job' = Jobs /\ \A v \in Jobs \ {w} : job'[v] = job[v]
<1>1. \E next : Becomes(w, next)
  BY DEF JobStep, OpenReconcileHttp, OpenReconcileMcp, OpenRevoke, Reconciles, TurnsToAnchor,
         Observe, AppendAttempt, Renumber, MarkSettled, SettleHoldRow, MarkExpiryCheck,
         ReadForFailure, MarkFailed, ReleaseHoldRow, Refresh, Claim, SubmitAnchor, ResolveAnchor,
         StopJob
<1> QED
  BY <1>1, Becoming DEF Core, JobsMatch

-----------------------------------------------------------------------------
(* Claims: one request per row that stands submitted, and one per takeover *)

\* Jobs are finitely many, so those that submit are.
LEMMA SubmittersFinite ==
    IsFiniteSet(Submitters) /\ IsFiniteSet(Submitters')
    /\ Cardinality(Submitters) \in Nat /\ Cardinality(Submitters') \in Nat
<1>1. IsFiniteSet(Jobs) /\ Submitters \subseteq Jobs /\ Submitters' \subseteq Jobs
  BY SettlementAssumption DEF Submitters
<1> QED
  BY <1>1, FS_Subset, FS_CardinalityType

\* A job that stops submitting cannot break the count.
LEMMA FewerSubmitters ==
    ASSUME ClaimsMatch, Submitters' \subseteq Submitters, UNCHANGED takeovers,
           Outstanding' = Outstanding
    PROVE  ClaimsMatch'
<1>1. PICK m \in Nat, k \in Nat : m = Cardinality(Submitters) /\ k = Cardinality(Submitters')
  BY SubmittersFinite
<1>2. k <= m
  BY <1>1, SubmittersFinite, FS_Subset
<1>3. PICK o \in {0, 1} : o = Outstanding /\ o = Outstanding'
  BY DEF Outstanding
<1> QED
  BY <1>1, <1>2, <1>3 DEF ClaimsMatch

\* There is one hash to anchor.
LEMMA OneHash ==
    ASSUME Core, NEW h, IsTheHash(h)
    PROVE  /\ \A k \in DOMAIN anchors : k = h
           /\ Outstanding = IF h \in DOMAIN anchors /\ anchors[h].status = "submitted" THEN 1 ELSE 0
<1>1. \A k \in DOMAIN anchors : k = h
  BY DEF Core, AnchorsMatch, IsTheHash
<1> QED
  BY <1>1 DEF Outstanding

\* A claim is won once, or taken over from one that was left.
LEMMA ClaimCounts ==
    ASSUME Core, Core', ClaimsMatch, NEW w \in Jobs, Claim(w)
    PROVE  ClaimsMatch'
<1> DEFINE h == job[w].hash
<1>0. /\ job[w].at = "claim" /\ IsTheHash(h) /\ UNCHANGED decision
      /\ \A v \in Jobs \ {w} : job'[v] = job[v]
  BY OthersStay DEF Core, JobsMatch, JobMatches, Claim, Anchoring, JobStep
<1>1. CASE Becomes(w, Resting) /\ UNCHANGED <<anchors, takeovers>>
  <2>1. job'[w].at = "rest"
    BY <1>1, GoesToRest
  <2>2. Submitters' \subseteq Submitters
    BY <1>0, <2>1 DEF Submitters
  <2>3. Outstanding' = Outstanding
    BY <1>1 DEF Outstanding
  <2> QED
    BY <1>1, <2>2, <2>3, FewerSubmitters
<1>2. CASE /\ MayClaim(h) /\ Becomes(w, To(w, "submit"))
           /\ SetAnchor(h, [status |-> "submitted", recent |-> TRUE])
           /\ takeovers' = takeovers + IF Stale(h) THEN 1 ELSE 0
  <2>1. job'[w].at = "submit"
    BY <1>2, GoesTo
  <2>2. Submitters' = Submitters \cup {w} /\ w \notin Submitters
    BY <1>0, <2>1 DEF Submitters
  <2>3. PICK m \in Nat : m = Cardinality(Submitters)
    BY SubmittersFinite
  <2>4. Cardinality(Submitters') = m + 1
    BY <2>2, <2>3, SubmittersFinite, FS_AddElement
  <2>5. h \in DOMAIN anchors' /\ anchors'[h].status = "submitted"
    <3>1. PICK r : r.status = "submitted" /\ SetAnchor(h, r)
      BY <1>2
    <3> HIDE DEF h
    <3>2. h \in DOMAIN anchors' /\ anchors'[h] = r
      BY <3>1, SettingAnchor
    <3> QED
      BY <3>1, <3>2
  <2>6. Outstanding' = 1
    BY <2>5 DEF Outstanding
  <2>7. m <= takeovers + Outstanding /\ takeovers \in Nat
    BY <2>3 DEF ClaimsMatch
  <2>8. CASE Stale(h)
    <3>1. Outstanding = 1
      BY <2>8 DEF Stale, Outstanding
    <3> QED
      BY <1>2, <2>3, <2>4, <2>6, <2>7, <2>8, <3>1 DEF ClaimsMatch
  <2>9. CASE ~Stale(h)
    <3>1. Outstanding = 0
      BY <1>0, <1>2, <2>9, OneHash DEF MayClaim, Stale
    <3> QED
      BY <1>2, <2>3, <2>4, <2>6, <2>7, <2>9, <3>1 DEF ClaimsMatch
  <2> QED
    BY <2>8, <2>9
<1> QED
  BY <1>1, <1>2 DEF Claim

\* A resolved anchor has no submitter left to count.
LEMMA ResolveCounts ==
    ASSUME Core, ClaimsMatch, NEW w \in Jobs, ResolveAnchor(w)
    PROVE  ClaimsMatch'
<1> DEFINE h == job[w].hash
<1>0. /\ job[w].at \in Submitting /\ IsTheHash(h) /\ h \in DOMAIN anchors
      /\ job'[w].at = "rest" /\ UNCHANGED takeovers
      /\ \A v \in Jobs \ {w} : job'[v] = job[v]
  BY OthersStay, GoesToRest
  DEF Core, JobsMatch, JobMatches, ResolveAnchor, Anchoring, Submitting, JobStep, history
<1>1. w \in Submitters /\ Submitters' = Submitters \ {w}
  BY <1>0 DEF Submitters, Submitting
<1>2. CASE UNCHANGED anchors
  <2>1. Outstanding' = Outstanding
    BY <1>2 DEF Outstanding
  <2> QED
    BY <1>0, <1>1, <2>1, FewerSubmitters
<1>3. CASE anchors[h].status = "submitted"
  <2>1. PICK r : r.status \in {"confirmed", "failed"} /\ SetAnchor(h, r)
    BY <1>3 DEF ResolveAnchor
  <2>2. /\ DOMAIN anchors' = DOMAIN anchors /\ anchors'[h].status # "submitted"
        /\ \A k \in DOMAIN anchors : k = h
    <3>1. DOMAIN anchors' = DOMAIN anchors \cup {h} /\ anchors'[h] = r
      BY <2>1, SettingAnchor
    <3>2. \A k \in DOMAIN anchors : k = h
      BY <1>0, OneHash
    <3> QED
      BY <1>0, <2>1, <3>1, <3>2
  <2>3. Outstanding' = 0 /\ Outstanding = 1
    BY <1>0, <1>3, <2>2 DEF Outstanding
  <2>4. PICK m \in Nat : m = Cardinality(Submitters)
    BY SubmittersFinite
  <2>5. Cardinality(Submitters') = m - 1
    BY <1>1, <2>4, SubmittersFinite, FS_RemoveElement
  <2> QED
    BY <1>0, <2>3, <2>4, <2>5 DEF ClaimsMatch
<1> QED
  BY <1>2, <1>3 DEF ResolveAnchor

\* Every step keeps the count of submitters.
LEMMA ClaimsStep ==
    ASSUME Core, Core', ClaimsMatch, [SettlementNext]_settlementVars
    PROVE  ClaimsMatch'
<1>1. CASE UNCHANGED <<job, anchors, takeovers>>
  BY <1>1 DEF ClaimsMatch, Submitters, Outstanding
<1>2. ASSUME NEW w \in Jobs, JobStep(w)
      PROVE  ClaimsMatch'
  <2>0. \A v \in Jobs \ {w} : job'[v] = job[v]
    BY <1>2, OthersStay
  <2>1. CASE Claim(w)
    BY <2>1, ClaimCounts
  <2>2. CASE ResolveAnchor(w)
    BY <2>2, ResolveCounts
  <2>3. CASE SubmitAnchor(w)
    <3>1. w \in Submitters /\ UNCHANGED <<anchors, takeovers>>
      BY <2>3 DEF SubmitAnchor, Submitters, history
    <3>2. Submitters' \subseteq Submitters
      BY <2>0, <3>1 DEF Submitters
    <3> QED
      BY <3>1, <3>2, FewerSubmitters DEF Outstanding
  <2>4. ASSUME ~Claim(w), ~ResolveAnchor(w), ~SubmitAnchor(w)
        PROVE  job'[w].at \notin Submitting /\ UNCHANGED <<anchors, takeovers>>
    <3>1. CASE \/ \E header \in CasperNets : OpenReconcileHttp(w, header)
               \/ OpenReconcileMcp(w) \/ OpenRevoke(w)
      <4>1. UNCHANGED <<anchors, takeovers>>
        BY <3>1 DEF OpenReconcileHttp, OpenReconcileMcp, OpenRevoke, Reconciles, history
      <4> QED
        BY <3>1, <4>1, OpenGoes DEF Quiet, Observing, Submitting
    <3>2. CASE Observe(w)
      BY <3>2, ObserveGoes DEF Observe, Submitting, history
    <3>3. CASE AppendAttempt(w) \/ Renumber(w)
      BY <3>3, AttemptGoes DEF AppendAttempt, Renumber, Submitting, history
    <3>4. CASE MarkSettled(w)
      BY <3>4, SettledGoes DEF MarkSettled, Quiet, Submitting, history
    <3>5. CASE SettleHoldRow(w) \/ MarkExpiryCheck(w) \/ ReleaseHoldRow(w) \/ Refresh(w)
      BY <3>5, QuietGoes
      DEF SettleHoldRow, MarkExpiryCheck, ReleaseHoldRow, Refresh, Quiet, Submitting, history
    <3>6. CASE ReadForFailure(w) \/ MarkFailed(w)
      BY <3>6, FailGoes DEF ReadForFailure, MarkFailed, Quiet, Submitting, history
    <3>7. CASE StopJob(w)
      BY <3>7, GoesToRest DEF StopJob, Submitting
    <3> QED
      BY <1>2, <2>4, <3>1, <3>2, <3>3, <3>4, <3>5, <3>6, <3>7 DEF JobStep
  <2>5. CASE ~Claim(w) /\ ~ResolveAnchor(w) /\ ~SubmitAnchor(w)
    <3>1. Submitters' \subseteq Submitters
      BY <2>0, <2>4, <2>5 DEF Submitters, Submitting
    <3> QED
      BY <2>4, <2>5, <3>1, FewerSubmitters DEF Outstanding
  <2> QED
    BY <2>1, <2>2, <2>3, <2>5
<1>3. ASSUME NEW h \in Hashes, AnchorAges(h)
      PROVE  ClaimsMatch'
  <2>1. /\ h \in DOMAIN anchors /\ UNCHANGED <<job, takeovers>>
        /\ SetAnchor(h, [anchors[h] EXCEPT !.recent = FALSE])
        /\ anchors[h] \in [status : {"submitted", "confirmed", "failed"}, recent : BOOLEAN]
    BY <1>3 DEF AnchorAges, history, Core, AnchorsMatch
  <2>2. [anchors[h] EXCEPT !.recent = FALSE].status = anchors[h].status
    BY <2>1
  <2>3. DOMAIN anchors' = DOMAIN anchors
        /\ \A k \in DOMAIN anchors : anchors'[k].status = anchors[k].status
    <3>1. PICK r : r = [anchors[h] EXCEPT !.recent = FALSE]
      OBVIOUS
    <3>2. /\ DOMAIN anchors' = DOMAIN anchors \cup {h} /\ anchors'[h] = r
          /\ \A k \in DOMAIN anchors \ {h} : anchors'[k] = anchors[k]
      BY <2>1, <3>1, SettingAnchor
    <3> QED
      BY <2>1, <2>2, <3>1, <3>2
  <2> QED
    BY <2>1, <2>3 DEF ClaimsMatch, Submitters, Outstanding
<1>4. CASE \/ \E header \in CasperNets : AuthorizeX402(header) \/ AuthorizeAction(header)
           \/ AuthorizeMcp \/ MarkSigned
  <2>1. UNCHANGED <<job, anchors, takeovers>>
    BY <1>4 DEF AuthorizeX402, AuthorizeAction, AuthorizeMcp, Authorized, MarkSigned, history
  <2> QED
    BY <1>1, <2>1
<1>5. CASE UNCHANGED settlementVars
  BY <1>1, <1>5 DEF settlementVars, history
<1> QED
  BY <1>2, <1>3, <1>4, <1>5 DEF SettlementNext

-----------------------------------------------------------------------------
(* Moves: who knows of the execution                                       *)

Looking(x) ==
    \/ x.at \in {"observe", "observeMcp", "attempt", "renumber", "markSettled"}
    \/ x.at \in {"fail", "markFailed"} /\ x.obs = "failed"

\* The observers are the jobs that look.
LEMMA ObserversLook ==
    /\ \A v \in Jobs : v \in Observers <=> Looking(job[v])
    /\ \A v \in Jobs : v \in Observers' <=> Looking(job'[v])
    /\ Observers \subseteq Jobs /\ Observers' \subseteq Jobs
  BY DEF Observers, Looking

\* A request stops looking only when the row is closed, nothing was executed or the look was in
\* vain.
LEMMA MovesKept ==
    ASSUME MovesMatch, NEW w \in Jobs, \A v \in Jobs \ {w} : job'[v] = job[v],
           UNCHANGED <<moved, net>>, crossed => crossed',
           decision.status \in Final => decision'.status \in Final,
           Looking(job'[w]) => /\ Looking(job[w]) /\ job[w].at \notin Observing
                               /\ job'[w].at \notin Observing /\ job'[w].obs = job[w].obs,
           Looking(job[w]) => \/ Looking(job'[w]) \/ crossed' \/ decision'.status \in Final
                              \/ job[w].at \notin Observing /\ job[w].obs = "pending"
    PROVE  MovesMatch'
<1>1. Total' = Total
  BY DEF Total
<1>2. CASE crossed'
  BY <1>2 DEF MovesMatch
<1>3. CASE ~crossed'
  <2>1. /\ \A u, v \in Observers : u = v
        /\ Total \in {0, 1}
        /\ \A v \in Observers : job[v].at \in Observing => Total = 0
    BY <1>3 DEF MovesMatch
  <2>2. Observers' \subseteq Observers
    BY ObserversLook
  <2>3. \A v \in Observers' : job'[v].at \in Observing => Total = 0
    BY <2>1, <2>2, ObserversLook
  <2>4. ASSUME Total = 1
        PROVE  \/ decision'.status \in Final
               \/ \E v \in Observers' :
                     job'[v].at \notin Observing /\ job'[v].obs \in {"settled", "failed"}
    <3>1. CASE decision.status \in Final
      BY <3>1
    <3>2. CASE decision.status \notin Final
      <4>1. PICK v \in Observers :
               job[v].at \notin Observing /\ job[v].obs \in {"settled", "failed"}
        BY <1>3, <2>4, <3>2 DEF MovesMatch
      <4>2. CASE v # w
        BY <4>1, <4>2, ObserversLook
      <4>3. CASE v = w
        BY <1>3, <4>1, <4>3, ObserversLook
      <4> QED
        BY <4>2, <4>3
    <3> QED
      BY <3>1, <3>2
  <2> QED
    BY <1>1, <2>1, <2>2, <2>3, <2>4 DEF MovesMatch
<1> QED
  BY <1>2, <1>3

\* A request starts to look: whatever was executed by then is recorded, so nothing was.
LEMMA OpeningMoves ==
    ASSUME MovesMatch, NEW w \in Jobs, \A v \in Jobs \ {w} : job'[v] = job[v],
           UNCHANGED <<moved, net, decision>>, job[w].at = "rest", job'[w].at \in Observing,
           decision.status \notin Final, crossed' = (crossed \/ Observers # {})
    PROVE  MovesMatch'
<1>1. Total' = Total
  BY DEF Total
<1>2. CASE crossed'
  BY <1>2 DEF MovesMatch
<1>3. CASE ~crossed'
  <2>1. Observers = {} /\ Total = 0
    BY <1>3 DEF MovesMatch
  <2>2. Observers' \subseteq {w}
    BY <2>1, ObserversLook
  <2> QED
    BY <1>1, <2>1, <2>2 DEF MovesMatch
<1> QED
  BY <1>2, <1>3

\* The reader executes the payment on one network.
LEMMA ExecutesHere ==
    ASSUME Core, net \in CasperNets, NEW w \in Jobs
    PROVE  Executes(w) \subseteq CasperNets
<1>1. job[w].slot \in CasperNets
  BY DEF Core, JobsMatch, JobMatches, JobRecord
<1> QED
  BY <1>1 DEF Executes, Swaps, Redeems, TradeClient, NetworkOfSlot

\* A look moves the payment once, unless another crossed it.
LEMMA ObservingMoves ==
    ASSUME Core, MovesMatch, NEW w \in Jobs, Observe(w)
    PROVE  MovesMatch'
<1>1. /\ job[w].at \in Observing /\ job'[w].at = "attempt"
      /\ UNCHANGED moved \/ job'[w].obs \in {"settled", "failed"}
      /\ \A v \in Jobs \ {w} : job'[v] = job[v]
      /\ UNCHANGED <<net, decision, crossed>>
  BY ObserveGoes, OthersStay DEF Observe, JobStep, config, history
<1>2. Observers' = Observers /\ w \in Observers
  BY <1>1, ObserversLook DEF Looking, Observing
<1>3. moved' \in [CasperNets -> 0 .. 2]
  <2>1. moved \in [CasperNets -> 0 .. 2]
    BY DEF MovesMatch
  <2>2. ASSUME NEW n \in Executes(w), moved' = [moved EXCEPT ![n] = IF @ = 2 THEN 2 ELSE @ + 1]
        PROVE  moved' \in [CasperNets -> 0 .. 2]
    <3>1. n \in CasperNets
      BY ExecutesHere DEF MovesMatch
    <3>2. PICK m \in 0 .. 2 : m = moved[n]
      BY <2>1, <3>1
    <3>3. PICK k \in 0 .. 2 : k = IF m = 2 THEN 2 ELSE m + 1
      BY <3>2
    <3>4. moved' = [moved EXCEPT ![n] = k]
      BY <2>2, <3>2, <3>3
    <3> QED
      BY <2>1, <3>1, <3>4
  <2> QED
    BY <2>1, <2>2 DEF Observe
<1>4. CASE crossed
  BY <1>1, <1>3, <1>4 DEF MovesMatch
<1>5. CASE ~crossed
  <2>1. Total = 0 /\ \A v \in Observers : v = w
    BY <1>1, <1>2, <1>5 DEF MovesMatch
  <2>2. moved["test"] = 0 /\ moved["main"] = 0 /\ moved \in [CasperNets -> 0 .. 2]
    <3>1. moved \in [CasperNets -> 0 .. 2]
      BY DEF MovesMatch
    <3>2. PICK a \in 0 .. 2, b \in 0 .. 2 : a = moved["test"] /\ b = moved["main"]
      BY <3>1 DEF CasperNets
    <3> QED
      BY <2>1, <3>1, <3>2 DEF Total
  <2>3. CASE UNCHANGED moved
    BY <1>1, <1>2, <1>3, <2>1, <2>3 DEF MovesMatch, Total, Observing
  <2>4. ASSUME NEW n \in Executes(w), moved' = [moved EXCEPT ![n] = IF @ = 2 THEN 2 ELSE @ + 1]
        PROVE  Total' = 1
    <3>1. n \in {"test", "main"}
      BY ExecutesHere DEF MovesMatch, CasperNets
    <3> QED
      BY <2>2, <2>4, <3>1 DEF Total, CasperNets
  <2>5. CASE Total' = 1 /\ job'[w].obs \in {"settled", "failed"}
    <3>1. \A v \in Observers' : job'[v].at \notin Observing
      BY <1>1, <1>2, <2>1 DEF Observing
    <3> QED
      BY <1>1, <1>2, <1>3, <2>1, <2>5, <3>1 DEF MovesMatch
  <2> QED
    BY <1>1, <2>3, <2>4, <2>5 DEF Observe
<1> QED
  BY <1>4, <1>5

\* A closed row stays closed.
LEMMA FinalStays ==
    ASSUME Core, [SettlementNext]_settlementVars, decision.status \in Final
    PROVE  UNCHANGED decision
<1>1. CASE UNCHANGED settlementVars
  BY <1>1 DEF settlementVars
<1>2. CASE \/ \E header \in CasperNets : AuthorizeX402(header) \/ AuthorizeAction(header)
           \/ AuthorizeMcp \/ MarkSigned
  BY <1>2 DEF AuthorizeX402, AuthorizeAction, AuthorizeMcp, Authorized, MarkSigned, Final
<1>3. ASSUME NEW w \in Jobs, JobStep(w)
      PROVE  UNCHANGED decision
  BY <1>3
  DEF JobStep, OpenReconcileHttp, OpenReconcileMcp, OpenRevoke, Reconciles, Observe,
      AppendAttempt, Renumber, MarkSettled, CanSettle, SettleHoldRow, MarkExpiryCheck,
      ReadForFailure, MarkFailed, ReleaseHoldRow, Refresh, Claim, SubmitAnchor, ResolveAnchor,
      StopJob, Final
<1>4. CASE \E h \in Hashes : AnchorAges(h)
  BY <1>4 DEF AnchorAges
<1> QED
  BY <1>1, <1>2, <1>3, <1>4 DEF SettlementNext

\* Every step keeps the count of moves.
LEMMA MovesStep ==
    ASSUME Core, MovesMatch, [SettlementNext]_settlementVars
    PROVE  MovesMatch'
<1>0. decision.status \in Final => decision'.status \in Final
  BY FinalStays
<1>1. CASE UNCHANGED <<job, moved, net, crossed>>
  BY <1>0, <1>1 DEF MovesMatch, Observers, Total
<1>2. ASSUME NEW w \in Jobs, JobStep(w)
      PROVE  MovesMatch'
  <2>0. \A v \in Jobs \ {w} : job'[v] = job[v]
    BY <1>2, OthersStay
  <2>1. CASE Observe(w)
    BY <2>1, ObservingMoves
  <2>2. CASE \/ \E header \in CasperNets : OpenReconcileHttp(w, header)
             \/ OpenReconcileMcp(w) \/ OpenRevoke(w)
    <3>1. UNCHANGED <<moved, net, decision>>
      BY <2>2 DEF OpenReconcileHttp, OpenReconcileMcp, OpenRevoke, Reconciles, config, chain
    <3>2. ~Looking(job[w]) /\ job[w].at = "rest"
      BY <2>2, OpenGoes DEF Looking
    <3>3. CASE ~Looking(job'[w]) /\ (crossed => crossed')
      BY <1>0, <2>0, <3>1, <3>2, <3>3, MovesKept
    <3>4. CASE /\ job'[w].at \in Observing /\ decision.status \notin Final
               /\ crossed' = (crossed \/ Observers # {})
      BY <2>0, <3>1, <3>2, <3>4, OpeningMoves
    <3> QED
      BY <2>2, <3>3, <3>4, OpenGoes DEF Looking, Quiet
  <2>3. CASE AppendAttempt(w) \/ Renumber(w)
    <3>1. UNCHANGED <<moved, net>>
      BY <2>3 DEF AppendAttempt, Renumber, config, chain
    <3>2. job[w].at \in {"attempt", "renumber"}
          /\ \/ job'[w].at = "rest" /\ crossed'
             \/ /\ crossed => crossed'
                /\ job'[w].obs = job[w].obs
                /\ \/ job'[w].at \in {"attempt", "renumber"}
                   \/ job[w].obs = "settled" /\ job'[w].at = "markSettled"
                   \/ job[w].obs = "pending" /\ job'[w].at = "markExpiry"
                   \/ job[w].obs = "failed" /\ job'[w].at = "fail"
      BY <2>3, AttemptGoes
    <3>3. /\ Looking(job[w]) /\ job[w].at \notin Observing
          /\ Looking(job'[w]) => job'[w].at \notin Observing /\ job'[w].obs = job[w].obs
          /\ Looking(job'[w]) \/ crossed' \/ job[w].obs = "pending"
          /\ crossed => crossed'
      BY <3>2 DEF Looking, Observing
    <3> QED
      BY <1>0, <2>0, <3>1, <3>3, MovesKept
  <2>4. CASE MarkSettled(w)
    <3>1. UNCHANGED <<moved, net, crossed>>
      BY <2>4 DEF MarkSettled, config, chain, history
    <3>2. ~Looking(job'[w]) /\ decision'.status \in Final
      BY <2>4, SettledGoes DEF Looking, Quiet
    <3> QED
      BY <1>0, <2>0, <3>1, <3>2, MovesKept
  <2>5. CASE SettleHoldRow(w) \/ MarkExpiryCheck(w) \/ ReleaseHoldRow(w) \/ Refresh(w)
    <3>1. UNCHANGED <<moved, net, crossed>>
      BY <2>5 DEF SettleHoldRow, MarkExpiryCheck, ReleaseHoldRow, Refresh, config, chain, history
    <3>2. ~Looking(job[w]) /\ ~Looking(job'[w])
      BY <2>5, QuietGoes DEF Looking, Quiet
    <3> QED
      BY <1>0, <2>0, <3>1, <3>2, MovesKept
  <2>6. CASE ReadForFailure(w) \/ MarkFailed(w)
    <3>1. UNCHANGED <<moved, net, crossed>>
      BY <2>6 DEF ReadForFailure, MarkFailed, config, chain, history
    <3>2. /\ job[w].at \in {"fail", "markFailed"}
          /\ \/ job'[w].at \in Quiet /\ decision'.status \in Final
             \/ job'[w].at = "markFailed" /\ job'[w].obs = job[w].obs
      BY <2>6, FailGoes
    <3>3. /\ Looking(job'[w]) => /\ Looking(job[w]) /\ job[w].at \notin Observing
                                 /\ job'[w].at \notin Observing /\ job'[w].obs = job[w].obs
          /\ Looking(job[w]) => Looking(job'[w]) \/ decision'.status \in Final
      BY <3>2 DEF Looking, Quiet, Observing
    <3> QED
      BY <1>0, <2>0, <3>1, <3>3, MovesKept
  <2>7. CASE Claim(w) \/ SubmitAnchor(w) \/ ResolveAnchor(w)
    <3>1. UNCHANGED <<moved, net, crossed>>
      BY <2>7 DEF Claim, SubmitAnchor, ResolveAnchor, config, chain, history
    <3>2. ~Looking(job[w]) /\ ~Looking(job'[w])
      BY <2>7, AnchorGoes DEF Looking, Anchoring
    <3> QED
      BY <1>0, <2>0, <3>1, <3>2, MovesKept
  <2>8. CASE StopJob(w)
    <3>1. UNCHANGED <<moved, net>> /\ crossed' = (crossed \/ w \in Observers)
      BY <2>8 DEF StopJob, config, chain
    <3>2. ~Looking(job'[w]) /\ (Looking(job[w]) => crossed')
      BY <2>8, <3>1, GoesToRest, ObserversLook DEF StopJob, Looking
    <3> QED
      BY <1>0, <2>0, <3>1, <3>2, MovesKept
  <2> QED
    BY <1>2, <2>1, <2>2, <2>3, <2>4, <2>5, <2>6, <2>7, <2>8 DEF JobStep
<1>3. CASE \/ \E header \in CasperNets : AuthorizeX402(header) \/ AuthorizeAction(header)
           \/ AuthorizeMcp \/ MarkSigned \/ \E h \in Hashes : AnchorAges(h)
           \/ UNCHANGED settlementVars
  <2>1. UNCHANGED <<job, moved, net, crossed>>
    BY <1>3 DEF AuthorizeX402, AuthorizeAction, AuthorizeMcp, Authorized, MarkSigned, AnchorAges,
                settlementVars, config, chain, history
  <2> QED
    BY <1>1, <2>1
<1> QED
  BY <1>2, <1>3 DEF SettlementNext

-----------------------------------------------------------------------------
(* The theorems                                                            *)

\* No attempt, no anchor and every job at rest at first.
LEMMA InitHolds ==
    ASSUME SettlementInit
    PROVE  IInv
<1>1. decision \in Decision /\ decision.status = "none" /\ ~decision.signed /\ held = "none"
  BY DEF SettlementInit, Decision
<1>2. DecisionMatches
  BY <1>1 DEF DecisionMatches
<1>3. AttemptsMatch
  <2>1. attempts = {} /\ Cardinality({}) = 0 /\ IsFiniteSet({})
    BY FS_EmptySet DEF SettlementInit
  <2>2. Numbers = {} /\ 1 .. 0 = {}
    BY <2>1 DEF Numbers
  <2> QED
    BY <1>1, <2>1, <2>2 DEF AttemptsMatch
<1>4. AnchorsMatch /\ DOMAIN anchors = {}
  BY RestingRecord DEF SettlementInit, AnchorsMatch
<1>5. \A w \in Jobs : job[w] = Resting
  BY DEF SettlementInit
<1>6. JobsMatch
  BY <1>5, RestingRecord
  DEF SettlementInit, JobsMatch, JobMatches, Exactly, Observing, Anchoring, Submitting
<1>7. Submitters = {} /\ Observers = {}
  BY <1>5, RestingRecord DEF Submitters, Observers, Exactly
<1>8. ClaimsMatch
  BY <1>4, <1>7, FS_EmptySet DEF SettlementInit, ClaimsMatch, Outstanding
<1>9. MovesMatch
  <2>1. moved \in [CasperNets -> 0 .. 2] /\ moved["test"] = 0 /\ moved["main"] = 0
    BY DEF SettlementInit, CasperNets
  <2> QED
    BY <1>7, <2>1 DEF SettlementInit, MovesMatch, Total
<1> QED
  BY <1>2, <1>3, <1>4, <1>6, <1>8, <1>9 DEF IInv, Core

\* IInv is an invariant of the settlement of one decision.
THEOREM Invariance == SettlementSpec => []IInv
<1>1. SettlementInit => IInv
  BY InitHolds
<1>2. IInv /\ [SettlementNext]_settlementVars => IInv'
  BY CoreStep, ClaimsStep, MovesStep DEF IInv
<1> QED
  BY <1>1, <1>2, PTL DEF SettlementSpec

\* What is anchored is the hash of the settled row, on every network and in every anchor row, and
\* the contract refuses no anchor.
THEOREM AnchorsHold == SettlementSpec => []AnchorsAgree
<1>1. IInv => AnchorsAgree
  <2> SUFFICES ASSUME IInv
               PROVE  AnchorsAgree
    OBVIOUS
  <2>1. DecisionMatches /\ AnchorsMatch /\ JobsMatch /\ MovesMatch
    BY DEF IInv, Core
  <2>2. held \in {"none", "RESERVED", "SETTLED", "RELEASED"}
    BY <2>1 DEF DecisionMatches, Decision, Final
  <2>3. DOMAIN Resting = {"at", "slot", "hash", "obs", "tx", "n", "tries", "then"}
    BY DEF Resting
  <2>4. \A w \in Jobs : DOMAIN job[w] = DOMAIN Resting
    BY <2>1, <2>3 DEF JobsMatch, JobMatches, JobRecord
  <2>5. \A h \in DOMAIN anchors :
           h \in Hashes /\ anchors[h].status \in {"submitted", "confirmed", "failed"}
    BY <2>1 DEF AnchorsMatch
  <2>6. SettlementTypeOK
    <3>1. decision \in Decision /\ moved \in [CasperNets -> 0 .. 2]
          /\ registry \in [CasperNets -> Hashes]
      BY <2>1 DEF DecisionMatches, MovesMatch, AnchorsMatch
    <3> QED
      BY <2>2, <2>4, <2>5, <3>1 DEF SettlementTypeOK, Decision
  <2> QED
    BY <2>1, <2>6 DEF AnchorsAgree, AnchorsMatch, IsTheHash
<1> QED
  BY <1>1, Invariance, PTL

\* At most one request submits the anchor, and one more for every claim that went stale.
THEOREM SubmittersAreClaimed == SettlementSpec => []OneSubmitter
<1>1. IInv => OneSubmitter
  <2> SUFFICES ASSUME IInv
               PROVE  OneSubmitter
    OBVIOUS
  <2>1. PICK m \in Nat, o \in {0, 1} : m = Cardinality(Submitters) /\ o = Outstanding
    BY SubmittersFinite DEF Outstanding
  <2> QED
    BY <2>1 DEF IInv, ClaimsMatch, OneSubmitter
<1> QED
  BY <1>1, Invariance, PTL

\* Attempts are numbered without a gap, and a settled row has the attempt that settled it.
THEOREM AttemptsComeFirst == SettlementSpec => []AttemptsPrecedeEffects
<1>1. IInv => AttemptsPrecedeEffects
  BY DEF IInv, Core, AttemptsMatch, ObservedSettled, AttemptsPrecedeEffects
<1> QED
  BY <1>1, Invariance, PTL

\* A payment is executed once, on one network, unless two requests observed it together or one of
\* them observed in vain.
THEOREM ExecutedOnce == SettlementSpec => []MovedOnce
<1>1. IInv => MovedOnce
  BY DEF IInv, MovesMatch, MovedOnce, Total
<1> QED
  BY <1>1, Invariance, PTL
=============================================================================
