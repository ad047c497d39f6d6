---------------------------- MODULE MagiRunProofs -----------------------------
(***************************************************************************)
(* Proofs about MagiRun, for every set of mages, every join order and      *)
(* every quorum.                                                           *)
(***************************************************************************)
EXTENDS MagiRun, RotationProofs

-----------------------------------------------------------------------------
(* A run is a run of its mages.                                             *)

\* Every step of a run is a step of Rotation or leaves the mages alone, so what is proved
\* about Rotation holds in every run.
THEOREM RunRunsMages == RunSpec => Spec
<1>1. RunInit => Init
  BY DEF RunInit
<1>2. [RunNext]_allVars => [Next]_vars
  BY DEF RunNext, allVars, Next, Mage, AbortLeftOver, JoinStep, Join, ResolveCrateDefect,
         ResolveEndpointDown, AbortEndpointDown, Finish, Cancel
<1> QED
  BY <1>1, <1>2, PTL DEF RunSpec, Spec

-----------------------------------------------------------------------------
(* What a mage's step means for the run.                                    *)

\* A mage that ended stays as it ended.
LEMMA DoneIsFinal ==
  ASSUME TypeOK, NEW s \in Seat, Step(s), NEW t \in Seat, pc[t] = "done"
  PROVE  pc'[t] = "done" /\ result'[t] = result[t]
<1>1. CASE t # s
  BY <1>1, OthersUntouched
<1>2. CASE t = s
  <2>1. DetachedRelease(s)
    BY <1>2 DEF Step, MageStep, Attempt, AttemptSucceeds, AttemptFailsLocally,
                AttemptFailsInTransport, AttemptShowsCrateDefect, RegisterTransportFailure,
                ClaimsNext, FindsNoCandidate, ReleaseExhausted, ReleaseDefective,
                LatchCrateDefect, Panic, Abort, GoTo
  <2> QED
    BY <2>1, <1>2 DEF DetachedRelease
<1> QED
  BY <1>1, <1>2

\* The crate-defect latch is set once, by a mage that ends with that step.
LEMMA DefectStep ==
  ASSUME TypeOK, NEW s \in Seat, Step(s)
  PROVE  \/ crateDefect' = crateDefect
         \/ /\ crateDefect = NoSeat /\ crateDefect' = s
            /\ pc[s] # "done" /\ pc'[s] = "done" /\ result'[s] = "failed"
<1> USE DEF registry, locals, TypeOK
<1>1. CASE \E outcome_ \in Outcome : Attempt(s, outcome_)
  BY <1>1 DEF Attempt, AttemptSucceeds, AttemptFailsLocally,
              AttemptFailsInTransport, AttemptShowsCrateDefect
<1>2. CASE RegisterTransportFailure(s) \/ ClaimsNext(s) \/ FindsNoCandidate(s)
  BY <1>2 DEF RegisterTransportFailure, ClaimsNext, FindsNoCandidate
<1>3. CASE ReleaseExhausted(s) \/ ReleaseDefective(s)
  BY <1>3 DEF ReleaseExhausted, ReleaseDefective
<1>4. CASE LatchCrateDefect(s)
  BY <1>4 DEF LatchCrateDefect, GoTo
<1>5. CASE Panic(s) \/ Abort(s) \/ DetachedRelease(s)
  BY <1>5 DEF Panic, Abort, Ends, DetachedRelease
<1> QED
  BY <1>1, <1>2, <1>3, <1>4, <1>5 DEF Step, MageStep

\* The endpoint-down latch is never reset, and only a mage still at work sets it.
LEMMA OutageStep ==
  ASSUME TypeOK, NEW s \in Seat, Step(s)
  PROVE  /\ endpointDown => endpointDown'
         /\ runFailed \subseteq runFailed'
         /\ pc[s] = "done" => endpointDown' = endpointDown
<1>1. CASE RegisterTransportFailure(s)
  BY <1>1 DEF RegisterTransportFailure, GoTo
<1>2. CASE ~RegisterTransportFailure(s)
  <2> USE DEF registry, locals
  <2>1. CASE \E outcome_ \in Outcome : Attempt(s, outcome_)
    BY <2>1 DEF Attempt, AttemptSucceeds, AttemptFailsLocally,
                AttemptFailsInTransport, AttemptShowsCrateDefect
  <2>2. CASE ClaimsNext(s) \/ FindsNoCandidate(s)
    BY <2>2 DEF ClaimsNext, FindsNoCandidate
  <2>3. CASE ReleaseExhausted(s) \/ ReleaseDefective(s) \/ LatchCrateDefect(s)
    BY <2>3 DEF ReleaseExhausted, ReleaseDefective, LatchCrateDefect
  <2>4. CASE Panic(s) \/ Abort(s) \/ DetachedRelease(s)
    BY <2>4 DEF Panic, Abort, Ends, DetachedRelease
  <2> QED
    BY <1>2, <2>1, <2>2, <2>3, <2>4 DEF Step, MageStep
<1> QED
  BY <1>1, <1>2

\* A mage's end always comes with a result.
LEMMA ResultStep ==
  ASSUME TypeOK, NEW s \in Seat, Step(s), pc[s] = "done" <=> result[s] # "pending"
  PROVE  pc'[s] = "done" <=> result'[s] # "pending"
<1> USE DEF registry, locals, TypeOK, GoTo
<1>1. CASE \E outcome_ \in Outcome : Attempt(s, outcome_)
  <2>1. CASE AttemptSucceeds(s)
    BY <2>1 DEF AttemptSucceeds
  <2>2. CASE AttemptFailsLocally(s)
    BY <2>2 DEF AttemptFailsLocally
  <2>3. ASSUME NEW kind \in {Transport, Connection}, AttemptFailsInTransport(s, kind)
        PROVE  pc'[s] = "register" /\ pc[s] = "attempt" /\ result' = result
    BY <2>3 DEF AttemptFailsInTransport
  <2>4. CASE AttemptShowsCrateDefect(s)
    BY <2>4 DEF AttemptShowsCrateDefect
  <2> QED
    BY <1>1, <2>1, <2>2, <2>3, <2>4 DEF Attempt
<1>2. CASE RegisterTransportFailure(s) \/ ClaimsNext(s) \/ FindsNoCandidate(s)
  BY <1>2 DEF RegisterTransportFailure, ClaimsNext, FindsNoCandidate
<1>3. CASE ReleaseExhausted(s) \/ ReleaseDefective(s) \/ LatchCrateDefect(s)
  BY <1>3 DEF ReleaseExhausted, ReleaseDefective, LatchCrateDefect
<1>4. CASE Panic(s)
  BY <1>4 DEF Panic, Ends
<1>5. CASE Abort(s)
  BY <1>5 DEF Abort, Ends
<1>6. CASE DetachedRelease(s)
  BY <1>6 DEF DetachedRelease
<1> QED
  BY <1>1, <1>2, <1>3, <1>4, <1>5, <1>6 DEF Step, MageStep

\* What a mage does by itself never makes it an aborted one.
LEMMA OwnStep ==
  ASSUME TypeOK, NEW s \in Seat, MageStep(s) \/ DetachedRelease(s), result[s] # "aborted"
  PROVE  result'[s] # "aborted"
<1> USE DEF TypeOK, GoTo
<1>1. CASE \E outcome_ \in Outcome : Attempt(s, outcome_)
  BY <1>1 DEF Attempt, AttemptSucceeds, AttemptFailsLocally, AttemptFailsInTransport,
              AttemptShowsCrateDefect
<1>2. CASE RegisterTransportFailure(s) \/ ClaimsNext(s) \/ FindsNoCandidate(s)
  BY <1>2 DEF RegisterTransportFailure, ClaimsNext, FindsNoCandidate
<1>3. CASE ReleaseExhausted(s) \/ ReleaseDefective(s) \/ LatchCrateDefect(s)
  BY <1>3 DEF ReleaseExhausted, ReleaseDefective, LatchCrateDefect
<1>4. CASE Panic(s)
  BY <1>4 DEF Panic, Ends
<1>5. CASE DetachedRelease(s)
  BY <1>5 DEF DetachedRelease
<1> QED
  BY <1>1, <1>2, <1>3, <1>4, <1>5 DEF MageStep

-----------------------------------------------------------------------------
(* The inductive invariant of the join loop.                                *)

\* The loop has counted exactly the handles it awaited.
JoinTypes ==
  /\ join \in {"await", "defect?", "endpoint?", "lineages"}
  /\ joined \in 0 .. Len(JoinOrder)
  /\ successful \subseteq Seat /\ failed \subseteq Seat
  /\ successful \cup failed = {JoinOrder[i] : i \in 1 .. joined}
  /\ outcome.kind \in {"running", "report", "insufficient", "cancelled",
                       "endpoint_down", "crate_defect"}
  /\ outcome.kind = "running" <=> outcome = Running

\* It counted them as they ended, and nobody is aborted before the run is decided.
Counted ==
  /\ \A s \in successful : result[s] = "ok"
  /\ \A s \in failed : result[s] \in {"failed", "panicked"}
  /\ \A s \in Seat : pc[s] = "done" <=> result[s] # "pending"
  /\ outcome = Running => \A s \in Seat : result[s] # "aborted"

\* The mage that latched a defect has ended, so the check after the last join sees every
\* defect there will ever be.
DefectSeen ==
  /\ crateDefect # NoSeat => pc[crateDefect] = "done" /\ result[crateDefect] = "failed"
  /\ outcome = Running /\ joined = Len(JoinOrder) /\ join # "defect?" => crateDefect = NoSeat

\* Nor can the endpoint-down latch be set behind the last check.
OutageSeen ==
  /\ outcome = Running /\ join = "lineages" => endpointDown /\ ~QuorumReachable
  /\ outcome = Running /\ join = "await" /\ joined = Len(JoinOrder) /\ endpointDown
       => QuorumReachable

\* A run decided by its verdicts is one all of whose mages have ended.
Decided ==
  /\ outcome.kind \in {"report", "insufficient"} => \A s \in Seat : pc[s] = "done"
  /\ ReportIsComplete
  /\ InsufficientIsLastResort
  /\ OutageMeansNoQuorum
  /\ DefectBlamesItsMage

RunInv == JoinTypes /\ Counted /\ DefectSeen /\ OutageSeen /\ Decided

LEMMA RunInvInit == RunInit => RunInv
<1> SUFFICES ASSUME RunInit PROVE RunInv
  OBVIOUS
<1>1. /\ join = "await" /\ joined = 0 /\ successful = {} /\ failed = {}
      /\ outcome = Running /\ crateDefect = NoSeat /\ ~endpointDown
      /\ \A s \in Seat : pc[s] = "attempt" /\ result[s] = "pending"
  BY DEF RunInit, Init
<1>2. Len(JoinOrder) \in Nat
  BY RunAssumption
<1>3. JoinTypes
  BY <1>1, <1>2 DEF JoinTypes, Running
<1>4. Counted /\ DefectSeen
  BY <1>1 DEF Counted, DefectSeen
<1>5. OutageSeen
  BY <1>1 DEF OutageSeen
<1>6. Decided
  BY <1>1 DEF Decided, ReportIsComplete, InsufficientIsLastResort, OutageMeansNoQuorum,
              DefectBlamesItsMage, Running
<1> QED
  BY <1>3, <1>4, <1>5, <1>6 DEF RunInv

\* After the last join every mage was heard.
LEMMA AllHeard ==
  ASSUME JoinTypes, joined = Len(JoinOrder)
  PROVE  successful \cup failed = Seat
<1>1. DOMAIN JoinOrder = 1 .. Len(JoinOrder)
  BY RunAssumption
<1>2. \A s \in Seat : s \in {JoinOrder[i] : i \in 1 .. joined}
  BY <1>1, RunAssumption
<1> QED
  BY <1>2 DEF JoinTypes

\* Sets that share nothing count apart.
LEMMA DisjointUnion ==
  ASSUME NEW S, NEW T, IsFiniteSet(S), IsFiniteSet(T), S \cap T = {}
  PROVE  Cardinality(S \cup T) = Cardinality(S) + Cardinality(T)
<1>1. Cardinality(S \cup T) = Cardinality(S) + Cardinality(T) - Cardinality(S \cap T)
  BY FS_Union
<1>2. Cardinality(S \cap T) = 0
  BY FS_EmptySet
<1>3. Cardinality(S) \in Nat /\ Cardinality(T) \in Nat
  BY FS_CardinalityType
<1> QED
  BY <1>1, <1>2, <1>3

\* The arithmetic of quorum_reachable: what counts is who has not failed.
LEMMA QuorumCounts ==
  ASSUME JoinTypes, Counted
  PROVE  /\ Cardinality(successful) \in Nat
         /\ IsFiniteSet(Seat \ failed) /\ Cardinality(Seat \ failed) \in Nat
         /\ QuorumReachable <=> Cardinality(Seat \ failed) >= MinAgents
<1>1. IsFiniteSet(Seat) /\ IsFiniteSet(successful) /\ IsFiniteSet(failed)
      /\ IsFiniteSet(Seat \ failed)
  BY RotationAssumption, FS_Subset DEF JoinTypes
<1>2. successful \cap failed = {}
  BY DEF Counted
<1>3. Cardinality(successful \cup failed) = Cardinality(successful) + Cardinality(failed)
  BY <1>1, <1>2, DisjointUnion
<1>4. (Seat \ failed) \cup failed = Seat /\ (Seat \ failed) \cap failed = {}
  BY DEF JoinTypes
<1>5. Cardinality(Seat) = Cardinality(Seat \ failed) + Cardinality(failed)
  <2>1. Cardinality((Seat \ failed) \cup failed) = Cardinality(Seat \ failed) + Cardinality(failed)
    BY <1>1, <1>4, DisjointUnion
  <2> QED
    BY <2>1, <1>4
<1>6. /\ Cardinality(successful) \in Nat /\ Cardinality(failed) \in Nat
      /\ Cardinality(Seat \ failed) \in Nat
  BY <1>1, FS_CardinalityType
<1> DEFINE ok == Cardinality(successful)
           ko == Cardinality(failed)
           un == Cardinality(Seat \ failed)
<1>7. QuorumReachable <=> ok + ((un + ko) - (ok + ko)) >= MinAgents
  BY <1>3, <1>5 DEF QuorumReachable
<1>8. ok + ((un + ko) - (ok + ko)) = un
  BY <1>6
<1> QED
  BY <1>1, <1>6, <1>7, <1>8

-----------------------------------------------------------------------------
(* The mages' steps preserve it.                                            *)

\* What a mage's step leaves of the run: the loop's variables, and how others ended.
LEMMA MagesKeepRunInv ==
  ASSUME TypeOK, RunInv, NEW s \in Seat, UNCHANGED runVars,
         \/ MageStep(s) \/ DetachedRelease(s)
         \/ outcome # Running /\ Abort(s)
  PROVE  RunInv'
<1>1. Step(s)
  BY DEF Step
<1>2. /\ join' = join /\ joined' = joined /\ successful' = successful
      /\ failed' = failed /\ outcome' = outcome
  BY DEF runVars
<1>3. \A t \in Seat : pc[t] = "done" => pc'[t] = "done" /\ result'[t] = result[t]
  BY <1>1, DoneIsFinal
<1>4. \A t \in Seat : t # s => pc'[t] = pc[t] /\ result'[t] = result[t]
  BY <1>1, OthersUntouched
<1>5. JoinTypes'
  BY <1>2 DEF RunInv, JoinTypes, Running
<1>6. Counted'
  <2>1. \A t \in successful \cup failed : result'[t] = result[t]
    BY <1>3 DEF RunInv, Counted, JoinTypes
  <2>2. \A t \in Seat : pc'[t] = "done" <=> result'[t] # "pending"
    BY <1>1, <1>4, ResultStep DEF RunInv, Counted
  <2>3. outcome = Running => \A t \in Seat : result'[t] # "aborted"
    BY <1>4, OwnStep DEF RunInv, Counted
  <2> QED
    BY <1>2, <2>1, <2>2, <2>3 DEF RunInv, Counted, Running
<1>7. DefectSeen'
  <2>1. crateDefect' # NoSeat => pc'[crateDefect'] = "done" /\ result'[crateDefect'] = "failed"
    BY <1>1, <1>3, DefectStep DEF RunInv, DefectSeen, TypeOK
  <2>2. ASSUME outcome = Running, joined = Len(JoinOrder), join # "defect?"
        PROVE  crateDefect' = NoSeat
    <3>1. pc[s] = "done"
      BY <2>2, AllHeard DEF RunInv, Counted
    <3> QED
      BY <1>1, <2>2, <3>1, DefectStep DEF RunInv, DefectSeen
  <2> QED
    BY <1>2, <2>1, <2>2 DEF DefectSeen, Running
<1>8. OutageSeen'
  <2>1. QuorumReachable' <=> QuorumReachable
    BY <1>2 DEF QuorumReachable
  <2>2. endpointDown => endpointDown'
    BY <1>1, OutageStep
  <2>3. joined = Len(JoinOrder) => endpointDown' = endpointDown
    BY <1>1, AllHeard, OutageStep DEF RunInv, Counted
  <2>4. outcome' = Running <=> outcome = Running
    BY <1>2 DEF Running
  <2>5. ASSUME outcome = Running, join = "lineages" PROVE endpointDown' /\ ~QuorumReachable'
    BY <2>1, <2>2, <2>5 DEF RunInv, OutageSeen
  <2>6. ASSUME outcome = Running, join = "await", joined = Len(JoinOrder), endpointDown'
        PROVE  QuorumReachable'
    <3>1. endpointDown
      BY <2>3, <2>6
    <3> QED
      BY <2>1, <2>6, <3>1 DEF RunInv, OutageSeen
  <2> QED
    BY <1>2, <2>4, <2>5, <2>6 DEF OutageSeen
<1>9. Decided'
  <2>1. outcome.kind \in {"report", "insufficient"} => \A t \in Seat : pc'[t] = "done"
    BY <1>3 DEF RunInv, Decided
  <2>2. ASSUME outcome.kind \in {"report", "insufficient"}
        PROVE  /\ Verdicts' = Verdicts
               /\ crateDefect' = crateDefect /\ endpointDown' = endpointDown
    <3>1. \A t \in Seat : pc[t] = "done"
      BY <2>2 DEF RunInv, Decided
    <3>2. Verdicts' = Verdicts
      BY <1>3, <3>1 DEF Verdicts
    <3> QED
      BY <1>1, <3>1, <3>2, DefectStep, OutageStep
  <2>3. ReportIsComplete'
    BY <1>2, <2>2 DEF RunInv, Decided, ReportIsComplete
  <2>4. InsufficientIsLastResort'
    BY <1>2, <2>1, <2>2 DEF RunInv, Decided, InsufficientIsLastResort, Ended
  <2>5. OutageMeansNoQuorum'
    <3> SUFFICES ASSUME outcome.kind = "endpoint_down"
                 PROVE  /\ Cardinality({t \in Seat : result'[t] \notin {"failed", "panicked"}})
                             < MinAgents
                        /\ outcome.lineages \subseteq runFailed'
                        /\ Cardinality(outcome.lineages) >= Threshold
      BY <1>2 DEF OutageMeansNoQuorum, Threshold
    <3> DEFINE before == {t \in Seat : result[t] \notin {"failed", "panicked"}}
               after  == {t \in Seat : result'[t] \notin {"failed", "panicked"}}
    <3>1. after \subseteq before
      BY <1>3 DEF RunInv, Counted
    <3>2. IsFiniteSet(before)
      BY RotationAssumption, FS_Subset
    <3>3. Cardinality(after) <= Cardinality(before) /\ Cardinality(after) \in Nat
          /\ Cardinality(before) \in Nat
      BY <3>1, <3>2, FS_Subset, FS_CardinalityType
    <3>4. Cardinality(before) < MinAgents /\ outcome.lineages \subseteq runFailed
          /\ Cardinality(outcome.lineages) >= Threshold
      BY DEF RunInv, Decided, OutageMeansNoQuorum
    <3>5. Cardinality(after) < MinAgents
      <4> HIDE DEF before, after
      <4> QED BY <3>3, <3>4, RunAssumption
    <3>6. runFailed \subseteq runFailed'
      BY <1>1, OutageStep
    <3> QED
      BY <3>4, <3>5, <3>6
  <2>6. DefectBlamesItsMage'
    <3> SUFFICES ASSUME outcome.kind = "crate_defect"
                 PROVE  /\ outcome.agent \in Seat /\ outcome.agent = crateDefect'
                        /\ outcome.agent \notin outcome.joined_before_abort
                        /\ \A t \in outcome.joined_before_abort :
                             t \in Seat /\ pc'[t] = "done" /\ result'[t] # "aborted"
      BY <1>2 DEF DefectBlamesItsMage, Ended
    <3>1. /\ outcome.agent \in Seat /\ outcome.agent = crateDefect
          /\ outcome.agent \notin outcome.joined_before_abort
          /\ \A t \in outcome.joined_before_abort :
               t \in Seat /\ pc[t] = "done" /\ result[t] # "aborted"
      BY DEF RunInv, Decided, DefectBlamesItsMage, Ended
    <3>2. crateDefect' = crateDefect
      BY <1>1, <3>1, RotationAssumption, DefectStep
    <3> QED
      BY <1>3, <3>1, <3>2
  <2> QED
    BY <1>2, <2>1, <2>3, <2>4, <2>5, <2>6 DEF Decided
<1> QED
  BY <1>5, <1>6, <1>7, <1>8, <1>9 DEF RunInv

-----------------------------------------------------------------------------
(* The join loop's steps preserve it.                                       *)

\* What every step of the joining task leaves alone.
LEMMA LoopFrame ==
  ASSUME vars' = vars
  PROVE  /\ pc' = pc /\ result' = result /\ crateDefect' = crateDefect
         /\ endpointDown' = endpointDown /\ runFailed' = runFailed
         /\ connectionFailed' = connectionFailed
  BY DEF vars, registry

\* A decision that only refers to what is already there.
LEMMA UndecidedKeepsDecided ==
  ASSUME outcome' = outcome, outcome = Running
  PROVE  Decided'
  BY DEF Decided, ReportIsComplete, InsufficientIsLastResort, OutageMeansNoQuorum,
         DefectBlamesItsMage, Running

LEMMA JoinKeepsRunInv ==
  ASSUME TypeOK, RunInv, Join
  PROVE  RunInv'
<1> DEFINE s == JoinOrder[joined + 1]
<1>1. outcome = Running /\ outcome' = outcome /\ join' = "defect?" /\ joined' = joined + 1
      /\ joined < Len(JoinOrder) /\ vars' = vars
  BY DEF Join, At
<1>2. joined \in Nat /\ Len(JoinOrder) \in Nat /\ DOMAIN JoinOrder = 1 .. Len(JoinOrder)
  BY RunAssumption DEF RunInv, JoinTypes
<1>3. joined + 1 \in 1 .. Len(JoinOrder)
  BY <1>1, <1>2
<1>4. s \in Seat
  BY <1>2, <1>3, RunAssumption
<1>5. pc[s] = "done" /\ result[s] \in Result \ {"pending", "aborted"}
  BY <1>1, <1>4 DEF Join, RunInv, Counted, TypeOK
<1>6. \/ result[s] = "ok" /\ successful' = successful \cup {s} /\ failed' = failed
      \/ result[s] \in {"failed", "panicked"} /\ successful' = successful
         /\ failed' = failed \cup {s}
  BY <1>5 DEF Join, Counts, Result
<1>7. JoinTypes'
  <2>1. successful' \cup failed' = (successful \cup failed) \cup {s}
    BY <1>6
  <2>2. {JoinOrder[i] : i \in 1 .. joined + 1} = {JoinOrder[i] : i \in 1 .. joined} \cup {s}
    <3>1. 1 .. joined + 1 = (1 .. joined) \cup {joined + 1}
      BY <1>2
    <3> QED BY <3>1, Zenon
  <2>3. successful' \cup failed' = {JoinOrder[i] : i \in 1 .. joined'}
    BY <1>1, <2>1, <2>2 DEF RunInv, JoinTypes
  <2>4. successful' \subseteq Seat /\ failed' \subseteq Seat
    BY <1>4, <1>6 DEF RunInv, JoinTypes
  <2>5. joined' \in 0 .. Len(JoinOrder)
    BY <1>1, <1>2
  <2> QED
    BY <1>1, <2>3, <2>4, <2>5 DEF RunInv, JoinTypes, Running
<1>8. Counted'
  BY <1>1, <1>6, LoopFrame DEF RunInv, Counted, Running
<1>9. DefectSeen'
  BY <1>1, LoopFrame DEF RunInv, DefectSeen
<1>10. OutageSeen'
  BY <1>1 DEF OutageSeen
<1>11. Decided'
  BY <1>1, UndecidedKeepsDecided
<1> QED
  BY <1>7, <1>8, <1>9, <1>10, <1>11 DEF RunInv

\* The two reads of resolve_run_abort.
LEMMA ChecksKeepRunInv ==
  ASSUME TypeOK, RunInv, ResolveCrateDefect \/ ResolveEndpointDown
  PROVE  RunInv'
<1>1. /\ outcome = Running /\ vars' = vars /\ joined' = joined
      /\ successful' = successful /\ failed' = failed
  BY DEF ResolveCrateDefect, ResolveEndpointDown, At
<1>2. QuorumReachable' <=> QuorumReachable
  BY <1>1 DEF QuorumReachable
<1>3. Counted'
  BY <1>1, LoopFrame DEF RunInv, Counted
<1>4. CASE ResolveCrateDefect /\ crateDefect # NoSeat
  <2>1. outcome' = CrateDefect /\ join' = join
    BY <1>4 DEF ResolveCrateDefect
  <2>2. outcome'.kind = "crate_defect" /\ outcome' # Running
    BY <2>1 DEF CrateDefect, Running
  <2>3. JoinTypes'
    BY <1>1, <2>1, <2>2 DEF RunInv, JoinTypes, Running
  <2>4. DefectSeen' /\ OutageSeen'
    BY <1>1, <2>2, LoopFrame DEF RunInv, DefectSeen, OutageSeen, Running
  <2>5. Decided'
    <3>1. crateDefect \in Seat
      BY <1>4 DEF TypeOK
    <3>2. \A t \in (successful \cup failed) \ {crateDefect} :
            t \in Seat /\ pc[t] = "done" /\ result[t] # "aborted"
      BY DEF RunInv, JoinTypes, Counted
    <3>3. DefectBlamesItsMage'
      BY <1>1, <2>1, <3>1, <3>2, LoopFrame DEF DefectBlamesItsMage, CrateDefect, Ended
    <3> QED
      BY <2>2, <3>3 DEF Decided, ReportIsComplete, InsufficientIsLastResort, OutageMeansNoQuorum
  <2> QED
    BY <1>3, <2>3, <2>4, <2>5 DEF RunInv
<1>5. CASE ResolveCrateDefect /\ crateDefect = NoSeat
  <2>1. outcome' = outcome /\ join' = "endpoint?"
    BY <1>5 DEF ResolveCrateDefect
  <2>2. JoinTypes'
    BY <1>1, <2>1 DEF RunInv, JoinTypes, Running
  <2>3. DefectSeen' /\ OutageSeen'
    BY <1>1, <1>5, <2>1, LoopFrame DEF DefectSeen, OutageSeen
  <2> QED
    BY <1>1, <1>3, <2>1, <2>2, <2>3, UndecidedKeepsDecided DEF RunInv
<1>6. CASE ResolveEndpointDown
  <2>1. outcome' = outcome /\ join = "endpoint?" /\ join' \in {"lineages", "await"}
        /\ (join' = "lineages" <=> endpointDown /\ ~QuorumReachable)
    BY <1>6 DEF ResolveEndpointDown, At
  <2>2. JoinTypes'
    BY <1>1, <2>1 DEF RunInv, JoinTypes, Running
  <2>3. DefectSeen'
    BY <1>1, <2>1, LoopFrame DEF RunInv, DefectSeen, Running
  <2>4. OutageSeen'
    <3>1. join' = "lineages" => endpointDown' /\ ~QuorumReachable'
      BY <1>1, <1>2, <2>1, LoopFrame
    <3>2. join' = "await" /\ endpointDown' => QuorumReachable'
      BY <1>1, <1>2, <2>1, LoopFrame
    <3> QED
      BY <3>1, <3>2 DEF OutageSeen
  <2> QED
    BY <1>1, <1>3, <2>1, <2>2, <2>3, <2>4, UndecidedKeepsDecided DEF RunInv
<1> QED
  BY <1>4, <1>5, <1>6

\* The three ways to decide that are not a defect.
LEMMA DecisionsKeepRunInv ==
  ASSUME TypeOK, LatchIsExact, RunInv, AbortEndpointDown \/ Finish \/ Cancel
  PROVE  RunInv'
<1>1. /\ outcome = Running /\ vars' = vars /\ join' = join /\ joined' = joined
      /\ successful' = successful /\ failed' = failed
  BY DEF AbortEndpointDown, Finish, Cancel, At
<1>2. outcome'.kind \in {"report", "insufficient", "endpoint_down", "cancelled"}
      /\ outcome' # Running
  BY DEF AbortEndpointDown, Finish, Cancel, EndpointDown, Insufficient, Report, Cancelled, Running
<1>3. JoinTypes'
  BY <1>1, <1>2 DEF RunInv, JoinTypes, Running
<1>4. Counted' /\ DefectSeen' /\ OutageSeen'
  BY <1>1, <1>2, LoopFrame DEF RunInv, Counted, DefectSeen, OutageSeen, Running
<1>5. CASE AbortEndpointDown
  <2>1. outcome' = EndpointDown /\ endpointDown /\ ~QuorumReachable
    BY <1>5 DEF AbortEndpointDown, At, RunInv, OutageSeen
  <2>2. outcome'.kind = "endpoint_down" /\ outcome'.lineages = connectionFailed
    BY <2>1 DEF EndpointDown
  <2> DEFINE alive == {t \in Seat : result[t] \notin {"failed", "panicked"}}
  <2>3. alive \subseteq Seat \ failed
    BY DEF RunInv, Counted
  <2>4. Cardinality(alive) < MinAgents
    <3>1. /\ IsFiniteSet(Seat \ failed) /\ Cardinality(Seat \ failed) \in Nat
          /\ ~(Cardinality(Seat \ failed) >= MinAgents)
      BY <2>1, QuorumCounts DEF RunInv
    <3>2. Cardinality(alive) <= Cardinality(Seat \ failed) /\ IsFiniteSet(alive)
      BY <2>3, <3>1, FS_Subset
    <3>3. Cardinality(alive) \in Nat
      BY <3>2, FS_CardinalityType
    <3> HIDE DEF alive
    <3> QED
      BY <3>1, <3>2, <3>3, RunAssumption
  <2>5. connectionFailed \subseteq runFailed /\ Cardinality(connectionFailed) >= Threshold
    BY <2>1 DEF LatchIsExact
  <2>6. OutageMeansNoQuorum'
    BY <1>1, <2>2, <2>4, <2>5, LoopFrame DEF OutageMeansNoQuorum, Threshold
  <2>7. Decided'
    BY <2>2, <2>6 DEF Decided, ReportIsComplete, InsufficientIsLastResort, DefectBlamesItsMage
  <2> QED
    BY <1>3, <1>4, <2>7 DEF RunInv
<1>6. CASE Finish
  <2>1. joined = Len(JoinOrder) /\ join = "await"
    BY <1>6 DEF Finish, At
  <2>2. successful \cup failed = Seat
    BY <2>1, AllHeard DEF RunInv
  <2>3. (\A t \in Seat : pc[t] = "done") /\ Verdicts = successful /\ failed = Seat \ successful
    BY <2>2 DEF RunInv, Counted, Verdicts
  <2>4. crateDefect = NoSeat
    BY <1>1, <2>1 DEF RunInv, DefectSeen
  <2>5. Cardinality(successful) \in Nat
    BY QuorumCounts DEF RunInv
  <2>6. CASE Cardinality(successful) < MinAgents
    <3>1. outcome' = Insufficient
      BY <1>6, <2>6 DEF Finish
    <3>2. outcome'.kind = "insufficient"
      BY <3>1 DEF Insufficient
    <3>3. ~endpointDown
      <4>1. Seat \ failed = successful
        BY <2>3, <2>2
      <4>2. ~(Cardinality(successful) >= MinAgents)
        BY <2>5, <2>6, RunAssumption
      <4>3. ~QuorumReachable
        BY <4>1, <4>2, QuorumCounts DEF RunInv
      <4> QED
        BY <1>1, <2>1, <4>3 DEF RunInv, OutageSeen
    <3>4. InsufficientIsLastResort'
      BY <1>1, <2>3, <2>4, <2>6, <3>3, LoopFrame DEF InsufficientIsLastResort, Ended, Verdicts
    <3>5. Decided'
      BY <1>1, <2>3, <3>2, <3>4, LoopFrame
         DEF Decided, ReportIsComplete, OutageMeansNoQuorum, DefectBlamesItsMage
    <3> QED
      BY <1>3, <1>4, <3>5 DEF RunInv
  <2>7. CASE ~(Cardinality(successful) < MinAgents)
    <3>1. outcome' = Report
      BY <1>6, <2>7 DEF Finish
    <3>2. outcome'.kind = "report" /\ outcome'.agents = successful /\ outcome'.failed = failed
      BY <3>1 DEF Report
    <3>3. Cardinality(successful) >= MinAgents
      BY <2>5, <2>7, RunAssumption
    <3>4. ReportIsComplete'
      BY <1>1, <2>3, <2>4, <3>2, <3>3, LoopFrame DEF ReportIsComplete, Verdicts
    <3>5. Decided'
      BY <1>1, <2>3, <3>2, <3>4, LoopFrame
         DEF Decided, InsufficientIsLastResort, OutageMeansNoQuorum, DefectBlamesItsMage
    <3> QED
      BY <1>3, <1>4, <3>5 DEF RunInv
  <2> QED
    BY <2>6, <2>7
<1>7. CASE Cancel
  <2>1. outcome'.kind = "cancelled"
    BY <1>7 DEF Cancel, Cancelled
  <2>2. Decided'
    BY <2>1 DEF Decided, ReportIsComplete, InsufficientIsLastResort, OutageMeansNoQuorum,
                DefectBlamesItsMage
  <2> QED
    BY <1>3, <1>4, <2>2 DEF RunInv
<1> QED
  BY <1>5, <1>6, <1>7

-----------------------------------------------------------------------------
(* The theorems.                                                            *)

\* A step that changes nothing.
LEMMA StutterKeepsRunInv ==
  ASSUME RunInv, UNCHANGED allVars
  PROVE  RunInv'
<1>1. /\ join' = join /\ joined' = joined /\ successful' = successful
      /\ failed' = failed /\ outcome' = outcome /\ vars' = vars
  BY DEF allVars, runVars
<1>2. JoinTypes'
  BY <1>1 DEF RunInv, JoinTypes, Running
<1>3. Counted' /\ DefectSeen'
  BY <1>1, LoopFrame DEF RunInv, Counted, DefectSeen, Running
<1>4. OutageSeen'
  BY <1>1, LoopFrame DEF RunInv, OutageSeen, QuorumReachable, Running
<1>5. Decided'
  BY <1>1, LoopFrame DEF RunInv, Decided, ReportIsComplete, InsufficientIsLastResort,
     OutageMeansNoQuorum, DefectBlamesItsMage, Verdicts, Ended, Threshold
<1> QED
  BY <1>2, <1>3, <1>4, <1>5 DEF RunInv

THEOREM RunInvariant == RunSpec => []RunInv
<1>1. RunInit => RunInv
  BY RunInvInit
<1>2. TypeOK /\ LatchIsExact /\ RunInv /\ [RunNext]_allVars => RunInv'
  <2> SUFFICES ASSUME TypeOK, LatchIsExact, RunInv, [RunNext]_allVars PROVE RunInv'
    OBVIOUS
  <2>1. ASSUME NEW s \in Seat, Mage(s) PROVE RunInv'
    BY <2>1, MagesKeepRunInv DEF Mage
  <2>2. ASSUME NEW s \in Seat, AbortLeftOver(s) PROVE RunInv'
    BY <2>2, MagesKeepRunInv DEF AbortLeftOver
  <2>3. CASE Join
    BY <2>3, JoinKeepsRunInv
  <2>4. CASE ResolveCrateDefect \/ ResolveEndpointDown
    BY <2>4, ChecksKeepRunInv
  <2>5. CASE AbortEndpointDown \/ Finish \/ Cancel
    BY <2>5, DecisionsKeepRunInv
  <2>6. CASE UNCHANGED allVars
    BY <2>6, StutterKeepsRunInv
  <2> QED
    BY <2>1, <2>2, <2>3, <2>4, <2>5, <2>6 DEF RunNext, JoinStep
<1> QED
  BY <1>1, <1>2, RunRunsMages, TypeCorrect, LatchCorrect, PTL DEF RunSpec

\* A report is made of a quorum of real verdicts, accounts for every mage and hides no
\* crate defect.
THEOREM ReportsAreComplete == RunSpec => []ReportIsComplete
<1>1. RunInv => ReportIsComplete
  BY DEF RunInv, Decided
<1> QED
  BY <1>1, RunInvariant, PTL

\* InsufficientAgents is returned only by a run nothing else explains.
THEOREM RefusalIsLast == RunSpec => []InsufficientIsLastResort
<1>1. RunInv => InsufficientIsLastResort
  BY DEF RunInv, Decided
<1> QED
  BY <1>1, RunInvariant, PTL

\* The loop's variables keep their types, and what it counted is what it joined.
THEOREM RunTypeCorrect == RunSpec => []RunTypeOK
<1>1. RunInv => RunTypeOK
  BY DEF RunInv, JoinTypes, Counted, RunTypeOK
<1> QED
  BY <1>1, RunInvariant, PTL

\* EndpointDown abandons no run that could still have reached its quorum.
THEOREM OutageIsHopeless == RunSpec => []OutageMeansNoQuorum
<1>1. RunInv => OutageMeansNoQuorum
  BY DEF RunInv, Decided
<1> QED
  BY <1>1, RunInvariant, PTL

\* A crate-defect report blames the mage that hit the defect.
THEOREM BlameIsRight == RunSpec => []DefectBlamesItsMage
<1>1. RunInv => DefectBlamesItsMage
  BY DEF RunInv, Decided
<1> QED
  BY <1>1, RunInvariant, PTL

-----------------------------------------------------------------------------
(* A run keeps the promise of analyze.                                      *)

\* The mapped fate of every mage.
Settled == [s \in Seat |-> CASE result[s] = "pending" -> "pending"
                             [] result[s] = "ok" -> "ok"
                             [] OTHER -> "failed"]

LEMMA SettledIs ==
  /\ \A s \in Seat : /\ Settled[s] = "pending" <=> result[s] = "pending"
                     /\ Settled[s] = "ok" <=> result[s] = "ok"
                     /\ Settled[s] \in {"pending", "ok", "failed"}
  /\ DOMAIN Settled = Seat
  BY DEF Settled

\* The instance counts as this module does.
LEMMA PromiseCounts == \A S : Promise!Cardinality(S) = Cardinality(S)
  BY Zenon DEF Promise!Cardinality, Cardinality

LEMMA PromiseWith ==
  /\ Promise!With("pending") = {s \in Seat : result[s] = "pending"}
  /\ Promise!With("ok") = Verdicts
  /\ Promise!With("failed") = {s \in Seat : result[s] \notin {"pending", "ok"}}
<1>1. \A f : Promise!With(f) = {s \in Seat : Settled[s] = f}
  BY DEF Promise!With, Settled
<1> QED
  BY <1>1, SettledIs DEF Verdicts

\* Steps of the joining task that decide nothing, and stuttering, are invisible; every
\* other one is a step the promise allows.
LEMMA StepKeepsPromise ==
  ASSUME TypeOK, LatchIsExact, RunInv, RunInv', [RunNext]_allVars
  PROVE  [Promise!Next]_(Promise!vars)
<1> SUFFICES ASSUME RunNext PROVE [Promise!Next]_(Promise!vars)
  BY DEF allVars, vars, runVars, Promise!vars
<1>1. ASSUME NEW s \in Seat, Mage(s) \/ AbortLeftOver(s)
      PROVE  [Promise!Next]_(Promise!vars)
  <2>1. Step(s) /\ outcome' = outcome
    BY <1>1 DEF Mage, AbortLeftOver, Step, runVars
  <2>2. \A t \in Seat : t # s => result'[t] = result[t]
    BY <2>1, OthersUntouched
  <2>3. CASE result'[s] = result[s]
    <3>1. \A t \in Seat : result'[t] = result[t]
      BY <2>2, <2>3
    <3>2. Settled' = Settled
      BY <3>1 DEF Settled
    <3> QED
      BY <2>1, <3>2 DEF Promise!vars, Settled
  <2>4. CASE result'[s] # result[s]
    <3>1. result[s] = "pending"
      BY <2>1, <2>4, DoneIsFinal DEF RunInv, Counted
    <3>2. PICK fate \in {"ok", "failed"} : Settled'[s] = fate
      <4>1. result'[s] # "pending"
        BY <2>4, <3>1
      <4> QED
        BY <4>1 DEF Settled
    <3>3. Settled' = [Settled EXCEPT ![s] = fate]
      BY <2>2, <3>2 DEF Settled
    <3>4. Settled[s] = "pending"
      BY <3>1 DEF Settled
    <3>5. Promise!Settle(s, fate)
      BY <2>1, <3>3, <3>4 DEF Promise!Settle, Settled
    <3> QED
      BY <3>5 DEF Promise!Next
  <2> QED
    BY <2>3, <2>4
<1>2. ASSUME vars' = vars, outcome' = outcome
      PROVE  [Promise!Next]_(Promise!vars)
  BY <1>2, LoopFrame DEF Promise!vars
<1>3. ASSUME vars' = vars, outcome = Running, NEW how, outcome'.kind = how
      PROVE  Promise!Decide(how)
  <2>1. result' = result
    BY <1>3, LoopFrame
  <2>2. outcome.kind = "running"
    BY <1>3 DEF Running
  <2> QED
    BY <1>3, <2>1, <2>2 DEF Promise!Decide
<1>4. CASE ResolveCrateDefect
  <2>1. CASE crateDefect = NoSeat
    BY <1>2, <1>4, <2>1 DEF ResolveCrateDefect
  <2>2. CASE crateDefect # NoSeat
    <3>1. vars' = vars /\ outcome = Running /\ outcome'.kind = "crate_defect"
      BY <1>4, <2>2 DEF ResolveCrateDefect, At, CrateDefect
    <3>2. crateDefect \in Seat /\ result[crateDefect] = "failed"
      BY <2>2 DEF TypeOK, RunInv, DefectSeen
    <3>3. Promise!With("failed") # {}
      BY <3>2, PromiseWith
    <3>4. Promise!DeclareDefect
      BY <1>3, <3>1, <3>3 DEF Promise!DeclareDefect
    <3> QED
      BY <3>4 DEF Promise!Next
  <2> QED
    BY <2>1, <2>2
<1>5. CASE AbortEndpointDown
  <2>1. vars' = vars /\ outcome = Running /\ outcome'.kind = "endpoint_down"
    BY <1>5 DEF AbortEndpointDown, At, EndpointDown
  <2>2. Cardinality({t \in Seat : result[t] \notin {"failed", "panicked"}}) < MinAgents
    BY <2>1, LoopFrame DEF RunInv, Decided, OutageMeansNoQuorum
  <2>3. Seat \ Promise!With("failed") = {t \in Seat : result[t] \notin {"failed", "panicked"}}
    BY <2>1, PromiseWith DEF RunInv, Counted, TypeOK, Result
  <2>4. Promise!DeclareOutage
    BY <1>3, <2>1, <2>2, <2>3, PromiseCounts DEF Promise!DeclareOutage
  <2> QED
    BY <2>4 DEF Promise!Next
<1>6. CASE Finish
  <2>1. vars' = vars /\ outcome = Running /\ outcome'.kind \in {"report", "insufficient"}
    BY <1>6 DEF Finish, At, Report, Insufficient
  <2>2. \A t \in Seat : result[t] # "pending"
    BY <2>1, LoopFrame DEF RunInv, Decided, Counted
  <2>3. Promise!With("pending") = {}
    BY <2>2, PromiseWith
  <2>4. CASE outcome'.kind = "report"
    <3>1. Cardinality(Verdicts) >= MinAgents
      BY <2>1, <2>4, LoopFrame DEF RunInv, Decided, ReportIsComplete, Verdicts
    <3>2. Promise!Report
      BY <1>3, <2>1, <2>3, <2>4, <3>1, PromiseWith, PromiseCounts DEF Promise!Report
    <3> QED
      BY <3>2 DEF Promise!Next
  <2>5. CASE outcome'.kind = "insufficient"
    <3>1. Cardinality(Verdicts) < MinAgents
      BY <2>1, <2>5, LoopFrame DEF RunInv, Decided, InsufficientIsLastResort, Verdicts
    <3>2. Promise!Refuse
      BY <1>3, <2>1, <2>3, <2>5, <3>1, PromiseWith, PromiseCounts DEF Promise!Refuse
    <3> QED
      BY <3>2 DEF Promise!Next
  <2> QED
    BY <2>1, <2>4, <2>5
<1>7. CASE Cancel
  BY <1>3, <1>7 DEF Cancel, Cancelled, Promise!Cancel, Promise!Next
<1>8. CASE Join \/ ResolveEndpointDown
  BY <1>2, <1>8 DEF Join, ResolveEndpointDown
<1> QED
  BY <1>1, <1>4, <1>5, <1>6, <1>7, <1>8 DEF RunNext, JoinStep

\* Whatever the pool, the caps, the number of mages and the quorum, a run with rotation
\* only does what analyze promises.
THEOREM RunKeepsPromise == RunSpec => KeepsPromise
<1>1. RunInit => Promise!Init
  BY DEF RunInit, Init, Promise!Init, Running
<1>2. TypeOK /\ LatchIsExact /\ RunInv /\ RunInv' /\ [RunNext]_allVars
        => [Promise!Next]_(Promise!vars)
  BY StepKeepsPromise
<1> QED
  BY <1>1, <1>2, RunInvariant, RunRunsMages, TypeCorrect, LatchCorrect, PTL
     DEF RunSpec, KeepsPromise, Promise!Safety
===============================================================================
