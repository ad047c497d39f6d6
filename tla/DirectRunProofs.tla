---------------------------- MODULE DirectRunProofs ----------------------------
(***************************************************************************)
(* Proofs about a run without rotation and about what is determined of a   *)
(* run's outputs: for every set of mages, every join order, quorum,        *)
(* tolerance and every feed of findings.                                   *)
(*                                                                         *)
(* The join loop keeps what it counted apart from what it has not met yet. *)
(* The fold of findings loses nothing and invents nothing: its invariant   *)
(* ties the key of a group to the finding that opened it and each source   *)
(* to its first finding. The verdict is arithmetic over at most three      *)
(* votes.                                                                  *)
(***************************************************************************)
EXTENDS DirectRun, Consensus, FiniteSetTheorems, SequenceTheorems, TLAPS

\* The mages joined after n turns of the loop.
JoinedBy(n) == {JoinOrder[i] : i \in 1 .. n}

TaskTypes ==
  /\ task \in [Seat -> Ending \cup {"running", "aborted"}]
  /\ joined \in 0 .. Len(JoinOrder)

\* What was joined has ended, and was counted for what it ended as.
Counted ==
  /\ \A s \in JoinedBy(joined) : task[s] \in Ending
  /\ successful = {s \in JoinedBy(joined) : task[s] = "ok"}
  /\ failed = {s \in JoinedBy(joined) : task[s] # "ok"}

\* While the loop runs no task is aborted and no record was passed over.
StillClean ==
  outcome = Running =>
    /\ \A s \in Seat : task[s] # "aborted"
    /\ \A s \in JoinedBy(joined) : task[s] # "defect"

DirectInv ==
  TaskTypes /\ Counted /\ StillClean /\ OutcomeIsHonest /\ FirstDefectIsBlamed
  /\ outcome.kind \in Kinds

LEMMA OutcomeKinds ==
  /\ Running.kind = "running" /\ Report.kind = "report" /\ Insufficient.kind = "insufficient"
  /\ Cancelled.kind = "cancelled"
  /\ Report.agents = successful /\ Report.failed = failed
  /\ \A s, seen : /\ CrateDefect(s, seen).kind = "crate_defect"
                  /\ CrateDefect(s, seen).agent = s
                  /\ CrateDefect(s, seen).joined_before_abort = seen \ {s}
BY DEF Running, Report, Insufficient, Cancelled, CrateDefect

LEMMA JoinOrderIsComplete ==
  /\ DOMAIN JoinOrder = 1 .. Len(JoinOrder) /\ Len(JoinOrder) \in Nat
  /\ \A i \in 1 .. Len(JoinOrder) : JoinOrder[i] \in Seat
  /\ JoinedBy(Len(JoinOrder)) = Seat
  /\ \A n \in 0 .. Len(JoinOrder) : JoinedBy(n) \subseteq Seat
<1>1. /\ DOMAIN JoinOrder = 1 .. Len(JoinOrder) /\ Len(JoinOrder) \in Nat
      /\ \A i \in 1 .. Len(JoinOrder) : JoinOrder[i] \in Seat
  BY DirectAssumption
<1>2. \A n \in 0 .. Len(JoinOrder) : JoinedBy(n) \subseteq Seat
  BY <1>1 DEF JoinedBy
<1>3. Seat \subseteq JoinedBy(Len(JoinOrder))
  BY <1>1, DirectAssumption DEF JoinedBy
<1> QED
  BY <1>1, <1>2, <1>3

LEMMA DirectStarts == Init => DirectInv
<1> SUFFICES ASSUME Init PROVE DirectInv
  OBVIOUS
<1>1. JoinedBy(0) = {}
  BY DEF JoinedBy
<1>2. TaskTypes
  BY JoinOrderIsComplete DEF Init, TaskTypes
<1>3. Counted
  BY <1>1 DEF Init, Counted
<1>4. StillClean
  BY <1>1 DEF Init, StillClean
<1>5. outcome.kind = "running"
  BY OutcomeKinds DEF Init
<1> QED
  BY <1>2, <1>3, <1>4, <1>5 DEF DirectInv, OutcomeIsHonest, FirstDefectIsBlamed, Kinds

\* A task that ends disturbs nothing that was joined or decided.
LEMMA TaskEndsKeepsInv ==
  ASSUME DirectInv, NEW s \in Seat, NEW how \in Ending \cup {"aborted"}, TaskEnds(s, how),
         how = "aborted" => outcome # Running
  PROVE  DirectInv'
<1>1. /\ task[s] = "running" /\ task' = [task EXCEPT ![s] = how]
      /\ joined' = joined /\ successful' = successful /\ failed' = failed /\ outcome' = outcome
  BY DEF TaskEnds
<1>2. task \in [Seat -> Ending \cup {"running", "aborted"}] /\ joined \in 0 .. Len(JoinOrder)
  BY DEF DirectInv, TaskTypes
<1>3. \A t \in Seat : task'[t] = IF t = s THEN how ELSE task[t]
  BY <1>1, <1>2
<1>4. TaskTypes'
  BY <1>1, <1>2 DEF TaskTypes
<1>5. JoinedBy(joined) \subseteq Seat /\ s \notin JoinedBy(joined)
  BY <1>1, <1>2, JoinOrderIsComplete DEF DirectInv, Counted, Ending
<1>6. Counted'
  BY <1>1, <1>3, <1>5 DEF DirectInv, Counted
<1>7. StillClean'
  BY <1>1, <1>3, <1>5 DEF DirectInv, StillClean, Ending
<1>8. OutcomeIsHonest'
  <2>1. outcome.kind \notin {"report", "insufficient"}
    BY <1>1 DEF DirectInv, OutcomeIsHonest
  <2> QED
    BY <1>1, <2>1 DEF OutcomeIsHonest
<1>9. FirstDefectIsBlamed'
  <2>1. SUFFICES ASSUME outcome.kind = "crate_defect"
                 PROVE  FirstDefectIsBlamed'
    BY <1>1 DEF FirstDefectIsBlamed
  <2> DEFINE before == JoinedBy(joined - 1)
  <2>2. /\ outcome.agent = JoinOrder[joined] /\ task[outcome.agent] = "defect"
        /\ \A t \in before \ {outcome.agent} : task[t] \in {"ok", "failed", "panicked"}
        /\ outcome.joined_before_abort = before \ {outcome.agent}
    BY <2>1 DEF DirectInv, FirstDefectIsBlamed, JoinedBy
  <2>3. \A t \in before \cup {outcome.agent} : task'[t] = task[t]
    <3>1. ASSUME NEW t \in before \cup {outcome.agent} PROVE t # s
      BY <1>1, <2>2
    <3>2. \A t : t # s => task'[t] = task[t]
      BY <1>1, <1>2
    <3> QED
      BY <3>1, <3>2
  <2> HIDE DEF before
  <2>4. /\ outcome'.agent = JoinOrder[joined'] /\ task'[outcome'.agent] = "defect"
        /\ \A t \in before \ {outcome'.agent} : task'[t] \in {"ok", "failed", "panicked"}
        /\ outcome'.joined_before_abort = before \ {outcome'.agent}
    BY <1>1, <2>2, <2>3
  <2> QED
    BY <1>1, <2>4 DEF before, FirstDefectIsBlamed, JoinedBy
<1> QED
  BY <1>1, <1>4, <1>6, <1>7, <1>8, <1>9 DEF DirectInv

LEMMA JoinKeepsInv ==
  ASSUME DirectInv, Join
  PROVE  DirectInv'
<1> DEFINE s == JoinOrder[joined + 1]
<1>1. /\ outcome = Running /\ joined < Len(JoinOrder) /\ joined' = joined + 1 /\ task' = task
      /\ task[s] # "running"
      /\ successful' = IF task[s] = "ok" THEN successful \cup {s} ELSE successful
      /\ failed' = IF task[s] = "ok" THEN failed ELSE failed \cup {s}
      /\ Returns(s)
  BY DEF Join
<1>2. task \in [Seat -> Ending \cup {"running", "aborted"}] /\ joined \in 0 .. Len(JoinOrder)
  BY DEF DirectInv, TaskTypes
<1>3. /\ joined + 1 \in 1 .. Len(JoinOrder) /\ s \in Seat
  BY <1>1, <1>2, JoinOrderIsComplete
<1>4. JoinedBy(joined + 1) = JoinedBy(joined) \cup {s}
  BY <1>2 DEF JoinedBy
<1>5. task[s] \in Ending
  BY <1>1, <1>2, <1>3 DEF DirectInv, StillClean
<1> HIDE DEF s
<1>6. TaskTypes'
  BY <1>1, <1>2, JoinOrderIsComplete DEF TaskTypes
<1>7. Counted'
  BY <1>1, <1>4, <1>5 DEF DirectInv, Counted
<1>8. CASE task[s] = "defect"
  <2>1. outcome' = CrateDefect(s, successful \cup failed')
    BY <1>1, <1>8 DEF Returns
  <2>2. /\ outcome'.kind = "crate_defect" /\ outcome'.agent = s
        /\ outcome'.joined_before_abort = (successful \cup failed') \ {s}
    BY <2>1, OutcomeKinds
  <2>3. successful \cup failed' = JoinedBy(joined) \cup {s}
    BY <1>1, <1>8 DEF DirectInv, Counted
  <2>4. \A t \in JoinedBy(joined) \ {s} : task[t] \in {"ok", "failed", "panicked"}
    BY <1>1 DEF DirectInv, Counted, StillClean, Ending
  <2>5. joined' - 1 = joined
    BY <1>1, <1>2
  <2>6. FirstDefectIsBlamed'
    BY <1>1, <1>8, <2>2, <2>3, <2>4, <2>5 DEF FirstDefectIsBlamed, JoinedBy, s
  <2>7. StillClean' /\ OutcomeIsHonest' /\ outcome'.kind \in Kinds
    BY <2>2, OutcomeKinds DEF StillClean, OutcomeIsHonest, Kinds
  <2> QED
    BY <1>6, <1>7, <2>6, <2>7 DEF DirectInv
<1>9. CASE task[s] # "defect"
  <2>1. outcome' = outcome /\ outcome.kind = "running"
    BY <1>1, <1>9, OutcomeKinds DEF Returns
  <2>2. StillClean'
    BY <1>1, <1>4, <1>9 DEF DirectInv, StillClean
  <2>3. OutcomeIsHonest' /\ FirstDefectIsBlamed' /\ outcome'.kind \in Kinds
    BY <2>1 DEF OutcomeIsHonest, FirstDefectIsBlamed, Kinds
  <2> QED
    BY <1>6, <1>7, <2>2, <2>3 DEF DirectInv
<1> QED
  BY <1>8, <1>9

\* After the last join every mage is counted.
LEMMA AllCounted ==
  ASSUME DirectInv, outcome = Running, joined = Len(JoinOrder)
  PROVE  /\ \A s \in Seat : task[s] \in {"ok", "failed", "panicked"}
         /\ successful = {s \in Seat : task[s] = "ok"}
         /\ failed = Seat \ successful
BY JoinOrderIsComplete DEF DirectInv, Counted, StillClean, Ending

LEMMA FinishKeepsInv ==
  ASSUME DirectInv, Finish
  PROVE  DirectInv'
<1>1. /\ outcome = Running /\ joined = Len(JoinOrder)
      /\ outcome' = IF Cardinality(successful) < MinAgents THEN Insufficient ELSE Report
      /\ UNCHANGED <<task, joined, successful, failed>>
  BY DEF Finish
<1>2. /\ \A s \in Seat : task[s] \in {"ok", "failed", "panicked"}
      /\ successful = {s \in Seat : task[s] = "ok"} /\ failed = Seat \ successful
  BY <1>1, AllCounted
<1>3. TaskTypes' /\ Counted'
  BY <1>1 DEF DirectInv, TaskTypes, Counted
<1>4. CASE Cardinality(successful) < MinAgents
  <2>1. outcome'.kind = "insufficient"
    BY <1>1, <1>4, OutcomeKinds
  <2> QED
    BY <1>1, <1>2, <1>3, <2>1, OutcomeKinds
       DEF DirectInv, StillClean, OutcomeIsHonest, FirstDefectIsBlamed, Kinds
<1>5. CASE ~(Cardinality(successful) < MinAgents)
  <2>1. outcome'.kind = "report" /\ outcome'.agents = successful /\ outcome'.failed = failed
    BY <1>1, <1>5, OutcomeKinds
  <2>2. Cardinality(successful) \in Nat
    BY <1>2, DirectAssumption, FS_Subset, FS_CardinalityType
  <2>3. Cardinality(successful) >= MinAgents
    BY <1>5, <2>2, DirectAssumption
  <2> QED
    BY <1>1, <1>2, <1>3, <2>1, <2>3, OutcomeKinds
       DEF DirectInv, StillClean, OutcomeIsHonest, FirstDefectIsBlamed, Kinds
<1> QED
  BY <1>4, <1>5

\* The invariant holds in every reachable state.
THEOREM DirectInvariant == Spec => []DirectInv
<1>1. ASSUME DirectInv, [Next]_vars PROVE DirectInv'
  <2>1. ASSUME NEW s \in Seat, NEW how \in Ending, TaskEnds(s, how) PROVE DirectInv'
    BY <1>1, <2>1, TaskEndsKeepsInv DEF Ending
  <2>2. ASSUME NEW s \in Seat, AbortLeftOver(s) PROVE DirectInv'
    BY <1>1, <2>2, TaskEndsKeepsInv DEF AbortLeftOver
  <2>3. CASE Join
    BY <1>1, <2>3, JoinKeepsInv
  <2>4. CASE Finish
    BY <1>1, <2>4, FinishKeepsInv
  <2>5. CASE Cancel
    <3>1. outcome'.kind = "cancelled" /\ UNCHANGED <<task, joined, successful, failed>>
      BY <2>5, OutcomeKinds DEF Cancel
    <3> QED
      BY <1>1, <3>1, OutcomeKinds
         DEF DirectInv, TaskTypes, Counted, StillClean, OutcomeIsHonest, FirstDefectIsBlamed, Kinds
  <2>6. CASE UNCHANGED vars
    BY <1>1, <2>6 DEF vars, DirectInv, TaskTypes, Counted, StillClean, OutcomeIsHonest,
                      FirstDefectIsBlamed
  <2> QED
    BY <1>1, <2>1, <2>2, <2>3, <2>4, <2>5, <2>6 DEF Next
<1> QED
  BY <1>1, DirectStarts, PTL DEF Spec

\* No report or refusal hides a crate defect some mage brought home.
THEOREM OutcomesAreHonest == Spec => []OutcomeIsHonest
<1>1. DirectInv => OutcomeIsHonest
  BY DEF DirectInv
<1> QED
  BY <1>1, DirectInvariant, PTL

\* The defect that is reported is the first in join order, whatever the tasks' timing.
THEOREM BlameFollowsJoinOrder == Spec => []FirstDefectIsBlamed
<1>1. DirectInv => FirstDefectIsBlamed
  BY DEF DirectInv
<1> QED
  BY <1>1, DirectInvariant, PTL

-----------------------------------------------------------------------------
(* The refinement.                                                          *)

\* The promise counts with its own name for the same operator.
LEMMA PromiseCounts == \A S : Promise!Cardinality(S) = Cardinality(S)
  BY Zenon DEF Promise!Cardinality, Cardinality

Settled == [s \in Seat |-> CASE task[s] = "running" -> "pending"
                             [] task[s] = "ok" -> "ok"
                             [] OTHER -> "failed"]

LEMMA SettledIs ==
  \A s \in Seat : Settled[s] = IF task[s] = "running" THEN "pending"
                              ELSE IF task[s] = "ok" THEN "ok" ELSE "failed"
BY DEF Settled

LEMMA PromiseWith == \A f : Promise!With(f) = {s \in Seat : Settled[s] = f}
BY DEF Promise!With, Settled

\* Turns of the loop that decide nothing are invisible; every other step is one the
\* promise allows.
LEMMA StepKeepsPromise ==
  ASSUME DirectInv, [Next]_vars
  PROVE  [Promise!Next]_(Promise!vars)
<1> SUFFICES ASSUME Next PROVE [Promise!Next]_(Promise!vars)
  BY DEF vars, Promise!vars
<1>1. task \in [Seat -> Ending \cup {"running", "aborted"}]
  BY DEF DirectInv, TaskTypes
<1>2. ASSUME NEW s \in Seat, NEW how \in Ending \cup {"aborted"}, TaskEnds(s, how)
      PROVE  [Promise!Next]_(Promise!vars)
  <2> DEFINE fate == IF how = "ok" THEN "ok" ELSE "failed"
  <2>1. task[s] = "running" /\ task' = [task EXCEPT ![s] = how] /\ outcome' = outcome
    BY <1>2 DEF TaskEnds
  <2>2. Settled[s] = "pending" /\ Settled' = [Settled EXCEPT ![s] = fate]
    <3>1. \A t \in Seat : task'[t] = IF t = s THEN how ELSE task[t]
      BY <1>1, <2>1
    <3>2. how # "running"
      BY <1>2 DEF Ending
    <3> QED
      BY <2>1, <3>1, <3>2 DEF Settled
  <2>3. Promise!Settle(s, fate)
    BY <2>1, <2>2 DEF Promise!Settle, Settled
  <2> QED
    BY <2>3 DEF Promise!Next
<1>3. ASSUME task' = task
      PROVE  UNCHANGED [s \in Seat |-> CASE task[s] = "running" -> "pending"
                                         [] task[s] = "ok" -> "ok"
                                         [] OTHER -> "failed"]
  BY <1>3
<1>4. CASE Join
  <2>1. /\ task' = task /\ outcome = Running /\ joined < Len(JoinOrder)
        /\ Returns(JoinOrder[joined + 1])
    BY <1>4 DEF Join
  <2>2. CASE outcome' = outcome
    BY <1>3, <2>1, <2>2 DEF Promise!vars
  <2>3. CASE outcome' # outcome
    <3>1. task[JoinOrder[joined + 1]] = "defect" /\ outcome'.kind = "crate_defect"
      BY <2>1, <2>3, OutcomeKinds DEF Returns
    <3>2. JoinOrder[joined + 1] \in Seat
      BY <2>1, JoinOrderIsComplete DEF DirectInv, TaskTypes
    <3>3. Promise!With("failed") # {}
      BY <3>1, <3>2, PromiseWith, SettledIs
    <3>4. Promise!DeclareDefect
      BY <1>3, <2>1, <3>1, <3>3, OutcomeKinds DEF Promise!DeclareDefect, Promise!Decide
    <3> QED
      BY <3>4 DEF Promise!Next
  <2> QED
    BY <2>2, <2>3
<1>5. CASE Finish
  <2>1. /\ outcome = Running /\ joined = Len(JoinOrder) /\ task' = task
        /\ outcome' = IF Cardinality(successful) < MinAgents THEN Insufficient ELSE Report
    BY <1>5 DEF Finish
  <2>2. /\ \A s \in Seat : task[s] \in {"ok", "failed", "panicked"}
        /\ successful = {s \in Seat : task[s] = "ok"}
    BY <2>1, AllCounted
  <2>3. Promise!With("pending") = {}
    BY <2>2, PromiseWith, SettledIs
  <2>4. Promise!With("ok") = successful
    BY <2>2, PromiseWith, SettledIs
  <2>5. Promise!Cardinality(Promise!With("ok")) = Cardinality(successful)
    BY <2>4, PromiseCounts
  <2>6. CASE Cardinality(successful) < MinAgents
    <3>1. Promise!Refuse
      BY <1>3, <2>1, <2>3, <2>5, <2>6, OutcomeKinds DEF Promise!Refuse, Promise!Decide
    <3> QED
      BY <3>1 DEF Promise!Next
  <2>7. CASE ~(Cardinality(successful) < MinAgents)
    <3>1. Cardinality(successful) >= MinAgents
      <4>1. Cardinality(successful) \in Nat
        BY <2>2, DirectAssumption, FS_Subset, FS_CardinalityType
      <4> QED
        BY <2>7, <4>1, DirectAssumption
    <3>2. Promise!Report
      BY <1>3, <2>1, <2>3, <2>5, <2>7, <3>1, OutcomeKinds DEF Promise!Report, Promise!Decide
    <3> QED
      BY <3>2 DEF Promise!Next
  <2> QED
    BY <2>6, <2>7
<1>6. CASE Cancel
  <2>1. outcome = Running /\ outcome'.kind = "cancelled" /\ task' = task
    BY <1>6, OutcomeKinds DEF Cancel
  <2>2. Promise!Cancel
    BY <1>3, <2>1, OutcomeKinds DEF Promise!Cancel, Promise!Decide
  <2> QED
    BY <2>2 DEF Promise!Next
<1> QED
  BY <1>2, <1>4, <1>5, <1>6 DEF Next, AbortLeftOver

\* Without rotation, too, a run only does what analyze promises, whatever the number of
\* mages, the join order and the quorum.
THEOREM DirectKeepsPromise == Spec => KeepsPromise
<1>1. Init => Promise!Init
  BY OutcomeKinds DEF Init, Promise!Init
<1>2. DirectInv /\ [Next]_vars => [Promise!Next]_(Promise!vars)
  BY StepKeepsPromise
<1> QED
  BY <1>1, <1>2, DirectInvariant, PTL DEF Spec, KeepsPromise, Promise!Safety

-----------------------------------------------------------------------------
(* The fold of the findings.                                                *)

\* Two findings have one key exactly when they are the same issue.
LEMMA KeysAreIssues ==
  ASSUME NEW f \in Item, NEW h \in Item
  PROVE  FindingKey(f) = FindingKey(h) <=> SameIssue(f, h)
BY DEF FindingKey, SameIssue, Item

\* Severities are numbers.
LEMMA SeverityIsInt ==
  /\ \A f \in Item : f.severity \in Int
  /\ \A s \in GroupState : s.severity \in Int
<1>1. Severity \subseteq Int
  BY DEF Severity, Info, Warning, Critical
<1> QED
  BY <1>1 DEF Item, GroupState

-----------------------------------------------------------------------------
\* A group's key is that of its first finding, and no two groups share one.
Keyed ==
  /\ \A g \in DOMAIN groups : groups[g].key = FindingKey(feed[groups[g].title])
  /\ \A g, h \in DOMAIN groups : groups[g].key = groups[h].key => g = h

\* Every finding read has its group.
Covered ==
  \A k \in 1 .. read : \E g \in DOMAIN groups :
    /\ groups[g].key = FindingKey(feed[k])
    /\ groups[g].severity >= feed[k].severity
    /\ \E i \in DOMAIN groups[g].sources : groups[g].sources[i] = feed[k].agent

\* A group comes from its own findings.
Grounded ==
  \A g \in DOMAIN groups :
    /\ groups[g].severity = feed[groups[g].detail].severity
    /\ groups[g].key = FindingKey(feed[groups[g].detail])
    /\ \A k \in 1 .. read : groups[g].key = FindingKey(feed[k]) =>
         /\ groups[g].title <= k
         /\ feed[k].severity <= groups[g].severity
         /\ k < groups[g].detail => feed[k].severity < groups[g].severity

FindingsInv == FindingsTypeOK /\ Keyed /\ Covered /\ Grounded

-----------------------------------------------------------------------------
LEMMA InitFindings == FindingsInit => FindingsInv
<1> SUFFICES ASSUME FindingsInit PROVE FindingsInv
  OBVIOUS
<1>1. groups = <<>> /\ read = 0 /\ feed \in Seq(Item) /\ ~sorted
  BY FindingsAssumption DEF FindingsInit
<1>2. FindingsTypeOK
  BY <1>1 DEF FindingsTypeOK
<1>3. Keyed /\ Covered /\ Grounded
  BY <1>1 DEF Keyed, Covered, Grounded
<1> QED
  BY <1>2, <1>3 DEF FindingsInv

\* The key of a finding is one of those GroupState allows.
LEMMA KeyType ==
  ASSUME NEW f \in Item
  PROVE  FindingKey(f) \in {<<"id", p>> : p \in Place} \cup {<<"title", Folded[t]>> : t \in Title}
<1>1. CASE f.place # Nowhere
  <2>1. f.place \in Place
    BY <1>1 DEF Item
  <2> QED
    BY <1>1, <2>1 DEF FindingKey
<1>2. CASE f.place = Nowhere
  <2>1. f.title \in Title
    BY DEF Item
  <2> QED
    BY <1>2, <2>1 DEF FindingKey
<1> QED
  BY <1>1, <1>2

LEMMA OpenKeeps ==
  ASSUME FindingsInv, OpenGroup
  PROVE  FindingsInv'
<1> USE DEF FindingsInv
<1> DEFINE new == [key |-> FindingKey(Current), severity |-> Current.severity,
                   title |-> read + 1, detail |-> read + 1, sources |-> <<Current.agent>>]
<1>1. /\ read \in Nat /\ read + 1 \in 1 .. Len(feed) /\ feed \in Seq(Item)
      /\ feed' = feed /\ read' = read + 1 /\ sorted' = sorted
      /\ groups' = Append(groups, new) /\ groups \in Seq(GroupState)
  BY DEF FindingsTypeOK, OpenGroup
<1>2. Current \in Item /\ Current = feed[read + 1]
  BY <1>1 DEF Current
<1>3. new \in GroupState'
  <2>1. new.key \in {<<"id", p>> : p \in Place} \cup {<<"title", Folded[t]>> : t \in Title}
    BY <1>2, KeyType
  <2>2. new.sources \in Seq(Agent) /\ new.severity \in Severity
    BY <1>2 DEF Item
  <2> QED
    BY <1>1, <2>1, <2>2 DEF GroupState
<1>4. \A s \in GroupState : s \in GroupState'
  BY <1>1 DEF GroupState
<1>5. groups \in Seq(GroupState')
  BY <1>1, <1>4
<1>6. FindingsTypeOK'
  <2>1. groups' \in Seq(GroupState')
    BY <1>1, <1>3, <1>5
  <2>2. ~sorted
    BY <1>1 DEF FindingsTypeOK, OpenGroup
  <2> QED
    BY <1>1, <2>1, <2>2 DEF FindingsTypeOK
<1>7. /\ Len(groups') = Len(groups) + 1 /\ Len(groups) \in Nat
      /\ DOMAIN groups = 1 .. Len(groups) /\ DOMAIN groups' = 1 .. Len(groups) + 1
      /\ groups'[Len(groups) + 1] = new
      /\ \A g \in DOMAIN groups : groups'[g] = groups[g] /\ groups[g] \in GroupState
  BY <1>1
<1> HIDE DEF new
<1>8. /\ new.key = FindingKey(feed[read + 1]) /\ new.severity = feed[read + 1].severity
      /\ new.title = read + 1 /\ new.detail = read + 1
      /\ new.sources[1] = feed[read + 1].agent /\ 1 \in DOMAIN new.sources
  BY <1>2 DEF new
<1>9. \A g \in DOMAIN groups : groups[g].key # new.key
  BY <1>8, <1>2 DEF OpenGroup
<1>13. new.severity \in Int
  BY <1>2, <1>8 DEF Item, Severity, Info, Warning, Critical
<1>10. Keyed'
  BY <1>1, <1>7, <1>8, <1>9 DEF Keyed
<1>11. Covered'
  <2> SUFFICES ASSUME NEW k \in 1 .. read + 1
      PROVE \E g \in DOMAIN groups' :
              /\ groups'[g].key = FindingKey(feed[k])
              /\ groups'[g].severity >= feed[k].severity
              /\ \E i \in DOMAIN groups'[g].sources : groups'[g].sources[i] = feed[k].agent
    BY <1>1 DEF Covered
  <2>1. CASE k = read + 1
    <3>1. new.severity >= feed[k].severity
      BY <2>1, <1>8, <1>13
    <3> QED
      BY <2>1, <3>1, <1>7, <1>8
  <2>2. CASE k # read + 1
    <3>1. k \in 1 .. read
      BY <2>2, <1>1
    <3> QED
      BY <3>1, <1>7 DEF Covered
  <2> QED
    BY <2>1, <2>2
<1>12. Grounded'
  <2> SUFFICES ASSUME NEW g \in DOMAIN groups'
      PROVE /\ groups'[g].severity = feed[groups'[g].detail].severity
            /\ groups'[g].key = FindingKey(feed[groups'[g].detail])
            /\ \A k \in 1 .. read + 1 : groups'[g].key = FindingKey(feed[k]) =>
                 /\ groups'[g].title <= k
                 /\ feed[k].severity <= groups'[g].severity
                 /\ k < groups'[g].detail => feed[k].severity < groups'[g].severity
    BY <1>1 DEF Grounded
  <2>1. CASE g = Len(groups) + 1
    <3>1. \A k \in 1 .. read : FindingKey(feed[k]) # new.key
      BY <1>9 DEF Covered
    <3>2. feed[read + 1].severity <= new.severity
      BY <1>8, <1>13
    <3>3. \A k \in 1 .. read + 1 : new.key = FindingKey(feed[k]) => k = read + 1
      BY <3>1, <1>1
    <3> QED
      BY <2>1, <3>2, <3>3, <1>1, <1>7, <1>8
  <2>2. CASE g # Len(groups) + 1
    <3>1. g \in DOMAIN groups /\ groups'[g] = groups[g]
      BY <2>2, <1>7
    <3>2. \A k \in 1 .. read + 1 : groups[g].key = FindingKey(feed[k]) => k \in 1 .. read
      BY <3>1, <1>1, <1>2, <1>8, <1>9
    <3> QED
      BY <3>1, <3>2 DEF Grounded
  <2> QED
    BY <2>1, <2>2
<1> QED
  BY <1>6, <1>10, <1>11, <1>12

\* What a group is after the next finding joined it.
NextState ==
  [key : {<<"id", p>> : p \in Place} \cup {<<"title", Folded[t]>> : t \in Title},
   severity : Severity, title : 1 .. read + 1, detail : 1 .. read + 1, sources : Seq(Agent)]

\* Crediting and promoting a group of well-typed state.
LEMMA MergeFacts ==
  ASSUME FindingsTypeOK, read < Len(feed), NEW s \in GroupState
  PROVE  LET t == Credit(Promote(s)) IN
         /\ t.key = s.key /\ t.title = s.title
         /\ t.severity = IF Current.severity > s.severity THEN Current.severity ELSE s.severity
         /\ t.detail = IF Current.severity > s.severity THEN read + 1 ELSE s.detail
         /\ t.sources \in Seq(Agent)
         /\ \A i \in DOMAIN s.sources : i \in DOMAIN t.sources /\ t.sources[i] = s.sources[i]
         /\ \E i \in DOMAIN t.sources : t.sources[i] = Current.agent
         /\ t \in NextState
<1> DEFINE p == Promote(s)
           t == Credit(p)
<1>1. Current \in Item
  BY DEF Current, FindingsTypeOK
<1>2. /\ p.key = s.key /\ p.title = s.title /\ p.sources = s.sources
      /\ p.severity = IF Current.severity > s.severity THEN Current.severity ELSE s.severity
      /\ p.detail = IF Current.severity > s.severity THEN read + 1 ELSE s.detail
  BY DEF Promote, GroupState
<1>6. p \in NextState
  <2>1. s \in NextState /\ read + 1 \in 1 .. read + 1 /\ Current.severity \in Severity
    BY <1>1 DEF NextState, GroupState, FindingsTypeOK, Item
  <2> QED
    BY <2>1 DEF Promote, NextState
<1>3. s.sources \in Seq(Agent) /\ Current.agent \in Agent
  BY <1>1 DEF GroupState, Item
<1> HIDE DEF p
<1>4. CASE \E i \in DOMAIN p.sources : p.sources[i] = Current.agent
  <2>1. t = p
    BY <1>4 DEF Credit
  <2> QED
    BY <2>1, <1>2, <1>3, <1>4, <1>6 DEF p
<1>5. CASE ~(\E i \in DOMAIN p.sources : p.sources[i] = Current.agent)
  <2>1. t = [p EXCEPT !.sources = Append(p.sources, Current.agent)]
    BY <1>5 DEF Credit
  <2>2. t.sources = Append(s.sources, Current.agent)
    BY <2>1, <1>2
  <2>3. /\ t.sources \in Seq(Agent) /\ Len(t.sources) = Len(s.sources) + 1
        /\ t.sources[Len(s.sources) + 1] = Current.agent
        /\ Len(s.sources) + 1 \in DOMAIN t.sources
        /\ \A i \in DOMAIN s.sources : i \in DOMAIN t.sources /\ t.sources[i] = s.sources[i]
    BY <2>2, <1>3
  <2>4. /\ t.key = s.key /\ t.title = s.title
        /\ t.severity = p.severity /\ t.detail = p.detail
    BY <2>1, <1>2
  <2>5. t \in NextState
    BY <2>1, <2>2, <2>3, <1>2, <1>6 DEF NextState
  <2> QED
    BY <2>3, <2>4, <2>5, <1>2 DEF p
<1> QED
  BY <1>4, <1>5

LEMMA JoinKeeps ==
  ASSUME FindingsInv, NEW g \in DOMAIN groups, JoinGroup(g)
  PROVE  FindingsInv'
<1> USE DEF FindingsInv
<1> DEFINE s == groups[g]
           t == Credit(Promote(s))
<1>1. /\ read \in Nat /\ read < Len(feed) /\ read + 1 \in 1 .. Len(feed) /\ feed \in Seq(Item)
      /\ feed' = feed /\ read' = read + 1 /\ sorted' = sorted
      /\ groups \in Seq(GroupState)
  BY DEF FindingsTypeOK, JoinGroup
<1>2. Current \in Item /\ Current = feed[read + 1] /\ Current.severity \in Int
  <2>1. Current \in Item /\ Current = feed[read + 1]
    BY <1>1 DEF Current
  <2> QED
    BY <2>1, SeverityIsInt
<1>3. s \in GroupState /\ s.severity \in Int /\ s.title \in Int /\ s.detail \in Int
  <2>1. s \in GroupState
    BY <1>1
  <2> QED
    BY <2>1, SeverityIsInt DEF GroupState
<1>4. groups' = [groups EXCEPT ![g] = t]
  BY DEF JoinGroup
<1>5. s.key = FindingKey(Current)
  BY DEF JoinGroup
<1>6. /\ t.key = s.key /\ t.title = s.title
      /\ t.severity = IF Current.severity > s.severity THEN Current.severity ELSE s.severity
      /\ t.detail = IF Current.severity > s.severity THEN read + 1 ELSE s.detail
      /\ \A i \in DOMAIN s.sources : i \in DOMAIN t.sources /\ t.sources[i] = s.sources[i]
      /\ \E i \in DOMAIN t.sources : t.sources[i] = Current.agent
      /\ t \in NextState
  BY <1>1, <1>3, MergeFacts
<1> HIDE DEF t
<1>7. /\ DOMAIN groups' = DOMAIN groups /\ groups'[g] = t
      /\ \A h \in DOMAIN groups : h # g => groups'[h] = groups[h]
  BY <1>1, <1>4
<1>8. FindingsTypeOK'
  <2>1. \A r \in GroupState : r \in NextState
    BY <1>1 DEF GroupState, NextState
  <2>2. groups \in Seq(NextState)
    BY <1>1, <2>1
  <2>3. groups' \in Seq(NextState)
    BY <2>2, <1>4, <1>6
  <2>4. NextState = GroupState'
    BY <1>1 DEF NextState, GroupState
  <2>5. ~sorted
    BY <1>1 DEF FindingsTypeOK
  <2> QED
    BY <1>1, <2>3, <2>4, <2>5 DEF FindingsTypeOK
<1>9. Keyed'
  BY <1>1, <1>6, <1>7 DEF Keyed
<1>10. Covered'
  <2> SUFFICES ASSUME NEW k \in 1 .. read + 1
      PROVE \E h \in DOMAIN groups' :
              /\ groups'[h].key = FindingKey(feed[k])
              /\ groups'[h].severity >= feed[k].severity
              /\ \E i \in DOMAIN groups'[h].sources : groups'[h].sources[i] = feed[k].agent
    BY <1>1 DEF Covered
  <2>1. CASE k = read + 1
    <3>1. t.severity >= Current.severity
      BY <1>2, <1>3, <1>6
    <3> QED
      BY <2>1, <3>1, <1>2, <1>5, <1>6, <1>7
  <2>2. CASE k # read + 1
    <3>1. k \in 1 .. read
      BY <2>2, <1>1
    <3>2. PICK h \in DOMAIN groups :
            /\ groups[h].key = FindingKey(feed[k])
            /\ groups[h].severity >= feed[k].severity
            /\ \E i \in DOMAIN groups[h].sources : groups[h].sources[i] = feed[k].agent
      BY <3>1 DEF Covered
    <3>3. CASE h # g
      BY <3>2, <3>3, <1>7
    <3>4. CASE h = g
      <4>1. feed[k].severity \in Int
        BY <3>1, <1>1, SeverityIsInt
      <4>2. t.severity >= feed[k].severity
        BY <4>1, <3>2, <3>4, <1>2, <1>3, <1>6
      <4>3. t.key = FindingKey(feed[k])
        BY <3>2, <3>4, <1>6
      <4>4. \E i \in DOMAIN t.sources : t.sources[i] = feed[k].agent
        BY <3>2, <3>4, <1>6
      <4> QED
        BY <4>2, <4>3, <4>4, <1>7
    <3> QED
      BY <3>3, <3>4
  <2> QED
    BY <2>1, <2>2
<1>11. Grounded'
  <2> SUFFICES ASSUME NEW h \in DOMAIN groups'
      PROVE /\ groups'[h].severity = feed[groups'[h].detail].severity
            /\ groups'[h].key = FindingKey(feed[groups'[h].detail])
            /\ \A k \in 1 .. read + 1 : groups'[h].key = FindingKey(feed[k]) =>
                 /\ groups'[h].title <= k
                 /\ feed[k].severity <= groups'[h].severity
                 /\ k < groups'[h].detail => feed[k].severity < groups'[h].severity
    BY <1>1 DEF Grounded
  <2>1. CASE h # g
    <3>1. h \in DOMAIN groups /\ groups'[h] = groups[h]
      BY <2>1, <1>7
    <3>2. groups[h].key # FindingKey(feed[read + 1])
      BY <3>1, <2>1, <1>2, <1>5 DEF Keyed
    <3>3. \A k \in 1 .. read + 1 : groups[h].key = FindingKey(feed[k]) => k \in 1 .. read
      BY <3>2, <1>1
    <3> QED
      BY <3>1, <3>3 DEF Grounded
  <2>2. CASE h = g
    <3>1. /\ s.severity = feed[s.detail].severity
          /\ s.key = FindingKey(feed[s.detail])
          /\ \A k \in 1 .. read : s.key = FindingKey(feed[k]) =>
               /\ s.title <= k
               /\ feed[k].severity <= s.severity
               /\ k < s.detail => feed[k].severity < s.severity
      BY DEF Grounded
    <3>2. t.severity = feed[t.detail].severity /\ t.key = FindingKey(feed[t.detail])
      BY <3>1, <1>2, <1>5, <1>6
    <3>3. s.title <= read + 1 /\ s.detail <= read
      BY <1>1, <1>3 DEF GroupState
    <3>4. ASSUME NEW k \in 1 .. read + 1, t.key = FindingKey(feed[k])
          PROVE  /\ t.title <= k
                 /\ feed[k].severity <= t.severity
                 /\ k < t.detail => feed[k].severity < t.severity
      <4>1. CASE k = read + 1
        BY <4>1, <3>3, <1>1, <1>2, <1>3, <1>6
      <4>2. CASE k # read + 1
        <5>1. k \in 1 .. read /\ s.key = FindingKey(feed[k])
          BY <4>2, <3>4, <1>1, <1>6
        <5>2. feed[k].severity \in Int
          BY <5>1, <1>1, SeverityIsInt
        <5>3. /\ s.title <= k /\ feed[k].severity <= s.severity
              /\ k < s.detail => feed[k].severity < s.severity
          BY <5>1, <3>1
        <5> HIDE DEF s
        <5>4. CASE Current.severity > s.severity
          BY <5>2, <5>3, <5>4, <1>2, <1>3, <1>6
        <5>5. CASE ~(Current.severity > s.severity)
          BY <5>3, <5>5, <1>6
        <5> QED
          BY <5>4, <5>5
      <4> QED
        BY <4>1, <4>2
    <3> QED
      BY <2>2, <3>2, <3>4, <1>7
  <2> QED
    BY <2>1, <2>2
<1> QED
  BY <1>8, <1>9, <1>10, <1>11

LEMMA FindingsStep == FindingsInv /\ [FindingsNext]_findingVars => FindingsInv'
<1> SUFFICES ASSUME FindingsInv, [FindingsNext]_findingVars PROVE FindingsInv'
  OBVIOUS
<1>1. CASE OpenGroup
  BY <1>1, OpenKeeps
<1>2. ASSUME NEW g \in DOMAIN groups, JoinGroup(g) PROVE FindingsInv'
  BY <1>2, JoinKeeps
<1>3. CASE Sort \/ UNCHANGED findingVars
  <2>1. feed' = feed /\ read' = read /\ groups' = groups /\ (sorted' => read = Len(feed))
    BY <1>3 DEF Sort, findingVars, FindingsInv, FindingsTypeOK
  <2> QED
    BY <2>1 DEF FindingsInv, FindingsTypeOK, GroupState, Keyed, Covered, Grounded
<1> QED
  BY <1>1, <1>2, <1>3 DEF FindingsNext

\* The fold's invariant, for every input.
THEOREM FindingsInvariant == FindingsSpec => []FindingsInv
<1> QED
  BY InitFindings, FindingsStep, PTL DEF FindingsSpec

\* The fold keeps its types and sorts only what was read to the end.
THEOREM FindingsTypeCorrect == FindingsSpec => []FindingsTypeOK
<1>1. FindingsInv => FindingsTypeOK
  BY DEF FindingsInv
<1> QED
  BY <1>1, FindingsInvariant, PTL

\* No reported issue is lost, split or made less severe by the merge.
THEOREM MergeLosesNothing == FindingsSpec => []NothingIsLost
<1>1. FindingsInv => NothingIsLost
  <2> SUFFICES ASSUME FindingsInv, NEW k \in 1 .. read
      PROVE \E g \in DOMAIN groups :
              /\ SameIssue(feed[k], feed[groups[g].title])
              /\ groups[g].severity >= feed[k].severity
              /\ \E i \in DOMAIN groups[g].sources : groups[g].sources[i] = feed[k].agent
              /\ \A h \in DOMAIN groups : SameIssue(feed[k], feed[groups[h].title]) => h = g
    BY DEF NothingIsLost
  <2>1. feed[k] \in Item
    BY DEF FindingsInv, FindingsTypeOK
  <2>2. \A g \in DOMAIN groups : feed[groups[g].title] \in Item
    <3> SUFFICES ASSUME NEW g \in DOMAIN groups PROVE feed[groups[g].title] \in Item
      OBVIOUS
    <3>1. groups[g] \in GroupState
      BY DEF FindingsInv, FindingsTypeOK
    <3>2. groups[g].title \in 1 .. Len(feed)
      BY <3>1 DEF GroupState, FindingsInv, FindingsTypeOK
    <3> QED
      BY <3>2 DEF FindingsInv, FindingsTypeOK
  <2>3. \A g \in DOMAIN groups :
          SameIssue(feed[k], feed[groups[g].title]) <=> groups[g].key = FindingKey(feed[k])
    BY <2>1, <2>2, KeysAreIssues DEF FindingsInv, Keyed
  <2>4. PICK g \in DOMAIN groups :
          /\ groups[g].key = FindingKey(feed[k])
          /\ groups[g].severity >= feed[k].severity
          /\ \E i \in DOMAIN groups[g].sources : groups[g].sources[i] = feed[k].agent
    BY DEF FindingsInv, Covered
  <2>5. \A h \in DOMAIN groups : SameIssue(feed[k], feed[groups[h].title]) => h = g
    BY <2>3, <2>4 DEF FindingsInv, Keyed
  <2> QED
    BY <2>3, <2>4, <2>5
<1> QED
  BY <1>1, FindingsInvariant, PTL

\* A group's severity and detail come from the first of its most severe findings, its
\* title from the first of all.
THEOREM MergeInventsNothing == FindingsSpec => []NothingIsInvented
<1>1. FindingsInv => NothingIsInvented
  <2> SUFFICES ASSUME FindingsInv, NEW g \in DOMAIN groups
      PROVE LET s == groups[g] IN
              /\ s.severity = feed[s.detail].severity
              /\ SameIssue(feed[s.title], feed[s.detail])
              /\ \A k \in 1 .. read :
                   SameIssue(feed[s.title], feed[k]) =>
                     s.title <= k /\ (k < s.detail => feed[k].severity < s.severity)
    BY DEF NothingIsInvented
  <2>1. groups[g] \in GroupState
    BY DEF FindingsInv, FindingsTypeOK
  <2>2. \A k \in 1 .. read : feed[k] \in Item
    BY DEF FindingsInv, FindingsTypeOK
  <2>3. groups[g].title \in 1 .. read /\ groups[g].detail \in 1 .. read
    BY <2>1 DEF GroupState
  <2>4. \A k \in 1 .. read :
          SameIssue(feed[groups[g].title], feed[k]) <=> groups[g].key = FindingKey(feed[k])
    BY <2>2, <2>3, KeysAreIssues DEF FindingsInv, Keyed
  <2> QED
    BY <2>3, <2>4 DEF FindingsInv, Grounded
<1> QED
  BY <1>1, FindingsInvariant, PTL

-----------------------------------------------------------------------------
(* Who is named for a finding, and in which order.                           *)

\* The k-th finding of feed f is agent a's first with this key.
FirstFinding(f, key, a, k) ==
  /\ f[k].agent = a /\ FindingKey(f[k]) = key
  /\ \A j \in 1 .. k - 1 : f[j].agent = a => FindingKey(f[j]) # key

\* After n findings each source of a group has its first one, and they follow in that order.
GroupSources(f, n, s) ==
  /\ \A i \in DOMAIN s.sources : \E k \in 1 .. n : FirstFinding(f, s.key, s.sources[i], k)
  /\ \A i, j \in DOMAIN s.sources : i < j =>
       \A k, l \in 1 .. n :
         FirstFinding(f, s.key, s.sources[i], k) /\ FirstFinding(f, s.key, s.sources[j], l) => k < l

SourcesInv == \A g \in DOMAIN groups : GroupSources(feed, read, groups[g])

\* The groups were opened in the order of their titles, and the report is theirs.
SortInv ==
  /\ \A g, h \in DOMAIN groups : g < h => groups[g].title < groups[h].title
  /\ sorted => report = Sorted(groups)

LEMMA FirstIsUnique ==
  ASSUME NEW f, NEW key, NEW a, NEW k \in Nat \ {0}, NEW l \in Nat \ {0},
         FirstFinding(f, key, a, k), FirstFinding(f, key, a, l)
  PROVE  k = l
<1>1. ~(k < l) /\ ~(l < k)
  BY DEF FirstFinding
<1> QED
  BY <1>1

\* A finding more changes nothing for the sources a group has.
LEMMA SourcesOutlive ==
  ASSUME NEW f, NEW n \in Nat, NEW s, GroupSources(f, n, s)
  PROVE  GroupSources(f, n + 1, s)
<1>1. ASSUME NEW i \in DOMAIN s.sources, NEW k \in 1 .. n + 1,
             FirstFinding(f, s.key, s.sources[i], k)
      PROVE  k \in 1 .. n
  <2>1. PICK l \in 1 .. n : FirstFinding(f, s.key, s.sources[i], l)
    BY DEF GroupSources
  <2>2. k = l
    BY <1>1, <2>1, FirstIsUnique
  <2> QED
    BY <2>2
<1>2. \A i \in DOMAIN s.sources : \E k \in 1 .. n + 1 : FirstFinding(f, s.key, s.sources[i], k)
  BY DEF GroupSources
<1> QED
  BY <1>1, <1>2 DEF GroupSources

\* The first finding of an issue names its agent.
LEMMA OpenerIsSource ==
  ASSUME NEW f, NEW n \in Nat, NEW s, s.sources = <<f[n + 1].agent>>,
         s.key = FindingKey(f[n + 1]), \A j \in 1 .. n : FindingKey(f[j]) # s.key
  PROVE  GroupSources(f, n + 1, s)
<1>1. DOMAIN s.sources = {1} /\ s.sources[1] = f[n + 1].agent
  OBVIOUS
<1>2. FirstFinding(f, s.key, s.sources[1], n + 1)
  BY <1>1 DEF FirstFinding
<1> QED
  BY <1>1, <1>2 DEF GroupSources

\* An agent that was not named yet has its first finding of the group just now.
LEMMA CreditedIsSource ==
  ASSUME NEW f, NEW n \in Nat, NEW s, NEW t, GroupSources(f, n, s),
         s.sources \in Seq(Agent), f[n + 1].agent \in Agent,
         t.key = s.key, s.key = FindingKey(f[n + 1]),
         t.sources = Append(s.sources, f[n + 1].agent),
         \A i \in DOMAIN s.sources : s.sources[i] # f[n + 1].agent,
         \A j \in 1 .. n : FindingKey(f[j]) = s.key =>
           \E i \in DOMAIN s.sources : s.sources[i] = f[j].agent
  PROVE  GroupSources(f, n + 1, t)
<1> DEFINE m == Len(s.sources) + 1
<1>1. /\ m \in Nat /\ DOMAIN s.sources = 1 .. m - 1 /\ DOMAIN t.sources = 1 .. m
      /\ t.sources[m] = f[n + 1].agent
      /\ \A i \in DOMAIN s.sources : t.sources[i] = s.sources[i]
  OBVIOUS
<1> HIDE DEF m
<1>2. FirstFinding(f, t.key, t.sources[m], n + 1)
  BY <1>1 DEF FirstFinding
<1>3. \A k \in 1 .. n + 1 : FirstFinding(f, t.key, t.sources[m], k) => k = n + 1
  <2>1. n + 1 \in Nat \ {0} /\ \A k \in 1 .. n + 1 : k \in Nat \ {0}
    OBVIOUS
  <2> HIDE DEF GroupSources
  <2> QED
    BY <1>2, <2>1, FirstIsUnique
<1>4. ASSUME NEW i \in DOMAIN s.sources
      PROVE  /\ \E k \in 1 .. n : FirstFinding(f, t.key, t.sources[i], k)
             /\ \A k \in 1 .. n + 1 : FirstFinding(f, t.key, t.sources[i], k) => k \in 1 .. n
  <2>1. PICK l \in 1 .. n : FirstFinding(f, t.key, t.sources[i], l)
    BY <1>1 DEF GroupSources
  <2>2. \A k \in 1 .. n + 1 : FirstFinding(f, t.key, t.sources[i], k) => k = l
    BY <2>1, FirstIsUnique
  <2> QED
    BY <2>1, <2>2
<1>5. \A i \in DOMAIN t.sources : i = m \/ i \in DOMAIN s.sources
  BY <1>1
<1>6. \A i \in DOMAIN t.sources : \E k \in 1 .. n + 1 : FirstFinding(f, t.key, t.sources[i], k)
  BY <1>2, <1>4, <1>5
<1>7. ASSUME NEW i \in DOMAIN t.sources, NEW j \in DOMAIN t.sources, i < j,
             NEW k \in 1 .. n + 1, NEW l \in 1 .. n + 1,
             FirstFinding(f, t.key, t.sources[i], k), FirstFinding(f, t.key, t.sources[j], l)
      PROVE  k < l
  <2>1. i \in DOMAIN s.sources
    BY <1>1, <1>7
  <2>2. k \in 1 .. n
    BY <1>4, <1>7, <2>1
  <2>3. CASE j = m
    BY <1>3, <1>7, <2>2, <2>3
  <2>4. CASE j # m
    <3>1. j \in DOMAIN s.sources /\ l \in 1 .. n
      BY <1>4, <1>5, <1>7, <2>4
    <3> QED
      BY <1>1, <1>7, <2>1, <2>2, <3>1 DEF GroupSources
  <2> QED
    BY <2>3, <2>4
<1> QED
  BY <1>6, <1>7 DEF GroupSources

LEMMA OpenOrders ==
  ASSUME FindingsInv, SourcesInv, SortInv, OpenGroup
  PROVE  SourcesInv' /\ SortInv'
<1> DEFINE new == [key |-> FindingKey(Current), severity |-> Current.severity,
                   title |-> read + 1, detail |-> read + 1, sources |-> <<Current.agent>>]
           n == Len(groups) + 1
<1>1. /\ read \in Nat /\ feed' = feed /\ read' = read + 1 /\ ~sorted /\ sorted' = sorted
      /\ groups' = Append(groups, new) /\ groups \in Seq(GroupState)
      /\ Current = feed[read + 1]
  BY DEF FindingsInv, FindingsTypeOK, OpenGroup, Current
<1>2. /\ n \in Nat /\ DOMAIN groups = 1 .. n - 1 /\ DOMAIN groups' = 1 .. n
      /\ groups'[n] = new /\ \A g \in DOMAIN groups : groups'[g] = groups[g]
  BY <1>1
<1>3. /\ new.key = FindingKey(feed[read + 1]) /\ new.sources = <<feed[read + 1].agent>>
      /\ new.title = read + 1
  BY <1>1
<1>4. \A j \in 1 .. read : FindingKey(feed[j]) # new.key
  BY <1>1 DEF FindingsInv, Covered, OpenGroup
<1> HIDE DEF new, n
<1>5. GroupSources(feed, read + 1, new)
  BY <1>1, <1>3, <1>4, OpenerIsSource
<1>6. \A g \in DOMAIN groups : GroupSources(feed, read + 1, groups[g])
  BY <1>1, SourcesOutlive DEF SourcesInv
<1>7. SourcesInv'
  <2>1. \A g \in DOMAIN groups' : g = n \/ g \in DOMAIN groups
    BY <1>2
  <2> QED
    BY <1>1, <1>2, <1>5, <1>6, <2>1 DEF SourcesInv
<1>8. SortInv'
  <2>1. \A g \in DOMAIN groups : groups[g].title \in 1 .. read
    <3>1. \A g \in DOMAIN groups : groups[g] \in GroupState
      BY <1>1
    <3> QED
      BY <3>1 DEF GroupState
  <2>2. ASSUME NEW g \in DOMAIN groups', NEW h \in DOMAIN groups', g < h
        PROVE  groups'[g].title < groups'[h].title
    <3>1. g \in DOMAIN groups
      BY <1>2, <2>2
    <3>2. CASE h = n
      BY <1>1, <1>2, <1>3, <2>1, <3>1, <3>2
    <3>3. CASE h # n
      <4>1. h \in DOMAIN groups
        BY <1>2, <3>3
      <4> QED
        BY <1>2, <2>2, <3>1, <4>1 DEF SortInv
    <3> QED
      BY <3>2, <3>3
  <2> QED
    BY <1>1, <2>2 DEF SortInv
<1> QED
  BY <1>7, <1>8

LEMMA JoinOrders ==
  ASSUME FindingsInv, SourcesInv, SortInv, NEW g \in DOMAIN groups, JoinGroup(g)
  PROVE  SourcesInv' /\ SortInv'
<1> DEFINE s == groups[g]
           p == Promote(s)
           t == Credit(p)
<1>1. /\ read \in Nat /\ read < Len(feed) /\ feed \in Seq(Item) /\ feed' = feed
      /\ read' = read + 1 /\ ~sorted /\ sorted' = sorted
      /\ groups \in Seq(GroupState) /\ s \in GroupState
      /\ groups' = [groups EXCEPT ![g] = t]
      /\ Current = feed[read + 1] /\ s.key = FindingKey(Current)
  BY DEF FindingsInv, FindingsTypeOK, JoinGroup, Current
<1>2. /\ DOMAIN groups' = DOMAIN groups /\ groups'[g] = t
      /\ \A h \in DOMAIN groups : h # g => groups'[h] = groups[h]
  BY <1>1
<1>3. t.key = s.key /\ t.title = s.title
  BY <1>1, MergeFacts DEF FindingsInv
<1>4. p.sources = s.sources /\ s.sources \in Seq(Agent) /\ Current.agent \in Agent
  <2>1. Current \in Item
    BY <1>1
  <2> QED
    BY <1>1, <2>1 DEF Promote, GroupState, Item
<1>5. GroupSources(feed, read, s)
  BY DEF SourcesInv
<1>6. GroupSources(feed, read + 1, t)
  <2>1. CASE \E i \in DOMAIN p.sources : p.sources[i] = Current.agent
    <3>1. t.sources = s.sources
      BY <1>4, <2>1 DEF Credit
    <3>2. GroupSources(feed, read + 1, s)
      BY <1>1, <1>5, SourcesOutlive
    <3> HIDE DEF s, t
    <3> QED
      BY <1>3, <3>1, <3>2 DEF GroupSources
  <2>2. CASE ~\E i \in DOMAIN p.sources : p.sources[i] = Current.agent
    <3>1. t.sources = Append(s.sources, Current.agent)
      <4>1. t = [p EXCEPT !.sources = Append(p.sources, Current.agent)]
        BY <2>2 DEF Credit
      <4>2. p.sources = s.sources /\ "sources" \in DOMAIN p
        BY <1>1 DEF Promote, GroupState
      <4> HIDE DEF p
      <4> QED
        BY <4>1, <4>2
    <3>2. \A i \in DOMAIN s.sources : s.sources[i] # Current.agent
      BY <1>4, <2>2
    <3>3. ASSUME NEW j \in 1 .. read, FindingKey(feed[j]) = s.key
          PROVE  \E i \in DOMAIN s.sources : s.sources[i] = feed[j].agent
      <4>1. PICK h \in DOMAIN groups :
              /\ groups[h].key = FindingKey(feed[j])
              /\ \E i \in DOMAIN groups[h].sources : groups[h].sources[i] = feed[j].agent
        BY DEF FindingsInv, Covered
      <4>2. h = g
        BY <3>3, <4>1 DEF FindingsInv, Keyed
      <4> QED
        BY <4>1, <4>2
    <3> HIDE DEF s, p, t
    <3> QED
      BY <1>1, <1>3, <1>4, <1>5, <3>1, <3>2, <3>3, CreditedIsSource
  <2> QED
    BY <2>1, <2>2
<1>7. \A h \in DOMAIN groups : GroupSources(feed, read + 1, groups[h])
  BY <1>1, SourcesOutlive DEF SourcesInv
<1> HIDE DEF t
<1>8. SourcesInv'
  BY <1>1, <1>2, <1>6, <1>7 DEF SourcesInv
<1>9. SortInv'
  <2>1. \A h \in DOMAIN groups : groups'[h].title = groups[h].title
    BY <1>2, <1>3
  <2> QED
    BY <1>1, <1>2, <2>1 DEF SortInv
<1> QED
  BY <1>8, <1>9

-----------------------------------------------------------------------------
(* The stable sort.                                                          *)

\* The j-th group is put no later than the i-th.
Ahead(s, j, i) ==
  \/ s[j].severity > s[i].severity
  \/ s[j].severity = s[i].severity /\ j <= i

\* Positions are a permutation, and they follow the order.
LEMMA PositionsAre ==
  ASSUME NEW s, NEW n \in Nat, DOMAIN s = 1 .. n, \A i \in 1 .. n : s[i].severity \in Int
  PROVE  /\ \A i \in 1 .. n : Position(s, i) \in 1 .. n
         /\ \A i, j \in 1 .. n : Position(s, i) = Position(s, j) => i = j
         /\ \A i, j \in 1 .. n : Position(s, i) < Position(s, j) => Ahead(s, i, j)
<1> DEFINE Upto(i) == {j \in 1 .. n : Ahead(s, j, i)}
<1>1. \A i : Position(s, i) = Cardinality(Upto(i))
  BY DEF Position, Ahead
<1>2. \A i, j \in 1 .. n : Ahead(s, i, j) \/ Ahead(s, j, i)
  BY DEF Ahead
<1>3. \A i \in 1 .. n : Ahead(s, i, i)
  BY DEF Ahead
<1>4. \A i, j \in 1 .. n : Ahead(s, i, j) /\ Ahead(s, j, i) => i = j
  BY DEF Ahead
<1>5. \A i, j, k \in 1 .. n : Ahead(s, i, j) /\ Ahead(s, j, k) => Ahead(s, i, k)
  BY DEF Ahead
<1>6. IsFiniteSet(1 .. n) /\ Cardinality(1 .. n) = n
  <2>1. 1 \in Int /\ n \in Int
    OBVIOUS
  <2> QED
    BY <2>1, FS_Interval
<1>7. ASSUME NEW i \in 1 .. n
      PROVE  IsFiniteSet(Upto(i)) /\ Cardinality(Upto(i)) \in 1 .. n
  <2>1. IsFiniteSet(Upto(i)) /\ Cardinality(Upto(i)) <= n
    <3>1. Upto(i) \in SUBSET (1 .. n)
      OBVIOUS
    <3> QED
      BY <1>6, <3>1, FS_Subset
  <2>2. Cardinality(Upto(i)) \in Nat
    BY <2>1, FS_CardinalityType
  <2>3. Cardinality(Upto(i)) # 0
    <3>1. i \in Upto(i)
      BY <1>3
    <3> QED
      BY <2>1, <3>1, FS_EmptySet
  <2> QED
    BY <2>1, <2>2, <2>3
<1>8. ASSUME NEW i \in 1 .. n, NEW j \in 1 .. n, i # j, Ahead(s, i, j)
      PROVE  Cardinality(Upto(i)) < Cardinality(Upto(j))
  <2>1. Upto(i) \in SUBSET Upto(j)
    BY <1>5, <1>8
  <2>2. j \in Upto(j) /\ j \notin Upto(i)
    BY <1>3, <1>4, <1>8
  <2>3. /\ IsFiniteSet(Upto(j)) /\ Cardinality(Upto(i)) \in 1 .. n
        /\ Cardinality(Upto(j)) \in 1 .. n
    BY <1>7
  <2>4. /\ Cardinality(Upto(i)) <= Cardinality(Upto(j))
        /\ Cardinality(Upto(j)) = Cardinality(Upto(i)) => Upto(j) = Upto(i)
    BY <2>1, <2>3, FS_Subset
  <2>5. Cardinality(Upto(i)) # Cardinality(Upto(j))
    BY <2>2, <2>4
  <2> HIDE DEF Upto
  <2> QED
    BY <2>3, <2>4, <2>5
<1> HIDE DEF Upto
<1>9. \A i \in 1 .. n : Position(s, i) \in 1 .. n
  BY <1>1, <1>7
<1>10. \A i, j \in 1 .. n : i # j /\ Ahead(s, i, j) => Position(s, i) < Position(s, j)
  BY <1>1, <1>8
<1>11. \A i, j \in 1 .. n : Position(s, i) = Position(s, j) => i = j
  BY <1>2, <1>9, <1>10
<1>12. \A i, j \in 1 .. n : Position(s, i) < Position(s, j) => Ahead(s, i, j)
  BY <1>2, <1>3, <1>9, <1>10
<1> QED
  BY <1>9, <1>11, <1>12

LEMMA SortedIs ==
  ASSUME NEW s, NEW n \in Nat, DOMAIN s = 1 .. n, \A i \in 1 .. n : s[i].severity \in Int
  PROVE  /\ DOMAIN Sorted(s) = 1 .. n
         /\ \A i \in 1 .. n : Position(s, i) \in 1 .. n /\ Sorted(s)[Position(s, i)] = s[i]
         /\ \A p \in 1 .. n : \E i \in 1 .. n : Position(s, i) = p /\ Sorted(s)[p] = s[i]
<1>1. /\ \A i \in 1 .. n : Position(s, i) \in 1 .. n
      /\ \A i, j \in 1 .. n : Position(s, i) = Position(s, j) => i = j
  BY PositionsAre
<1> DEFINE f == [i \in 1 .. n |-> Position(s, i)]
<1>2. f \in Injection(1 .. n, 1 .. n)
  <2>1. f \in [1 .. n -> 1 .. n]
    BY <1>1
  <2>2. \A i, j \in 1 .. n : f[i] = f[j] => i = j
    BY <1>1
  <2> HIDE DEF f
  <2> QED
    BY <2>1, <2>2 DEF Injection, IsInjective
<1>3. \A p \in 1 .. n : \E i \in 1 .. n : Position(s, i) = p
  <2>1. IsFiniteSet(1 .. n)
    <3>1. 1 \in Int /\ n \in Int
      OBVIOUS
    <3> QED
      BY <3>1, FS_Interval
  <2>2. f \in Surjection(1 .. n, 1 .. n)
    BY <1>2, <2>1, FS_Injection
  <2>3. \A p \in 1 .. n : \E i \in 1 .. n : f[i] = p
    <3> HIDE DEF f
    <3> QED
      BY <2>2 DEF Surjection
  <2> QED
    BY <2>3
<1>4. \A p \in 1 .. n : Sorted(s)[p] = s[CHOOSE i \in 1 .. n : Position(s, i) = p]
  BY DEF Sorted
<1>5. DOMAIN Sorted(s) = 1 .. n
  BY DEF Sorted
<1>6. ASSUME NEW i \in 1 .. n
      PROVE  Sorted(s)[Position(s, i)] = s[i]
  <2>1. (CHOOSE j \in 1 .. n : Position(s, j) = Position(s, i)) = i
    BY <1>1
  <2> QED
    BY <1>1, <1>4, <2>1
<1> QED
  BY <1>1, <1>3, <1>5, <1>6

\* Groups and issues are the same thing.
LEMMA GroupsAreIssues ==
  ASSUME FindingsInv, NEW g \in DOMAIN groups, NEW k \in 1 .. read
  PROVE  SameIssue(feed[groups[g].title], feed[k]) <=> FindingKey(feed[k]) = groups[g].key
<1>1. groups[g] \in GroupState
  BY DEF FindingsInv, FindingsTypeOK
<1>2. groups[g].title \in 1 .. Len(feed) /\ k \in 1 .. Len(feed)
  BY <1>1 DEF GroupState, FindingsInv, FindingsTypeOK
<1>3. feed[groups[g].title] \in Item /\ feed[k] \in Item
  BY <1>2 DEF FindingsInv, FindingsTypeOK
<1> QED
  BY <1>3, KeysAreIssues DEF FindingsInv, Keyed

LEMMA SortOrders ==
  ASSUME FindingsInv, SourcesInv, SortInv, Sort \/ UNCHANGED findingVars
  PROVE  SourcesInv' /\ SortInv'
<1>1. feed' = feed /\ read' = read /\ groups' = groups /\ (sorted' => report' = Sorted(groups))
  BY DEF Sort, findingVars, SortInv
<1> QED
  BY <1>1 DEF SourcesInv, SortInv

\* What the fold promises of its report, for every feed: who is named for a finding, in
\* which order, and in which order the findings come.
THEOREM ReportsAreHonest == FindingsSpec => []ReportIsHonest
<1> DEFINE Inv == FindingsInv /\ SourcesInv /\ SortInv
<1>1. FindingsInit => Inv
  <2>1. FindingsInit => SourcesInv /\ SortInv
    BY DEF FindingsInit, SourcesInv, SortInv
  <2> QED
    BY <2>1, InitFindings
<1>2. Inv /\ [FindingsNext]_findingVars => Inv'
  BY FindingsStep, OpenOrders, JoinOrders, SortOrders DEF FindingsNext
<1>3. Inv => SourcesAreHonest
  <2> SUFFICES ASSUME FindingsInv, SourcesInv, NEW g \in DOMAIN groups
      PROVE  LET s == groups[g].sources
                 FirstOf(i) == CHOOSE k \in 1 .. read :
                        /\ feed[k].agent = s[i] /\ SameIssue(feed[groups[g].title], feed[k])
                        /\ \A j \in 1 .. k - 1 : feed[j].agent = s[i] =>
                             ~SameIssue(feed[groups[g].title], feed[j])
             IN  /\ \A i \in DOMAIN s : \E k \in 1 .. read :
                      feed[k].agent = s[i] /\ SameIssue(feed[groups[g].title], feed[k])
                 /\ \A i, j \in DOMAIN s : i < j => s[i] # s[j] /\ FirstOf(i) < FirstOf(j)
    BY DEF SourcesAreHonest
  <2> DEFINE s == groups[g].sources
             key == groups[g].key
             FirstOf(i) == CHOOSE k \in 1 .. read :
                        /\ feed[k].agent = s[i] /\ SameIssue(feed[groups[g].title], feed[k])
                        /\ \A j \in 1 .. k - 1 : feed[j].agent = s[i] =>
                             ~SameIssue(feed[groups[g].title], feed[j])
  <2>1. \A k \in 1 .. read :
          SameIssue(feed[groups[g].title], feed[k]) <=> FindingKey(feed[k]) = key
    BY GroupsAreIssues
  <2>2. read \in Nat /\ GroupSources(feed, read, groups[g])
    BY DEF FindingsInv, FindingsTypeOK, SourcesInv
  <2>3. ASSUME NEW i \in DOMAIN s, NEW k \in 1 .. read
        PROVE  FirstFinding(feed, key, s[i], k) <=>
                 /\ feed[k].agent = s[i] /\ SameIssue(feed[groups[g].title], feed[k])
                 /\ \A j \in 1 .. k - 1 : feed[j].agent = s[i] =>
                      ~SameIssue(feed[groups[g].title], feed[j])
    <3>1. \A j \in 1 .. k - 1 : j \in 1 .. read
      BY <2>2
    <3> HIDE DEF s, key
    <3> QED
      BY <2>1, <3>1 DEF FirstFinding
  <2>4. ASSUME NEW i \in DOMAIN s
        PROVE  FirstOf(i) \in 1 .. read /\ FirstFinding(feed, key, s[i], FirstOf(i))
    <3>1. \E k \in 1 .. read : FirstFinding(feed, key, s[i], k)
      BY <2>2 DEF GroupSources
    <3>2. FirstOf(i) = CHOOSE k \in 1 .. read :
                        /\ feed[k].agent = s[i] /\ SameIssue(feed[groups[g].title], feed[k])
                        /\ \A j \in 1 .. k - 1 : feed[j].agent = s[i] =>
                             ~SameIssue(feed[groups[g].title], feed[j])
      OBVIOUS
    <3> HIDE DEF FirstOf, s, key
    <3> QED
      BY <2>3, <3>1, <3>2
  <2>5. ASSUME NEW i \in DOMAIN s, NEW j \in DOMAIN s, i < j
        PROVE  s[i] # s[j] /\ FirstOf(i) < FirstOf(j)
    <3>1. \A k, l \in 1 .. read :
            FirstFinding(feed, key, s[i], k) /\ FirstFinding(feed, key, s[j], l) => k < l
      BY <2>2, <2>5 DEF GroupSources
    <3>2. /\ FirstOf(i) \in 1 .. read /\ FirstFinding(feed, key, s[i], FirstOf(i))
          /\ FirstOf(j) \in 1 .. read /\ FirstFinding(feed, key, s[j], FirstOf(j))
      BY <2>4
    <3> HIDE DEF FirstOf, s, key
    <3>3. FirstOf(i) < FirstOf(j)
      BY <3>1, <3>2
    <3>4. s[i] # s[j]
      <4> SUFFICES ASSUME s[i] = s[j] PROVE FALSE
        OBVIOUS
      <4>1. FirstOf(i) < FirstOf(i)
        BY <3>1, <3>2
      <4> QED
        BY <2>2, <3>2, <4>1
    <3> QED
      BY <3>3, <3>4
  <2>6. \A i \in DOMAIN s : \E k \in 1 .. read :
          feed[k].agent = s[i] /\ SameIssue(feed[groups[g].title], feed[k])
    <3> HIDE DEF FirstOf
    <3> QED
      BY <2>3, <2>4
  <2> QED
    BY <2>5, <2>6
<1>4. Inv => ReportIsOrdered
  <2> SUFFICES ASSUME FindingsInv, SortInv, sorted
      PROVE /\ Len(report) = Len(groups)
            /\ \A g \in DOMAIN groups : \E i \in DOMAIN report : report[i] = groups[g]
            /\ \A i, j \in DOMAIN report : i < j =>
                 \/ report[i].severity > report[j].severity
                 \/ report[i].severity = report[j].severity /\ report[i].title < report[j].title
    BY DEF ReportIsOrdered
  <2> DEFINE n == Len(groups)
  <2>1. groups \in Seq(GroupState) /\ report = Sorted(groups)
    BY DEF FindingsInv, FindingsTypeOK, SortInv
  <2>2. n \in Nat /\ DOMAIN groups = 1 .. n /\ \A g \in 1 .. n : groups[g] \in GroupState
    BY <2>1
  <2>3. \A g \in 1 .. n : groups[g].severity \in Int
    BY <2>2, SeverityIsInt
  <2> HIDE DEF n
  <2>4. /\ DOMAIN report = 1 .. n
        /\ \A g \in 1 .. n : Position(groups, g) \in 1 .. n
                             /\ report[Position(groups, g)] = groups[g]
        /\ \A p \in 1 .. n : \E g \in 1 .. n : Position(groups, g) = p /\ report[p] = groups[g]
    BY <2>1, <2>2, <2>3, SortedIs
  <2>5. Len(report) = n
    <3>1. report \in Seq(GroupState)
      <4>1. report = [p \in 1 .. n |-> report[p]]
        BY <2>1, <2>2, <2>4 DEF Sorted
      <4>2. \A p \in 1 .. n : report[p] \in GroupState
        BY <2>2, <2>4
      <4> QED
        BY <2>2, <4>1, <4>2
    <3> QED
      BY <2>2, <2>4, <3>1
  <2>6. ASSUME NEW p \in 1 .. n, NEW q \in 1 .. n, p < q
        PROVE  \/ report[p].severity > report[q].severity
               \/ report[p].severity = report[q].severity /\ report[p].title < report[q].title
    <3>1. PICK g \in 1 .. n : Position(groups, g) = p /\ report[p] = groups[g]
      BY <2>4
    <3>2. PICK h \in 1 .. n : Position(groups, h) = q /\ report[q] = groups[h]
      BY <2>4
    <3>3. Ahead(groups, g, h)
      BY <2>2, <2>3, <2>6, <3>1, <3>2, PositionsAre
    <3>4. g # h
      BY <2>2, <2>6, <3>1, <3>2
    <3>5. g < h => groups[g].title < groups[h].title
      BY <2>2 DEF SortInv
    <3> QED
      BY <2>2, <3>1, <3>2, <3>3, <3>4, <3>5 DEF Ahead
  <2> QED
    BY <2>2, <2>4, <2>5, <2>6 DEF n
<1> QED
  BY <1>1, <1>2, <1>3, <1>4, PTL DEF FindingsSpec, ReportIsHonest

-----------------------------------------------------------------------------
(* Consensus: the caller of the fold.                                       *)

\* determine touches the fold's state only through deduplicate_findings, so every call
\* is a run of Findings and all of the above holds of its findings.
THEOREM DetermineFolds == DetermineSpec => FindingsSpec
<1>1. DetermineInit => FindingsInit
  BY DEF DetermineInit
<1>2. [DetermineNext]_determineVars => [FindingsNext]_findingVars
  BY DEF DetermineNext, determineVars, Refuse, Deduplicate, Synthesize
<1> QED
  BY <1>1, <1>2, PTL DEF DetermineSpec, FindingsSpec

\* The findings of a result are the issues of the outputs: none lost, none invented, and
\* reported in the order and with the sources the contract names.
COROLLARY ReportedFindingsAreReal ==
  DetermineSpec => [](NothingIsLost /\ NothingIsInvented /\ ReportIsHonest)
BY DetermineFolds, MergeLosesNothing, MergeInventsNothing, ReportsAreHonest, PTL

\* What a result says of its sides is what the outputs say, and no agent spoke twice.
SidesInv ==
  Determined =>
    /\ ~Repeated
    /\ result.summary = {outputs[i].agent : i \in Side(outputs, result.verdict)}
    /\ result.dissent = Dissent(outputs, result.verdict)

LEMMA SidesStep == SidesInv /\ [DetermineNext]_determineVars => SidesInv'
<1> SUFFICES ASSUME SidesInv, [DetermineNext]_determineVars PROVE SidesInv'
  OBVIOUS
<1>1. CASE Refuse
  BY <1>1 DEF Refuse, SidesInv, Determined, TooFew, Duplicate
<1>2. CASE Deduplicate
  BY <1>2 DEF Deduplicate, SidesInv, Determined, Pending
<1>3. CASE Synthesize
  <2>1. /\ ~Repeated /\ outputs' = outputs
        /\ result'.summary = {outputs[i].agent : i \in Side(outputs, result'.verdict)}
        /\ result'.dissent = Dissent(outputs, result'.verdict)
    BY <1>3 DEF Synthesize, Admitted
  <2> QED
    BY <2>1 DEF SidesInv, Repeated, Side, Dissent
<1>4. CASE UNCHANGED determineVars
  BY <1>4 DEF determineVars, SidesInv, Determined, Repeated, Side, Dissent
<1> QED
  BY <1>1, <1>2, <1>3, <1>4 DEF DetermineNext

\* For any outputs every mage is on exactly one side of the emitted verdict.
THEOREM SidesPartition == DetermineSpec => []SidesArePartitioned
<1>1. DetermineInit => SidesInv
  BY DEF DetermineInit, SidesInv, Determined, Pending
<1>2. SidesInv => SidesArePartitioned
  <2> SUFFICES ASSUME SidesInv, Determined
               PROVE  /\ result.summary \cup result.dissent = {outputs[i].agent : i \in DOMAIN outputs}
                      /\ result.summary \cap result.dissent = {}
    BY DEF SidesArePartitioned
  <2> DEFINE on(i) == Effective(outputs[i].verdict) = result.verdict
  <2>1. /\ result.summary = {outputs[i].agent : i \in {j \in DOMAIN outputs : on(j)}}
        /\ result.dissent = {outputs[i].agent : i \in {j \in DOMAIN outputs : ~on(j)}}
    BY DEF SidesInv, Side, Dissent
  <2>2. \A i, j \in DOMAIN outputs : outputs[i].agent = outputs[j].agent => i = j
    BY DEF SidesInv, Repeated
  <2> HIDE DEF on
  <2> QED
    BY <2>1, <2>2
<1> QED
  BY <1>1, <1>2, SidesStep, PTL DEF DetermineSpec

-----------------------------------------------------------------------------
(* The verdict is arithmetic over the votes.                                 *)

\* A result was classified from its outputs, at least one and no agent's twice.
VerdictInv ==
  Determined =>
    /\ Len(outputs) > 0 /\ ~Repeated
    /\ result.verdict = Classify(outputs).verdict
    /\ result.consensus = Capped(Classify(outputs).label, Len(outputs))

OutputsInv == outputs \in Seq(Output)

LEMMA VerdictStep ==
  ASSUME OutputsInv, VerdictInv, [DetermineNext]_determineVars
  PROVE  OutputsInv' /\ VerdictInv'
<1>1. outputs' = outputs
  BY DEF DetermineNext, determineVars, Refuse, Deduplicate, Synthesize
<1>2. OutputsInv' /\ (Repeated' <=> Repeated)
  BY <1>1 DEF OutputsInv, Repeated
<1>3. CASE Refuse
  BY <1>2, <1>3 DEF Refuse, VerdictInv, Determined, TooFew, Duplicate
<1>4. CASE Deduplicate
  BY <1>2, <1>4 DEF Deduplicate, VerdictInv, Determined, Pending
<1>5. CASE Synthesize
  <2>1. /\ ~Repeated /\ Len(outputs) >= Required
        /\ result'.verdict = Classify(outputs).verdict
        /\ result'.consensus = Capped(Classify(outputs).label, Len(outputs))
    BY <1>5 DEF Synthesize, Admitted
  <2>2. Len(outputs) > 0
    <3>1. Required \in Nat /\ Required > 0 /\ Len(outputs) \in Nat
      BY ConsensusAssumption DEF Required, OutputsInv
    <3> QED
      BY <2>1, <3>1
  <2> QED
    BY <1>1, <1>2, <2>1, <2>2 DEF VerdictInv
<1>6. CASE UNCHANGED determineVars
  BY <1>1, <1>2, <1>6 DEF determineVars, VerdictInv, Determined
<1> QED
  BY <1>2, <1>3, <1>4, <1>5, <1>6 DEF DetermineNext

\* Outputs of different agents are at most three.
LEMMA AtMostThree ==
  ASSUME OutputsInv, ~Repeated
  PROVE  Len(outputs) \in Nat /\ Len(outputs) <= 3
<1> DEFINE n == Len(outputs)
           f == [i \in 1 .. n |-> outputs[i].agent]
<1>1. n \in Nat /\ DOMAIN outputs = 1 .. n /\ \A i \in 1 .. n : outputs[i] \in Output
  BY DEF OutputsInv
<1> HIDE DEF n
<1>2. f \in Injection(1 .. n, Agent)
  <2>1. f \in [1 .. n -> Agent]
    BY <1>1 DEF Output
  <2>2. \A i, j \in 1 .. n : f[i] = f[j] => i = j
    BY <1>1 DEF Repeated
  <2> HIDE DEF f
  <2> QED
    BY <2>1, <2>2 DEF Injection, IsInjective
<1>3. IsFiniteSet(Agent) /\ Cardinality(Agent) <= 3
  BY ConsensusAssumption
<1>4. Cardinality(1 .. n) <= Cardinality(Agent)
  BY <1>2, <1>3, FS_Injection
<1>5. Cardinality(1 .. n) = n
  <2>1. 1 \in Int /\ n \in Int
    BY <1>1
  <2> QED
    BY <1>1, <2>1, FS_Interval
<1>6. Cardinality(Agent) \in Nat
  BY <1>3, FS_CardinalityType
<1> QED
  BY <1>1, <1>3, <1>4, <1>5, <1>6 DEF n

\* How many voted what, who is on which side, and what the score comes to.
LEMMA Tally ==
  ASSUME NEW o \in Seq(Output)
  PROVE  \E a, c, r \in Nat :
           /\ a + c + r = Len(o)
           /\ Count(o, "approve") = a + c /\ Count(o, "reject") = r
           /\ Total(o) = 2 * a + c - 2 * r
<1> DEFINE n == Len(o)
           A == Voted(o, "approve")
           C == Voted(o, "conditional")
           R == Voted(o, "reject")
<1>1. n \in Nat /\ DOMAIN o = 1 .. n /\ \A i \in 1 .. n : o[i].verdict \in Verdict
  <2>1. n \in Nat /\ DOMAIN o = 1 .. n /\ \A i \in 1 .. n : o[i] \in Output
    OBVIOUS
  <2> QED
    BY <2>1 DEF Output
<1> HIDE DEF n
<1>2. IsFiniteSet(1 .. n) /\ Cardinality(1 .. n) = n
  <2>1. 1 \in Int /\ n \in Int
    BY <1>1
  <2> QED
    BY <1>1, <2>1, FS_Interval
<1>3. /\ A \in SUBSET (1 .. n) /\ C \in SUBSET (1 .. n) /\ R \in SUBSET (1 .. n)
      /\ A \cap C = {} /\ (A \cup C) \cap R = {} /\ (A \cup C) \cup R = 1 .. n
  BY <1>1 DEF Voted, Verdict
<1>4. Side(o, "approve") = A \cup C /\ Side(o, "reject") = R
  BY <1>1 DEF Side, Voted, Effective, Verdict
<1>5. Total(o) = 2 * Cardinality(A) + 1 * Cardinality(C) + (-2) * Cardinality(R)
  BY DEF Total, Weight
<1> HIDE DEF A, C, R
<1>6. IsFiniteSet(A) /\ IsFiniteSet(C) /\ IsFiniteSet(R)
  BY <1>2, <1>3, FS_Subset
<1>7. Cardinality(A) \in Nat /\ Cardinality(C) \in Nat /\ Cardinality(R) \in Nat
  BY <1>6, FS_CardinalityType
<1>8. IsFiniteSet(A \cup C) /\ Cardinality(A \cup C) = Cardinality(A) + Cardinality(C)
  <2>1. /\ IsFiniteSet(A \cup C)
        /\ Cardinality(A \cup C) = Cardinality(A) + Cardinality(C) - Cardinality(A \cap C)
    BY <1>6, FS_Union
  <2>2. Cardinality(A \cap C) = 0
    BY <1>3, FS_EmptySet
  <2> QED
    BY <1>7, <2>1, <2>2
<1>9. Cardinality(1 .. n) = Cardinality(A \cup C) + Cardinality(R)
  <2>1. Cardinality((A \cup C) \cup R)
          = Cardinality(A \cup C) + Cardinality(R) - Cardinality((A \cup C) \cap R)
    BY <1>6, <1>8, FS_Union
  <2>2. Cardinality((A \cup C) \cap R) = 0
    BY <1>3, FS_EmptySet
  <2>3. Cardinality(A \cup C) \in Nat
    BY <1>8, FS_CardinalityType
  <2>4. Cardinality((A \cup C) \cup R) = Cardinality(1 .. n)
    BY <1>3
  <2> QED
    BY <1>7, <2>1, <2>2, <2>3, <2>4
<1> DEFINE a == Cardinality(A)
           c == Cardinality(C)
           r == Cardinality(R)
<1>10. Count(o, "approve") = a + c /\ Count(o, "reject") = r
  BY <1>4, <1>8 DEF Count
<1>11. a \in Nat /\ c \in Nat /\ r \in Nat /\ a + c + r = Len(o)
  BY <1>2, <1>7, <1>8, <1>9 DEF n
<1>12. Total(o) = 2 * a + c - 2 * r
  BY <1>5, <1>11
<1> HIDE DEF a, c, r
<1> QED
  BY <1>10, <1>11, <1>12

\* With a fine tolerance the label and the verdict are those of the exact score.
LEMMA ScoreDecides ==
  ASSUME NEW n \in 1 .. 3, NEW a \in Nat, NEW c \in Nat, NEW r \in Nat, a + c + r = n,
         NEW e \in Nat, e > 0, 6 * e < 24,
         NEW score, score = ((2 * a + c - 2 * r) * 24) \div (2 * n)
  PROVE  /\ score \in Int
         /\ score > e => a + c >= r
         /\ score < 24 + e /\ score > 24 - e => a + c >= r
         /\ score <= 0 - e => r >= a + c
         /\ score # e
<1> DEFINE t == 2 * a + c - 2 * r
<1>1. t \in Int
  OBVIOUS
<1>2. CASE n = 1
  <2>1. score = 12 * t
    BY <1>1, <1>2
  <2> QED
    BY <1>2, <2>1
<1>3. CASE n = 2
  <2>1. score = 6 * t
    BY <1>1, <1>3
  <2> QED
    BY <1>3, <2>1
<1>4. CASE n = 3
  <2>1. score = 4 * t
    BY <1>1, <1>4
  <2> QED
    BY <1>4, <2>1
<1> QED
  BY <1>2, <1>3, <1>4

\* A tie is the only case in which the emitted verdict is outnumbered: for every outputs,
\* and every tolerance finer than the gap between two scores.
THEOREM OnlyTiesOverrule == DetermineSpec => []OnlyTieOverrulesCount
<1> DEFINE Inv == OutputsInv /\ VerdictInv
<1>1. DetermineInit => Inv
  <2> SUFFICES ASSUME DetermineInit PROVE Inv
    OBVIOUS
  <2>1. PICK call \in Calls : outputs = call[1]
    BY DEF DetermineInit
  <2>2. call[1] \in Seq(Output)
    BY ConsensusAssumption
  <2>3. result = Pending
    BY DEF DetermineInit
  <2> QED
    BY <2>1, <2>2, <2>3 DEF OutputsInv, VerdictInv, Determined, Pending
<1>2. Inv /\ [DetermineNext]_determineVars => Inv'
  BY VerdictStep
<1>3. Inv => OnlyTieOverrulesCount
  <2> SUFFICES ASSUME OutputsInv, VerdictInv, FineEpsilon, Determined
      PROVE  LET other == IF result.verdict = "approve" THEN "reject" ELSE "approve" IN
               \/ Count(outputs, result.verdict) >= Count(outputs, other)
               \/ result.consensus = Plain("HOLD -- TIE") /\ result.verdict = "reject"
    BY DEF OnlyTieOverrulesCount
  <2> DEFINE n == Len(outputs)
             score == Score(outputs)
             for == Count(outputs, "approve")
             against == Count(outputs, "reject")
  <2>1. n \in 1 .. 3
    <3>1. n \in Nat /\ n <= 3 /\ n > 0
      BY AtMostThree DEF VerdictInv
    <3> HIDE DEF n
    <3> QED
      BY <3>1
  <2>2. PICK a, c, r \in Nat :
          /\ a + c + r = n /\ for = a + c /\ against = r
          /\ Total(outputs) = 2 * a + c - 2 * r
    BY Tally DEF OutputsInv
  <2>3. Epsilon \in Nat /\ Epsilon > 0 /\ 6 * Epsilon < 24
    BY ConsensusAssumption DEF FineEpsilon, One
  <2>4. score = ((2 * a + c - 2 * r) * 24) \div (2 * n)
    BY <2>2 DEF Score, One
  <2> HIDE DEF n, score, for, against
  <2>5. /\ score \in Int
        /\ score > Epsilon => for >= against
        /\ score < 24 + Epsilon /\ score > 24 - Epsilon => for >= against
        /\ score <= 0 - Epsilon => against >= for
        /\ score # Epsilon
    BY <2>1, <2>2, <2>3, <2>4, ScoreDecides
  <2>6. Epsilon \in Int /\ Epsilon < 4
    BY <2>3
  <2>7. CASE Distance(score, 24) < Epsilon
    <3>1. score < 24 + Epsilon /\ score > 24 - Epsilon
      BY <2>5, <2>6, <2>7 DEF Distance
    <3>2. ~(Distance(score, -24) < Epsilon)
      BY <2>5, <2>6, <3>1 DEF Distance
    <3>3. Classify(outputs).verdict = "approve"
      BY <2>7, <3>2 DEF Classify, score, One
    <3> QED
      BY <2>5, <3>1, <3>3 DEF VerdictInv, for, against
  <2>8. CASE ~(Distance(score, 24) < Epsilon) /\ Distance(score, -24) < Epsilon
    <3>1. score <= 0 - Epsilon
      BY <2>5, <2>6, <2>8 DEF Distance
    <3>2. Classify(outputs).verdict = "reject"
      BY <2>8 DEF Classify, score, One
    <3> QED
      BY <2>5, <3>1, <3>2 DEF VerdictInv, for, against
  <2>9. CASE ~(Distance(score, 24) < Epsilon) /\ ~(Distance(score, -24) < Epsilon)
    <3>1. CASE score > Epsilon
      <4>1. Classify(outputs).verdict = "approve"
        BY <2>9, <3>1 DEF Classify, score, One
      <4> QED
        BY <2>5, <3>1, <4>1 DEF VerdictInv, for, against
    <3>2. CASE ~(score > Epsilon)
      <4>1. Classify(outputs).verdict = "reject"
        BY <2>9, <3>2 DEF Classify, score, One
      <4>2. CASE Distance(score, 0) < Epsilon
        <5>1. Classify(outputs).label = Plain("HOLD -- TIE")
          BY <2>9, <3>2, <4>2 DEF Classify, score, One
        <5>2. Capped(Plain("HOLD -- TIE"), Len(outputs)) = Plain("HOLD -- TIE")
          BY DEF Capped, Plain
        <5> QED
          BY <4>1, <5>1, <5>2 DEF VerdictInv
      <4>3. CASE ~(Distance(score, 0) < Epsilon)
        <5>1. score <= 0 - Epsilon
          BY <2>5, <2>6, <3>2, <4>3 DEF Distance
        <5> QED
          BY <2>5, <4>1, <5>1 DEF VerdictInv, for, against
      <4> QED
        BY <4>2, <4>3
    <3> QED
      BY <3>1, <3>2
  <2> QED
    BY <2>7, <2>8, <2>9
<1> QED
  BY <1>1, <1>2, <1>3, PTL DEF DetermineSpec
===============================================================================
