---------------------------- MODULE PreflightProofs ----------------------------
(***************************************************************************)
(* The safety properties of Preflight, for every number of probes, permits *)
(* and models. Three invariants carry them: the types, where a probe is in *)
(* its life and what its halves then hold, and what the caller has joined. *)
(***************************************************************************)
EXTENDS Preflight, FiniteSetTheorems, TLAPS

USE DEF Half, Answer, Call, Phase

-----------------------------------------------------------------------------
(* Types.                                                                   *)

\* Deadline is an instant.
LEMMA DeadlineType ==
  ASSUME TypeOK PROVE Deadline \in Nat
BY PreflightAssumption DEF TypeOK, Deadline

\* A finished task hands over two halves of its own.
LEMMA MeasuredType ==
  ASSUME NEW t \in Task
  PROVE  Measured(t) \in [Half -> Task \cup {NoTask}]
BY DEF Measured

\* Joining a finished task keeps the map's type and files it under a model.
LEMMA InsertType ==
  ASSUME TypeOK, NEW t \in Task
  PROVE  /\ DOMAIN Insert(t) = DOMAIN capabilities \cup {ModelOf[t]}
         /\ DOMAIN Insert(t) \subseteq Model
         /\ Insert(t) \in [DOMAIN Insert(t) -> [Half -> Task \cup {NoTask}]]
<1>1. ModelOf[t] \in Model
  BY PreflightAssumption
<1>2. DOMAIN Insert(t) = DOMAIN capabilities \cup {ModelOf[t]}
  BY DEF Insert
<1>3. ASSUME NEW m \in DOMAIN Insert(t)
      PROVE  Insert(t)[m] \in [Half -> Task \cup {NoTask}]
  BY <1>2, <1>3, MeasuredType DEF Insert, TypeOK
<1>4. Insert(t) = [m \in DOMAIN Insert(t) |-> Insert(t)[m]]
  BY DEF Insert
<1> QED
  BY <1>1, <1>2, <1>3, <1>4 DEF TypeOK

\* Every variable keeps its type.
THEOREM TypeCorrect == Spec => []TypeOK
<1>1. Init => TypeOK
  BY PreflightAssumption DEF Init, TypeOK
<1>2. TypeOK /\ [Next]_vars => TypeOK'
  <2> SUFFICES ASSUME TypeOK, [Next]_vars PROVE TypeOK'
    OBVIOUS
  <2> USE DEF TypeOK
  <2>1. ASSUME NEW t \in Task, TakePermit(t) PROVE TypeOK'
    BY <2>1, DeadlineType DEF TakePermit
  <2>2. ASSUME NEW t \in Task, NEW h \in Half, NEW call \in Call, Resolve(t, h, call)
        PROVE  TypeOK'
    BY <2>2 DEF Resolve
  <2>3. ASSUME NEW t \in Task, NEW how \in Phase, Ends(t, how), permits' \in Nat
        PROVE  TypeOK'
    <3>1. ended' \in Seq(Task) /\ Len(ended') = Len(ended) + 1
      BY <2>3 DEF Ends
    <3>2. joined \in 0 .. Len(ended')
      BY <3>1
    <3> QED
      BY <2>3, <3>1, <3>2 DEF Ends
  <2>4. ASSUME JoinNext PROVE TypeOK'
    <3> DEFINE t == ended[joined + 1]
    <3>1. joined + 1 \in 1 .. Len(ended)
      BY <2>4 DEF JoinNext
    <3>2. t \in Task
      BY <3>1
    <3>3. /\ DOMAIN capabilities' \subseteq Model
          /\ capabilities' \in [DOMAIN capabilities' -> [Half -> Task \cup {NoTask}]]
      <4>1. capabilities' = Insert(t) \/ capabilities' = capabilities
        BY <2>4 DEF JoinNext
      <4> QED
        BY <4>1, <3>2, InsertType
    <3>4. joined' \in 0 .. Len(ended)
      BY <2>4, <3>1 DEF JoinNext
    <3> QED
      BY <2>4, <3>3, <3>4 DEF JoinNext, taskVars
  <2>5. ASSUME CallerDrops PROVE TypeOK'
    <3>1. permits + Cardinality(InPhase("probing")) \in Nat
      <4>1. IsFiniteSet(InPhase("probing"))
        BY FS_Subset, PreflightAssumption DEF InPhase
      <4> QED
        BY <4>1, FS_CardinalityType
    <3>2. phase' \in [Task -> Phase]
      BY <2>5 DEF CallerDrops
    <3> QED
      BY <2>5, <3>1, <3>2 DEF CallerDrops
  <2>6. ASSUME Tick PROVE TypeOK'
    BY <2>6 DEF Tick, taskVars
  <2>7. CASE UNCHANGED vars
    BY <2>7 DEF vars, taskVars
  <2>8. ASSUME NEW t \in Task, Finish(t) PROVE TypeOK'
    <3>1. Ends(t, "finished") /\ permits' = permits + 1
      BY <2>8 DEF Finish
    <3>2. permits' \in Nat
      BY <3>1
    <3> QED
      BY <3>1, <3>2, <2>3
  <2>9. ASSUME NEW t \in Task, Panic(t) PROVE TypeOK'
    BY <2>9, <2>3 DEF Panic
  <2>10. ASSUME NEW t \in Task, NEW h \in Half, Expire(t, h) PROVE TypeOK'
    BY <2>10, <2>2 DEF Expire
  <2>11. ASSUME NEW t \in Task, NEW h \in Half, NEW answer \in Answer, ProbeAnswers(t, h, answer)
         PROVE  TypeOK'
    BY <2>11, <2>2 DEF ProbeAnswers
  <2> QED
    BY <2>1, <2>4, <2>5, <2>6, <2>7, <2>8, <2>9, <2>10, <2>11 DEF Next, TaskStep
<1> QED
  BY <1>1, <1>2, PTL DEF Spec

-----------------------------------------------------------------------------
(* The permits.                                                             *)

\* The probes in flight are finitely many, before and after any step.
LEMMA ProbingIsFinite ==
  IsFiniteSet(InPhase("probing")) /\ Cardinality(InPhase("probing")) \in Nat
<1>1. IsFiniteSet(InPhase("probing"))
  BY FS_Subset, PreflightAssumption DEF InPhase
<1> QED
  BY <1>1, FS_CardinalityType

\* The semaphore is never overdrawn and every way a probe can end gives its permit back.
THEOREM PermitsConserved == Spec => []PermitsAreConserved
<1>1. Init => PermitsAreConserved
  <2> SUFFICES ASSUME Init PROVE PermitsAreConserved
    OBVIOUS
  <2>1. InPhase("probing") = {}
    BY DEF Init, InPhase
  <2>2. Cardinality(InPhase("probing")) = 0
    BY <2>1, FS_EmptySet
  <2> QED
    BY <2>2, PreflightAssumption DEF Init, PermitsAreConserved
<1>2. TypeOK /\ PermitsAreConserved /\ [Next]_vars => PermitsAreConserved'
  <2> SUFFICES ASSUME TypeOK, PermitsAreConserved, [Next]_vars PROVE PermitsAreConserved'
    OBVIOUS
  <2> USE DEF TypeOK, PermitsAreConserved
  <2>1. ASSUME NEW t \in Task, TakePermit(t) PROVE PermitsAreConserved'
    <3>1. t \notin InPhase("probing") /\ InPhase("probing")' = InPhase("probing") \cup {t}
      BY <2>1 DEF TakePermit, InPhase
    <3>2. Cardinality(InPhase("probing")') = Cardinality(InPhase("probing")) + 1
      BY <3>1, ProbingIsFinite, FS_AddElement
    <3> QED
      BY <2>1, <3>2, ProbingIsFinite, PreflightAssumption DEF TakePermit
  <2>2. ASSUME NEW t \in Task, NEW how \in {"finished", "panicked"}, Ends(t, how),
               permits' = permits + 1
        PROVE  PermitsAreConserved'
    <3>1. t \in InPhase("probing") /\ InPhase("probing")' = InPhase("probing") \ {t}
      BY <2>2 DEF Ends, InPhase
    <3>2. Cardinality(InPhase("probing")') = Cardinality(InPhase("probing")) - 1
      BY <3>1, ProbingIsFinite, FS_RemoveElement
    <3> QED
      BY <2>2, <3>2, ProbingIsFinite, PreflightAssumption
  <2>3. ASSUME CallerDrops PROVE PermitsAreConserved'
    <3>1. InPhase("probing")' = {}
      BY <2>3 DEF CallerDrops, InPhase
    <3>2. Cardinality(InPhase("probing")') = 0
      BY <3>1, FS_EmptySet
    <3>3. permits' = permits + Cardinality(InPhase("probing"))
      BY <2>3 DEF CallerDrops
    <3> QED
      BY <3>2, <3>3, PreflightAssumption
  <2>4. ASSUME UNCHANGED <<phase, permits>> PROVE PermitsAreConserved'
    BY <2>4 DEF InPhase
  <2>5. ASSUME NEW t \in Task, TaskStep(t) \/ Panic(t) PROVE PermitsAreConserved'
    <3>1. CASE TakePermit(t)
      BY <3>1, <2>1
    <3>2. CASE Finish(t) \/ Panic(t)
      BY <3>2, <2>2 DEF Finish, Panic
    <3>3. CASE \E h \in Half : Expire(t, h)
      BY <3>3, <2>4 DEF Expire, Resolve
    <3> QED
      BY <2>5, <3>1, <3>2, <3>3 DEF TaskStep
  <2>6. ASSUME NEW t \in Task, NEW h \in Half, NEW answer \in Answer, ProbeAnswers(t, h, answer)
        PROVE  PermitsAreConserved'
    BY <2>6, <2>4 DEF ProbeAnswers, Resolve
  <2>7. ASSUME JoinNext \/ Tick \/ UNCHANGED vars PROVE PermitsAreConserved'
    BY <2>7, <2>4 DEF JoinNext, Tick, vars, taskVars
  <2> QED
    BY <2>3, <2>5, <2>6, <2>7 DEF Next
<1> QED
  BY <1>1, <1>2, TypeCorrect, PTL DEF Spec

-----------------------------------------------------------------------------
(* The deadlines.                                                           *)

\* A queued probe has asked nothing, and the deadline of one in flight is a whole budget
\* after it took its permit.
LifeInv ==
  \A t \in Task :
    /\ phase[t] = "queued" => \A h \in Half : half[t][h] = "pending"
    /\ phase[t] = "probing" =>
         \/ deadline[t] = since[t] + budget
         \/ since[t] + budget > Latest

\* FullBudget needs LifeInv: the deadline that expires was taken with the permit.
BudgetInv == LifeInv /\ FullBudget

\* A half is called late only after its probe had the whole budget to itself.
THEOREM BudgetIsFull == Spec => []FullBudget
<1>1. Init => BudgetInv
  BY DEF Init, BudgetInv, LifeInv, FullBudget
<1>2. TypeOK /\ BudgetInv /\ [Next]_vars => BudgetInv'
  <2> SUFFICES ASSUME TypeOK, BudgetInv, [Next]_vars PROVE BudgetInv'
    OBVIOUS
  <2> USE DEF TypeOK, BudgetInv, LifeInv, FullBudget
  <2>1. ASSUME NEW t \in Task, TakePermit(t) PROVE BudgetInv'
    <3>1. now + budget > Latest \/ Deadline = now + budget
      BY PreflightAssumption DEF Deadline
    <3>2. LifeInv'
      BY <2>1, <3>1 DEF TakePermit
    <3>3. FullBudget'
      BY <2>1 DEF TakePermit
    <3> QED
      BY <3>2, <3>3
  <2>2. ASSUME NEW t \in Task, NEW g \in Half, NEW call \in Call, Resolve(t, g, call),
               call = "late" => Overdue(t)
        PROVE  BudgetInv'
    <3>1. LifeInv'
      BY <2>2 DEF Resolve
    <3>2. ASSUME NEW u \in Task, NEW h \in Half, half'[u][h] = "late"
          PROVE  now >= since[u] + budget \/ since[u] + budget > Latest
      <4>1. CASE half[u][h] = "late"
        BY <4>1
      <4>2. CASE half[u][h] # "late"
        <5>1. u = t /\ Overdue(t)
          BY <2>2, <3>2, <4>2 DEF Resolve
        <5> QED
          BY <5>1, PreflightAssumption DEF Overdue
      <4> QED
        BY <4>1, <4>2
    <3>3. FullBudget'
      BY <2>2, <3>2 DEF Resolve
    <3> QED
      BY <3>1, <3>3
  <2>3. ASSUME NEW t \in Task, NEW how \in {"finished", "panicked"}, Ends(t, how)
        PROVE  BudgetInv'
    BY <2>3 DEF Ends
  <2>4. ASSUME CallerDrops PROVE BudgetInv'
    BY <2>4 DEF CallerDrops
  <2>5. ASSUME Tick PROVE BudgetInv'
    <3>1. LifeInv'
      BY <2>5 DEF Tick, taskVars
    <3>2. FullBudget'
      BY <2>5, PreflightAssumption DEF Tick, taskVars
    <3> QED
      BY <3>1, <3>2
  <2>6. ASSUME JoinNext \/ UNCHANGED vars PROVE BudgetInv'
    BY <2>6 DEF JoinNext, vars, taskVars
  <2>7. ASSUME NEW t \in Task, TaskStep(t) \/ Panic(t) PROVE BudgetInv'
    <3>1. CASE TakePermit(t)
      BY <3>1, <2>1
    <3>2. CASE Finish(t) \/ Panic(t)
      BY <3>2, <2>3 DEF Finish, Panic
    <3>3. CASE \E h \in Half : Expire(t, h)
      BY <3>3, <2>2 DEF Expire
    <3> QED
      BY <2>7, <3>1, <3>2, <3>3 DEF TaskStep
  <2>8. ASSUME NEW t \in Task, NEW h \in Half, NEW answer \in Answer, ProbeAnswers(t, h, answer)
        PROVE  BudgetInv'
    BY <2>8, <2>2 DEF ProbeAnswers
  <2> QED
    BY <2>4, <2>5, <2>6, <2>7, <2>8 DEF Next
<1> QED
  BY <1>1, <1>2, TypeCorrect, PTL DEF Spec, BudgetInv

-----------------------------------------------------------------------------
(* The map.                                                                 *)

\* A task that ended stays as it is.
EndedInv == \A i \in DOMAIN ended : phase[ended[i]] \in {"finished", "panicked"}

\* The index of the last probe of m to be joined, and what it says.
IsLast(m, i) ==
  /\ i \in Answered(m)
  /\ \A j \in Answered(m) : j <= i
  /\ \A h \in Half :
       capabilities[m][h] = IF half[ended[i]][h] = "measured" THEN ended[i] ELSE NoTask

\* The inductive form of LastProbeWins.
MapInv == EndedInv /\ LastProbeWins

\* A step that leaves the joined tasks, their halves and the map alone keeps MapInv.
LEMMA MapFrame ==
  ASSUME TypeOK, MapInv,
         UNCHANGED <<joined, capabilities>>,
         \A i \in 1 .. joined :
           /\ ended'[i] = ended[i]
           /\ half'[ended[i]] = half[ended[i]]
           /\ phase'[ended[i]] = phase[ended[i]]
  PROVE  LastProbeWins'
<1>1. joined \in Nat
  BY DEF TypeOK
<1>2. ASSUME NEW m PROVE Answered(m)' = Answered(m)
  BY DEF Answered
<1>3. ASSUME NEW m, NEW i \in Answered(m)
      PROVE  half'[ended'[i]] = half[ended[i]] /\ ended'[i] = ended[i]
  BY <1>3 DEF Answered
<1>4. DOMAIN capabilities' = {m \in Model : Answered(m)' # {}}
  BY <1>2 DEF MapInv, LastProbeWins
<1>5. ASSUME NEW m \in DOMAIN capabilities
      PROVE  \E i \in Answered(m)' :
               /\ \A j \in Answered(m)' : j <= i
               /\ \A h \in Half :
                    capabilities'[m][h] = IF half'[ended'[i]][h] = "measured" THEN ended'[i] ELSE NoTask
  <2>1. PICK i \in Answered(m) : IsLast(m, i)
    BY <1>5 DEF MapInv, LastProbeWins, IsLast
  <2>2. ASSUME NEW h \in Half
        PROVE  capabilities'[m][h] = IF half'[ended'[i]][h] = "measured" THEN ended'[i] ELSE NoTask
    BY <2>1, <1>3 DEF IsLast
  <2> QED
    BY <2>1, <2>2, <1>2 DEF IsLast
<1> QED
  BY <1>4, <1>5 DEF LastProbeWins

\* "last-writer-wins", in the order the probes ended, and never half of one and half of
\* another.
THEOREM LastProbeRules == Spec => []LastProbeWins
<1>1. Init => MapInv
  <2> SUFFICES ASSUME Init PROVE MapInv
    OBVIOUS
  <2>1. DOMAIN ended = {} /\ DOMAIN capabilities = {}
    BY DEF Init
  <2>2. ASSUME NEW m PROVE Answered(m) = {}
    BY DEF Init, Answered
  <2> QED
    BY <2>1, <2>2 DEF MapInv, EndedInv, LastProbeWins
<1>2. TypeOK /\ MapInv /\ [Next]_vars => MapInv'
  <2> SUFFICES ASSUME TypeOK, MapInv, [Next]_vars PROVE MapInv'
    OBVIOUS
  <2>0. /\ ended \in Seq(Task) /\ joined \in Nat /\ joined <= Len(ended)
        /\ \A i \in 1 .. Len(ended) : ended[i] \in Task /\ phase[ended[i]] \in {"finished", "panicked"}
    BY DEF TypeOK, MapInv, EndedInv
  <2>1. ASSUME NEW t \in Task, TakePermit(t) PROVE MapInv'
    <3>1. \A i \in 1 .. Len(ended) : ended[i] # t
      BY <2>0, <2>1 DEF TakePermit
    <3>2. \A i \in 1 .. Len(ended) : phase'[ended[i]] = phase[ended[i]]
      BY <2>0, <2>1, <3>1 DEF TakePermit, TypeOK
    <3>3. EndedInv'
      BY <2>0, <2>1, <3>2 DEF TakePermit, EndedInv
    <3>4. LastProbeWins'
      BY <2>0, <2>1, <3>2, MapFrame DEF TakePermit
    <3> QED
      BY <3>3, <3>4 DEF MapInv
  <2>2. ASSUME NEW t \in Task, NEW g \in Half, NEW call \in Call, Resolve(t, g, call)
        PROVE  MapInv'
    <3>1. \A i \in 1 .. Len(ended) : ended[i] # t
      BY <2>0, <2>2 DEF Resolve
    <3>2. \A i \in 1 .. Len(ended) : half'[ended[i]] = half[ended[i]]
      BY <2>0, <2>2, <3>1 DEF Resolve, TypeOK
    <3>3. EndedInv'
      BY <2>0, <2>2 DEF Resolve, EndedInv
    <3>4. LastProbeWins'
      BY <2>0, <2>2, <3>2, MapFrame DEF Resolve
    <3> QED
      BY <3>3, <3>4 DEF MapInv
  <2>3. ASSUME NEW t \in Task, NEW how \in {"finished", "panicked"}, Ends(t, how)
        PROVE  MapInv'
    <3>1. \A i \in 1 .. Len(ended) : ended[i] # t
      BY <2>0, <2>3 DEF Ends
    <3>2. \A i \in 1 .. Len(ended) : phase'[ended[i]] = phase[ended[i]] /\ ended'[i] = ended[i]
      BY <2>0, <2>3, <3>1 DEF Ends, TypeOK
    <3>3. Len(ended') = Len(ended) + 1 /\ ended'[Len(ended) + 1] = t /\ phase'[t] = how
      BY <2>0, <2>3 DEF Ends, TypeOK
    <3>4. DOMAIN ended' = 1 .. Len(ended) + 1
      BY <2>0, <2>3 DEF Ends
    <3>5. EndedInv'
      BY <2>0, <2>3, <3>2, <3>3, <3>4 DEF EndedInv
    <3>6. LastProbeWins'
      BY <2>0, <2>3, <3>2, MapFrame DEF Ends
    <3> QED
      BY <3>5, <3>6 DEF MapInv
  <2>4. ASSUME CallerDrops PROVE MapInv'
    <3>1. \A i \in 1 .. Len(ended) : phase'[ended[i]] = phase[ended[i]]
      BY <2>0, <2>4 DEF CallerDrops
    <3>2. EndedInv'
      BY <2>0, <2>4, <3>1 DEF CallerDrops, EndedInv
    <3>3. LastProbeWins'
      BY <2>0, <2>4, <3>1, MapFrame DEF CallerDrops
    <3> QED
      BY <3>2, <3>3 DEF MapInv
  <2>5. ASSUME Tick \/ UNCHANGED vars PROVE MapInv'
    <3>1. UNCHANGED <<phase, half, ended, joined, capabilities>>
      BY <2>5 DEF Tick, vars, taskVars
    <3>2. EndedInv'
      BY <3>1 DEF MapInv, EndedInv
    <3>3. LastProbeWins'
      BY <3>1, MapFrame
    <3> QED
      BY <3>2, <3>3 DEF MapInv
  <2>6. ASSUME JoinNext PROVE MapInv'
    <3>0. PICK n \in 1 .. Len(ended) : n = joined + 1
      BY <2>0, <2>6 DEF JoinNext
    <3>1. PICK t \in Task : t = ended[n] /\ phase[t] \in {"finished", "panicked"}
      BY <2>0, <3>0
    <3>2. joined' = n /\ UNCHANGED <<phase, half, ended>>
      BY <2>6, <3>0 DEF JoinNext, taskVars
    <3>3. EndedInv'
      BY <3>2 DEF MapInv, EndedInv
    <3>4. 1 .. n = 1 .. joined \cup {n} /\ n \notin 1 .. joined
      BY <2>0, <3>0
    <3>5. CASE phase[t] = "panicked"
      <4>1. capabilities' = capabilities
        BY <2>6, <3>0, <3>1, <3>5 DEF JoinNext
      <4>2. ASSUME NEW m PROVE Answered(m)' = Answered(m)
        BY <3>1, <3>2, <3>4, <3>5 DEF Answered
      <4>3. LastProbeWins'
        BY <3>2, <4>1, <4>2 DEF MapInv, LastProbeWins
      <4> QED
        BY <3>3, <4>3 DEF MapInv
    <3>6. CASE phase[t] = "finished"
      <4>1. capabilities' = Insert(t)
        BY <2>6, <3>0, <3>1, <3>6 DEF JoinNext
      <4>2. ModelOf[t] \in Model
        BY <3>1, PreflightAssumption
      <4>3. Answered(ModelOf[t])' = Answered(ModelOf[t]) \cup {n}
        BY <3>1, <3>2, <3>4, <3>6 DEF Answered
      <4>4. ASSUME NEW m, m # ModelOf[t] PROVE Answered(m)' = Answered(m)
        BY <3>1, <3>2, <3>4, <4>4 DEF Answered
      <4>5. DOMAIN capabilities' = {m \in Model : Answered(m)' # {}}
        <5>1. DOMAIN capabilities' = DOMAIN capabilities \cup {ModelOf[t]}
          BY <4>1 DEF Insert
        <5>2. DOMAIN capabilities = {m \in Model : Answered(m) # {}}
          BY DEF MapInv, LastProbeWins
        <5> QED
          BY <5>1, <5>2, <4>2, <4>3, <4>4
      <4>6. ASSUME NEW m \in DOMAIN capabilities'
            PROVE  \E i \in Answered(m)' :
                     /\ \A j \in Answered(m)' : j <= i
                     /\ \A h \in Half :
                          capabilities'[m][h] = IF half'[ended'[i]][h] = "measured" THEN ended'[i] ELSE NoTask
        <5>1. CASE m = ModelOf[t]
          <6>1. n \in Answered(m)'
            BY <5>1, <4>3
          <6>2. \A j \in Answered(m)' : j <= n
            BY <2>0, <3>0, <5>1, <4>3 DEF Answered
          <6>3. capabilities'[m] = Measured(t)
            BY <4>1, <5>1 DEF Insert
          <6>4. \A h \in Half :
                  capabilities'[m][h] = IF half'[ended'[n]][h] = "measured" THEN ended'[n] ELSE NoTask
            BY <6>3, <3>1, <3>2 DEF Measured
          <6> QED
            BY <6>1, <6>2, <6>4
        <5>2. CASE m # ModelOf[t]
          <6>1. m \in DOMAIN capabilities /\ capabilities'[m] = capabilities[m]
            BY <4>1, <4>6, <5>2 DEF Insert
          <6>2. PICK i \in Answered(m) : IsLast(m, i)
            BY <6>1 DEF MapInv, LastProbeWins, IsLast
          <6> QED
            BY <6>1, <6>2, <4>4, <5>2, <3>2 DEF IsLast
        <5> QED
          BY <5>1, <5>2
      <4>7. LastProbeWins'
        BY <4>5, <4>6 DEF LastProbeWins
      <4> QED
        BY <3>3, <4>7 DEF MapInv
    <3> QED
      BY <3>1, <3>5, <3>6
  <2>7. ASSUME NEW t \in Task, TaskStep(t) \/ Panic(t) PROVE MapInv'
    <3>1. CASE TakePermit(t)
      BY <3>1, <2>1
    <3>2. CASE Finish(t) \/ Panic(t)
      BY <3>2, <2>3 DEF Finish, Panic
    <3>3. CASE \E h \in Half : Expire(t, h)
      BY <3>3, <2>2 DEF Expire
    <3> QED
      BY <2>7, <3>1, <3>2, <3>3 DEF TaskStep
  <2>8. ASSUME NEW t \in Task, NEW h \in Half, NEW answer \in Answer, ProbeAnswers(t, h, answer)
        PROVE  MapInv'
    BY <2>8, <2>2 DEF ProbeAnswers
  <2> QED
    BY <2>4, <2>5, <2>6, <2>7, <2>8 DEF Next
<1> QED
  BY <1>1, <1>2, TypeCorrect, PTL DEF Spec, MapInv
===============================================================================
