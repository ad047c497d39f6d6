------------------------------ MODULE SeatProofs ------------------------------
(***************************************************************************)
(* Proofs about what one mage does between two looks at the registry and   *)
(* inside one: ClaimLoop for pools of every length, SeatAttempts for every *)
(* cap, timeout and set of replies, VerdictText and UserPrompt for texts   *)
(* of every length, ClaudeCli for prompts, pipes and clocks of every size. *)
(* The modules share no state; each section is about one of them.          *)
(***************************************************************************)
EXTENDS ClaimLoop, SeatAttempts, VerdictText, UserPrompt, ClaudeCli,
        FiniteSetTheorems, SequenceTheorems, WellFoundedInduction, TLAPS

-----------------------------------------------------------------------------
(* ClaimLoop: the loop takes what Rotation takes in one step.               *)

NatLess == {ss \in Nat \X Nat : ss[1] < ss[2]}

LEMMA NatLessWellFounded == IsWellFoundedOn(NatLess, Nat)
<1>1. OpToRel(<, Nat) = NatLess
  BY Zenon DEF OpToRel, NatLess
<1> QED
  BY <1>1, NatLessThanWellFounded

\* Some element of a non-empty set of naturals comes first.
LEMMA SomeFirst ==
  ASSUME NEW S \in SUBSET Nat, S # {}
  PROVE  \E i \in S : \A j \in S : i <= j
<1>1. PICK i \in S : \A j \in S : <<j, i>> \notin NatLess
  BY NatLessWellFounded, WFMin
<1>2. ASSUME NEW j \in S PROVE i <= j
  <2>1. ASSUME j < i PROVE FALSE
    <3>1. <<j, i>> \in Nat \X Nat /\ <<j, i>>[1] < <<j, i>>[2]
      BY <2>1
    <3>2. <<j, i>> \in NatLess
      BY <3>1, Zenon DEF NatLess
    <3> QED
      BY <3>2, <1>1
  <2> QED
    BY <2>1
<1> QED
  BY <1>2

\* A proposal is the first of the eligible positions.
LEMMA ProposalIsFirst ==
  ASSUME Eligible \in SUBSET Nat, Eligible # {}
  PROVE  Proposal \in Eligible /\ \A j \in Eligible : Proposal <= j
BY SomeFirst DEF Proposal

\* Only admitted candidates that collide are ever recorded.
Recorded == collisions \subseteq colliding \cap {pool[i] : i \in admitted}

\* The verdict on the pool is the one of an exhausted pass.
Judged ==
  degenerate => Len(pool) > 1 /\ Cardinality(collisions) = Len(pool) /\ claimed = None

LoopInv == TypeOK /\ Recorded /\ TakesFirstClaimable /\ Judged

\* Where the loop stands, in every reachable state.
THEOREM LoopInvariant == Spec => []LoopInv
<1> USE PoolsAssumption
<1>1. Init => LoopInv
  <2> SUFFICES ASSUME Init PROVE LoopInv
    OBVIOUS
  <2>1. TypeOK
    BY DEF Init, TypeOK
  <2>2. Recorded /\ Judged
    BY DEF Init, Recorded, Judged
  <2>3. Looping \notin Position /\ Looping # None
    BY DEF Init, Position, Looping, None
  <2>4. TakesFirstClaimable
    BY <2>3 DEF Init, TakesFirstClaimable
  <2> QED
    BY <2>1, <2>2, <2>4 DEF LoopInv
<1>2. ASSUME LoopInv, [Next]_vars PROVE LoopInv'
  <2>1. /\ pool \in Seq(Model) /\ admitted \subseteq Position /\ Position = 1 .. Len(pool)
        /\ Len(pool) \in Nat /\ collisions \subseteq Model
    BY <1>2 DEF LoopInv, TypeOK, Position
  <2>2. Eligible \in SUBSET Nat
    <3>1. Eligible \subseteq admitted
      BY DEF Eligible
    <3>2. Position \subseteq Nat
      BY <2>1
    <3> QED
      BY <2>1, <3>1, <3>2
  <2>3. CASE Take
    <3>1. Proposal \in Eligible /\ \A j \in Eligible : Proposal <= j
      BY <2>2, <2>3, ProposalIsFirst DEF Take
    <3>2. /\ UNCHANGED <<pool, admitted, colliding, collisions, degenerate>>
          /\ claimed' = Proposal /\ pool[Proposal] \notin colliding /\ claimed = Looping
      BY <2>3 DEF Take
    <3>3. Proposal \in Claimable /\ Proposal \in Position
      BY <2>1, <3>1, <3>2 DEF Eligible, Claimable
    <3>4. ASSUME NEW j \in Claimable PROVE Proposal <= j
      <4>1. pool[j] \notin collisions
        BY <1>2, <3>4 DEF LoopInv, Recorded, Claimable
      <4> QED
        BY <3>1, <3>4, <4>1 DEF Claimable, Eligible
    <3>5. ~degenerate
      BY <1>2, <3>2 DEF LoopInv, Judged, Looping, None
    <3>6. TypeOK'
      BY <1>2, <3>2, <3>3 DEF LoopInv, TypeOK, Position
    <3>7. Recorded'
      BY <1>2, <3>2 DEF LoopInv, Recorded
    <3>8. TakesFirstClaimable'
      BY <2>1, <3>2, <3>3, <3>4 DEF TakesFirstClaimable, Claimable, Position, None
    <3> QED
      BY <3>2, <3>5, <3>6, <3>7, <3>8 DEF LoopInv, Judged
  <2>4. CASE Reject
    <3>1. Proposal \in Eligible
      BY <2>2, <2>4, ProposalIsFirst DEF Reject
    <3>2. /\ UNCHANGED <<pool, admitted, colliding, degenerate, claimed>>
          /\ collisions' = collisions \cup {pool[Proposal]} /\ pool[Proposal] \in colliding
          /\ claimed = Looping
      BY <2>4 DEF Reject
    <3>3. Proposal \in admitted /\ pool[Proposal] \in Model
      BY <2>1, <3>1 DEF Eligible
    <3>4. TypeOK'
      BY <1>2, <3>2, <3>3 DEF LoopInv, TypeOK, Position
    <3>5. Recorded'
      BY <1>2, <3>2, <3>3 DEF LoopInv, Recorded
    <3>6. TakesFirstClaimable'
      BY <1>2, <3>2 DEF LoopInv, TakesFirstClaimable, Claimable, Position
    <3>7. ~degenerate
      BY <1>2, <3>2 DEF LoopInv, Judged, Looping, None
    <3> QED
      BY <3>2, <3>4, <3>5, <3>6, <3>7 DEF LoopInv, Judged
  <2>5. CASE Exhaust
    <3>1. /\ UNCHANGED <<pool, admitted, colliding, collisions>> /\ claimed' = None
          /\ degenerate' = (Cardinality(collisions) = Len(pool) /\ Len(pool) > 1)
          /\ Eligible = {} /\ claimed = Looping
      BY <2>5 DEF Exhaust
    <3>2. Claimable = {}
      BY <1>2, <3>1 DEF LoopInv, Recorded, Claimable, Eligible
    <3>3. TypeOK'
      BY <1>2, <3>1 DEF LoopInv, TypeOK, Position
    <3>4. Recorded'
      BY <1>2, <3>1 DEF LoopInv, Recorded
    <3>5. None \notin Position
      BY <2>1 DEF None
    <3>6. TakesFirstClaimable'
      BY <3>1, <3>2, <3>5 DEF TakesFirstClaimable, Claimable, Position
    <3>7. Judged'
      BY <3>1 DEF Judged
    <3> QED
      BY <3>3, <3>4, <3>6, <3>7 DEF LoopInv
  <2>6. CASE UNCHANGED vars
    BY <1>2, <2>6 DEF vars, LoopInv, TypeOK, Recorded, TakesFirstClaimable, Judged, Claimable,
                      Position
  <2> QED
    BY <1>2, <2>3, <2>4, <2>5, <2>6 DEF Next
<1> QED
  BY <1>1, <1>2, PTL DEF Spec

\* The loop takes the candidate Rotation takes, for every pool, every admission and every
\* set of collisions.
THEOREM LoopTakesFirstClaimable == Spec => []TakesFirstClaimable
<1>1. LoopInv => TakesFirstClaimable
  BY DEF LoopInv
<1> QED
  BY <1>1, LoopInvariant, PTL

\* A pool is never called degenerate when it is not, repeated models or not.
OnlyTrulyDegenerate ==
  degenerate => Len(pool) > 1 /\ admitted = Position /\ \A i \in Position : pool[i] \in colliding

THEOREM DegenerateIsNeverWrong == Spec => []OnlyTrulyDegenerate
<1>1. ASSUME LoopInv, degenerate PROVE OnlyTrulyDegenerate
  <2> DEFINE models == {pool[i] : i \in admitted}
  <2>1. /\ Len(pool) \in Nat /\ Len(pool) > 1 /\ Position = 1 .. Len(pool)
        /\ admitted \subseteq Position /\ collisions \subseteq models
        /\ Cardinality(collisions) = Len(pool) /\ collisions \subseteq colliding
    BY <1>1, PoolsAssumption DEF LoopInv, TypeOK, Judged, Recorded, Position
  <2>2. IsFiniteSet(Position) /\ Cardinality(Position) = Len(pool)
    BY <2>1, FS_Interval
  <2>3. /\ IsFiniteSet(admitted) /\ Cardinality(admitted) <= Len(pool)
        /\ Cardinality(admitted) = Len(pool) => admitted = Position
    BY <2>1, <2>2, FS_Subset
  <2>4. IsFiniteSet(models) /\ Cardinality(models) <= Cardinality(admitted)
    <3> DEFINE f == [i \in admitted |-> pool[i]]
    <3>1. f \in Surjection(admitted, models)
      BY DEF Surjection
    <3> HIDE DEF f
    <3> QED
      BY <2>3, <3>1, FS_Surjection
  <2>5. /\ Cardinality(collisions) <= Cardinality(models)
        /\ Cardinality(collisions) = Cardinality(models) => collisions = models
    BY <2>1, <2>4, FS_Subset
  <2>6. Cardinality(models) \in Nat /\ Cardinality(admitted) \in Nat
    BY <2>3, <2>4, FS_CardinalityType
  <2> HIDE DEF models
  <2>7. admitted = Position /\ collisions = models
    BY <2>1, <2>3, <2>4, <2>5, <2>6
  <2>8. \A i \in Position : pool[i] \in models
    BY <2>7 DEF models
  <2> QED
    BY <2>1, <2>7, <2>8 DEF OnlyTrulyDegenerate
<1>2. LoopInv => OnlyTrulyDegenerate
  BY <1>1 DEF OnlyTrulyDegenerate
<1> QED
  BY <1>2, LoopInvariant, PTL

\* An exhausted pass has turned every admitted candidate down, and counted.
Exhausted ==
  claimed = None =>
    /\ \A i \in admitted : pool[i] \in collisions
    /\ Cardinality(collisions) = Len(pool) /\ Len(pool) > 1 => degenerate

\* When no two candidates name one model, all of which collide, the count is exact.
LEMMA DegenerateIsSeen ==
  ASSUME LoopInv, Exhausted, claimed = None, Len(pool) > 1,
         \A i, j \in Position : pool[i] = pool[j] => i = j,
         admitted = Position
  PROVE  degenerate
<1>1. /\ Len(pool) \in Nat /\ Len(pool) > 1 /\ Position = 1 .. Len(pool)
      /\ collisions = {pool[i] : i \in Position}
  BY PoolsAssumption DEF LoopInv, TypeOK, Position, Recorded, Exhausted
<1>2. IsFiniteSet(Position) /\ Cardinality(Position) = Len(pool)
  <2>1. 1 \in Int /\ Len(pool) \in Int /\ Len(pool) - 1 + 1 = Len(pool) /\ ~(1 > Len(pool))
    BY <1>1
  <2>2. IsFiniteSet(1 .. Len(pool)) /\ Cardinality(1 .. Len(pool)) = Len(pool)
    BY <2>1, FS_Interval
  <2> QED
    BY <1>1, <2>2
<1> DEFINE f == [i \in Position |-> pool[i]]
<1>3. f \in Surjection(Position, collisions)
  BY <1>1 DEF Surjection
<1>4. f \in Injection(Position, collisions)
  BY <1>1 DEF Injection, IsInjective
<1> HIDE DEF f
<1>5. Cardinality(collisions) = Cardinality(Position)
  BY <1>2, <1>3, <1>4, FS_Surjection
<1> QED
  BY <1>2, <1>5 DEF Exhausted

\* The verdict on the pool is right, and is not missed unless two entries name one model
\* (DegenerateIsTrue), for pools of every length.
THEOREM DegenerateIsExact == Spec => []DegenerateIsTrue
<1>1. Init => Exhausted
  BY DEF Init, Exhausted, Looping, None
<1>2. ASSUME LoopInv, Exhausted, [Next]_vars PROVE Exhausted'
  <2>1. CASE Take
    <3>1. Position = 1 .. Len(pool) /\ Len(pool) \in Nat /\ Eligible \in SUBSET Position
      BY <1>2, PoolsAssumption DEF LoopInv, TypeOK, Position, Eligible
    <3>2. Proposal \in Eligible
      BY <2>1, <3>1, ProposalIsFirst DEF Take
    <3>3. claimed' # None
      BY <2>1, <3>1, <3>2 DEF Take, None
    <3> QED
      BY <3>3 DEF Exhausted
  <2>2. CASE Reject
    BY <2>2 DEF Reject, Exhausted, Looping, None
  <2>3. CASE Exhaust
    BY <2>3 DEF Exhaust, Exhausted, Eligible
  <2>4. CASE UNCHANGED vars
    BY <1>2, <2>4 DEF vars, Exhausted
  <2> QED
    BY <1>2, <2>1, <2>2, <2>3, <2>4 DEF Next
<1>3. LoopInv /\ Exhausted /\ OnlyTrulyDegenerate => DegenerateIsTrue
  BY DegenerateIsSeen DEF OnlyTrulyDegenerate, DegenerateIsTrue
<1> QED
  BY <1>1, <1>2, <1>3, LoopInvariant, DegenerateIsNeverWrong, PTL DEF Spec

-----------------------------------------------------------------------------
(* SeatAttempts: what is told of the calls.                                 *)

CallOf    == [model : Nat, reply : Reply]
FailureOf == [model : Nat, attempt : Nat, cause : Causes]

AttemptTypeOK ==
  /\ retryEnabled \in BOOLEAN
  /\ stage \in {"first", "second", "rotate", "done"}
  /\ model \in 0 .. MaxRotations
  /\ elapsed \in Nat
  /\ calls \in Seq(CallOf)
  /\ failures \in Seq(FailureOf)
  /\ records \in Seq(Nat)
  /\ retried \in BOOLEAN

\* The model of each call.
Models == [i \in DOMAIN calls |-> calls[i].model]

\* Where a mage stands with the model it runs: no call of it yet, or exactly the one that
\* is to be corrected; and what is owed to the telemetry while the mage goes on.
CallsInv ==
  /\ \A i \in DOMAIN calls : calls[i].model <= model
  /\ stage = "first" => \A i \in DOMAIN calls : calls[i].model < model
  /\ stage = "second" => /\ calls # <<>> /\ calls[Len(calls)].model = model
                         /\ \A i \in 1 .. (Len(calls) - 1) : calls[i].model < model
                         /\ retryEnabled /\ retried
  /\ stage # "done" => records = Models /\ outcome # "crate_defect"

AttemptInv == AttemptTypeOK /\ CallsInv /\ TelemetryTellsTheCalls

\* A count up to a place is a number, and grows by one at the places counted.
LEMMA UpToStep ==
  ASSUME NEW S, NEW n \in Nat
  PROVE  /\ IsFiniteSet(S \cap (1 .. n)) /\ UpTo(S, n) \in Nat
         /\ UpTo(S, n + 1) = UpTo(S, n) + IF n + 1 \in S THEN 1 ELSE 0
<1>1. IsFiniteSet(1 .. n)
  BY FS_Interval
<1>2. IsFiniteSet(S \cap (1 .. n))
  BY <1>1, FS_Subset
<1>3. Cardinality(S \cap (1 .. n)) \in Nat
  BY <1>2, FS_CardinalityType
<1>4. CASE n + 1 \in S
  <2>1. S \cap (1 .. (n + 1)) = (S \cap (1 .. n)) \cup {n + 1}
    BY <1>4
  <2>2. n + 1 \notin S \cap (1 .. n)
    OBVIOUS
  <2>3. Cardinality((S \cap (1 .. n)) \cup {n + 1}) = Cardinality(S \cap (1 .. n)) + 1
    BY <1>2, <2>2, FS_AddElement
  <2> QED
    BY <1>2, <1>3, <1>4, <2>1, <2>3 DEF UpTo
<1>5. CASE n + 1 \notin S
  <2>1. S \cap (1 .. (n + 1)) = S \cap (1 .. n)
    BY <1>5
  <2> QED
    BY <1>2, <1>3, <1>5, <2>1 DEF UpTo
<1> QED
  BY <1>4, <1>5

\* The places counted are numbered from one, without exceeding the whole count.
LEMMA UpToWithin ==
  ASSUME NEW S, NEW n \in Nat, NEW i \in S \cap (1 .. n)
  PROVE  UpTo(S, i) \in 1 .. UpTo(S, n)
<1>1. PICK m \in Nat : i = m + 1
  <2>1. i - 1 \in Nat /\ i = (i - 1) + 1
    OBVIOUS
  <2> QED
    BY <2>1
<1>2. UpTo(S, m) \in Nat /\ UpTo(S, i) = UpTo(S, m) + 1
  <2>1. UpTo(S, m) \in Nat /\ UpTo(S, m + 1) = UpTo(S, m) + IF m + 1 \in S THEN 1 ELSE 0
    BY UpToStep
  <2> QED
    BY <1>1, <2>1
<1>3. S \cap (1 .. i) \subseteq S \cap (1 .. n)
  OBVIOUS
<1>4. UpTo(S, i) <= UpTo(S, n) /\ UpTo(S, n) \in Nat
  <2>1. IsFiniteSet(S \cap (1 .. n)) /\ UpTo(S, n) \in Nat
    BY UpToStep
  <2> QED
    BY <1>3, <2>1, FS_Subset DEF UpTo
<1> QED
  BY <1>2, <1>4

\* A call is appended, and whatever is asked of the earlier ones has the same answer.
LEMMA CallAppends ==
  ASSUME AttemptTypeOK, NEW r \in Reply, NEW took, Call(r, took), model' = model
  PROVE  /\ Len(calls) \in Nat /\ Len(calls') = Len(calls) + 1
         /\ DOMAIN calls = 1 .. Len(calls) /\ DOMAIN calls' = 1 .. (Len(calls) + 1)
         /\ calls' \in Seq(CallOf)
         /\ \A i \in 1 .. Len(calls) : calls'[i] = calls[i]
         /\ calls'[Len(calls) + 1] = [model |-> model, reply |-> r]
<1>1. [model |-> model, reply |-> r] \in CallOf
  BY AttemptAssumption DEF AttemptTypeOK, CallOf
<1> QED
  BY <1>1 DEF AttemptTypeOK, Call

\* A call filed under the number it has among the calls of its model keeps the failures
\* telling the calls.
LEMMA FilingTells ==
  ASSUME AttemptTypeOK, FailuresTellTheCalls, NEW r \in Reply, NEW took, NEW attempt \in Nat,
         Call(r, took), Filed(r, attempt), model' = model,
         attempt = UpTo({j \in DOMAIN calls : calls[j].model = model}, Len(calls)) + 1
  PROVE  FailuresTellTheCalls' /\ failures' \in Seq(FailureOf)
<1> DEFINE n == Len(calls)
           R == Rejections
           R1 == Rejections'
           Same1(i) == {j \in DOMAIN calls' : calls'[j].model = calls'[i].model}
           new == [model |-> model, attempt |-> attempt, cause |-> r.cause]
<1>1. /\ n \in Nat /\ Len(calls') = n + 1 /\ DOMAIN calls = 1 .. n
      /\ DOMAIN calls' = 1 .. (n + 1)
      /\ \A i \in 1 .. n : calls'[i] = calls[i]
      /\ calls'[n + 1] = [model |-> model, reply |-> r]
  BY CallAppends
<1>2. /\ R \subseteq 1 .. n
      /\ \A i \in 1 .. n : i \in R1 <=> i \in R
      /\ n + 1 \in R1 <=> r.kind = "rejected"
  BY <1>1 DEF Rejections
<1>3. ASSUME NEW i \in 1 .. n PROVE UpTo(R1, i) = UpTo(R, i)
  <2>1. R1 \cap (1 .. i) = R \cap (1 .. i)
    BY <1>2
  <2> QED
    BY <2>1 DEF UpTo
<1>4. UpTo(R1, n) = UpTo(R, n)
  <2>1. R1 \cap (1 .. n) = R \cap (1 .. n)
    BY <1>2
  <2> QED
    BY <2>1 DEF UpTo
<1>5. /\ Len(failures) = UpTo(R, n) /\ UpTo(R, n) \in Nat
      /\ UpTo(R1, n + 1) = UpTo(R, n) + IF r.kind = "rejected" THEN 1 ELSE 0
  BY <1>1, <1>2, <1>4, UpToStep DEF FailuresTellTheCalls
<1>6. ASSUME NEW i \in 1 .. n PROVE UpTo(Same1(i), i) = UpTo(SameModel(i), i)
  <2>1. Same1(i) \cap (1 .. i) = SameModel(i) \cap (1 .. i)
    BY <1>1 DEF SameModel
  <2> QED
    BY <2>1 DEF UpTo
<1>7. UpTo(Same1(n + 1), n + 1) = attempt
  <2> DEFINE S == {j \in DOMAIN calls : calls[j].model = model}
             T == Same1(n + 1)
  <2>2. T \cap (1 .. n) = S \cap (1 .. n) /\ n + 1 \in T
    BY <1>1
  <2>3. UpTo(T, n) = UpTo(S, n)
    BY <2>2 DEF UpTo
  <2>4. UpTo(T, n + 1) = UpTo(T, n) + 1
    BY <1>1, <2>2, UpToStep
  <2> QED
    BY <2>3, <2>4
<1>8. ASSUME NEW i \in R
      PROVE  /\ UpTo(R, i) \in 1 .. Len(failures)
             /\ failures[UpTo(R, i)] = [model |-> calls'[i].model,
                                        attempt |-> UpTo(Same1(i), i),
                                        cause |-> calls'[i].reply.cause]
  <2>1. i \in R \cap (1 .. n)
    BY <1>2
  <2>2. UpTo(R, i) \in 1 .. UpTo(R, n)
    BY <1>1, <2>1, UpToWithin
  <2> QED
    BY <1>1, <1>5, <1>6, <2>1, <2>2 DEF FailuresTellTheCalls
<1>9. CASE r.kind = "rejected"
  <2>1. r.cause \in Causes
    BY <1>9 DEF Reply, Rejected, Failed, Valid, Elapsed
  <2>2. failures' = Append(failures, new) /\ new \in FailureOf
    BY <1>9, <2>1, AttemptAssumption DEF Filed, FailureOf, AttemptTypeOK
  <2>3. /\ failures' \in Seq(FailureOf)
        /\ Len(failures') = Len(failures) + 1 /\ Len(failures) \in Nat
        /\ \A k \in 1 .. Len(failures) : failures'[k] = failures[k]
        /\ failures'[Len(failures) + 1] = new
    BY <2>2 DEF AttemptTypeOK
  <2>4. Len(failures') = UpTo(R1, n + 1)
    BY <1>5, <1>9, <2>3
  <2>5. ASSUME NEW i \in R1
        PROVE  failures'[UpTo(R1, i)] = [model |-> calls'[i].model,
                                         attempt |-> UpTo(Same1(i), i),
                                         cause |-> calls'[i].reply.cause]
    <3>1. CASE i \in R
      BY <1>2, <1>3, <1>8, <2>3, <3>1
    <3>2. CASE i = n + 1
      <4>1. UpTo(R1, i) = Len(failures) + 1
        BY <1>5, <1>9, <3>2
      <4>2. calls'[i].model = model /\ calls'[i].reply.cause = r.cause
        BY <1>1, <3>2
      <4> QED
        BY <1>7, <2>3, <3>2, <4>1, <4>2
    <3>3. i \in R \/ i = n + 1
      BY <1>1, <1>2 DEF Rejections
    <3> QED
      BY <3>1, <3>2, <3>3
  <2>6. Len(failures') = UpTo(R1, Len(calls'))
    BY <1>1, <2>4
  <2> QED
    BY <2>3, <2>5, <2>6 DEF FailuresTellTheCalls, UpTo, SameModel
<1>10. CASE r.kind # "rejected"
  <2>1. failures' = failures
    BY <1>10 DEF Filed
  <2>2. Len(failures') = UpTo(R1, Len(calls'))
    BY <1>1, <1>5, <1>10, <2>1
  <2>3. ASSUME NEW i \in R1
        PROVE  failures'[UpTo(R1, i)] = [model |-> calls'[i].model,
                                         attempt |-> UpTo(Same1(i), i),
                                         cause |-> calls'[i].reply.cause]
    <3>1. i \in R /\ i \in 1 .. n
      BY <1>1, <1>2, <1>10 DEF Rejections
    <3> QED
      BY <1>3, <1>8, <2>1, <3>1
  <2> QED
    BY <2>1, <2>2, <2>3 DEF FailuresTellTheCalls, UpTo, SameModel, AttemptTypeOK
<1> QED
  BY <1>9, <1>10

\* The calls of a well typed state, place by place.
LEMMA CallsTyped ==
  ASSUME AttemptTypeOK
  PROVE  /\ Len(calls) \in Nat /\ DOMAIN calls = 1 .. Len(calls)
         /\ \A i \in 1 .. Len(calls) : calls[i] \in CallOf /\ calls[i].model \in Nat
         /\ model \in Nat /\ MaxRotations \in Nat /\ model <= MaxRotations
<1>1. /\ calls \in Seq(CallOf) /\ Len(calls) \in Nat /\ DOMAIN calls = 1 .. Len(calls)
      /\ \A i \in 1 .. Len(calls) : calls[i] \in CallOf
  BY DEF AttemptTypeOK
<1>2. \A i \in 1 .. Len(calls) : calls[i].model \in Nat
  BY <1>1 DEF CallOf
<1>3. MaxRotations \in Nat
  BY AttemptAssumption
<1>4. model \in Nat /\ model <= MaxRotations
  BY <1>3 DEF AttemptTypeOK
<1> QED
  BY <1>1, <1>2, <1>3, <1>4

\* A call of a model that was not called yet is its first, the one after a call that is to
\* be corrected its second.
LEMMA AttemptNumber ==
  ASSUME AttemptTypeOK, CallsInv, stage \in {"first", "second"}
  PROVE  UpTo({j \in DOMAIN calls : calls[j].model = model}, Len(calls)) + 1
           = IF stage = "first" THEN 1 ELSE 2
<1> DEFINE S == {j \in DOMAIN calls : calls[j].model = model}
<1>1. /\ Len(calls) \in Nat /\ DOMAIN calls = 1 .. Len(calls) /\ model \in Nat
      /\ \A i \in 1 .. Len(calls) : calls[i].model \in Nat
  BY CallsTyped
<1>2. CASE stage = "first"
  <2>1. S \cap (1 .. Len(calls)) = {}
    BY <1>1, <1>2 DEF CallsInv
  <2> QED
    BY <1>2, <2>1, FS_EmptySet DEF UpTo
<1>3. CASE stage = "second"
  <2>1. S \cap (1 .. Len(calls)) = {Len(calls)}
    <3>1. Len(calls) # 0
      BY <1>1, <1>3 DEF CallsInv, AttemptTypeOK
    <3>2. Len(calls) \in S
      BY <1>1, <1>3, <3>1 DEF CallsInv
    <3>3. ASSUME NEW j \in S PROVE j = Len(calls)
      <4>1. j \in 1 .. (Len(calls) - 1) => calls[j].model < model
        BY <1>3 DEF CallsInv
      <4> QED
        BY <1>1, <4>1
    <3> QED
      BY <1>1, <3>1, <3>2, <3>3
  <2>2. Cardinality({Len(calls)}) = 1
    BY FS_Singleton
  <2>3. UpTo(S, Len(calls)) = 1
    BY <2>1, <2>2, Zenon DEF UpTo
  <2> QED
    BY <1>3, <2>3
<1> QED
  BY <1>2, <1>3

\* The attempt ends as its last reply says; a defect of ours ends the mage.
LEMMA DefectEnds ==
  ASSUME NEW r, Concludes(r)
  PROVE  stage' \in {"rotate", "done"} /\ (stage' # "done" => outcome' # "crate_defect")
BY DEF Concludes

\* A reply that generated nothing is the only one without a record, and concludes the mage.
LEMMA RecordingTells ==
  ASSUME AttemptTypeOK, CallsInv, stage # "done", NEW r \in Reply, NEW took,
         Call(r, took), model' = model
  PROVE  /\ records' \in Seq(Nat)
         /\ IF r.kind = "error" /\ r.error = "no_generation"
            THEN records' = Front(Models') /\ OutcomeOfReply(r) = "crate_defect"
            ELSE records' = Models'
<1>1. /\ Len(calls) \in Nat /\ Len(calls') = Len(calls) + 1 /\ DOMAIN calls = 1 .. Len(calls)
      /\ DOMAIN calls' = 1 .. (Len(calls) + 1)
      /\ \A i \in 1 .. Len(calls) : calls'[i] = calls[i] /\ calls[i].model \in Nat
      /\ calls'[Len(calls) + 1].model = model
  <2>1. calls'[Len(calls) + 1] = [model |-> model, reply |-> r]
    BY CallAppends
  <2>2. calls'[Len(calls) + 1].model = model
    BY <2>1
  <2> QED
    BY <2>2, CallAppends, CallsTyped
<1>2. records = Models /\ records \in Seq(Nat) /\ model \in Nat
  BY CallsTyped DEF CallsInv, AttemptTypeOK
<1>3. /\ Models' = [i \in 1 .. (Len(calls) + 1) |-> calls'[i].model]
      /\ Models = [i \in 1 .. Len(calls) |-> calls[i].model]
  BY <1>1 DEF Models
<1>4. Len(records) = Len(calls)
  BY <1>1, <1>2, <1>3
<1>5. Models' = Append(records, model)
  <2>1. /\ Append(records, model) \in Seq(Nat)
        /\ Len(Append(records, model)) = Len(calls) + 1
        /\ \A i \in 1 .. Len(calls) : Append(records, model)[i] = calls[i].model
        /\ Append(records, model)[Len(calls) + 1] = model
    BY <1>1, <1>2, <1>3, <1>4
  <2>2. \A i \in 1 .. (Len(calls) + 1) : i \in 1 .. Len(calls) \/ i = Len(calls) + 1
    BY <1>1
  <2>3. \A i \in 1 .. (Len(calls) + 1) : Append(records, model)[i] = calls'[i].model
    BY <1>1, <2>1, <2>2
  <2>4. \A i \in 1 .. (Len(calls) + 1) : calls'[i].model \in Nat
    BY <1>1, <1>2, <2>2
  <2>5. /\ Models' \in Seq(Nat) /\ Len(Models') = Len(calls) + 1
        /\ \A i \in 1 .. Len(Models') : Models'[i] = calls'[i].model
    BY <1>1, <1>3, <2>4
  <2> QED
    BY <2>1, <2>3, <2>5, SeqEqual
<1>6. CASE r.kind = "error" /\ r.error = "no_generation"
  <2>1. records' = records
    BY <1>6 DEF Call, Record
  <2>2. Front(Append(records, model)) = records
    <3>1. Front(Append(records, model)) = SubSeq(Append(records, model), 1, Len(records))
      BY <1>2 DEF Front
    <3> QED
      BY <1>2, <3>1
  <2>3. OutcomeOfReply(r) = "crate_defect"
    BY <1>6 DEF OutcomeOfReply, OutcomeOf, IsMageLocal
  <2> QED
    BY <1>2, <1>5, <1>6, <2>1, <2>2, <2>3
<1>7. CASE ~(r.kind = "error" /\ r.error = "no_generation")
  <2>1. records' = Append(records, model)
    BY <1>7 DEF Call, Record
  <2> QED
    BY <1>2, <1>5, <1>7, <2>1
<1> QED
  BY <1>6, <1>7

\* What the telemetry tells is kept by the first call on a model.
LEMMA FirstCallTells ==
  ASSUME AttemptInv, NEW r \in Reply, NEW took \in CallTimes \cup {Timeout},
         FirstCall(r, took)
  PROVE  AttemptInv'
<1> DEFINE n == Len(calls)
<1>1. /\ stage = "first" /\ Call(r, took) /\ Filed(r, 1) /\ model' = model
      /\ retryEnabled' = retryEnabled
      /\ AttemptTypeOK /\ CallsInv /\ FailuresTellTheCalls /\ RetriedIsTrue
  BY DEF FirstCall, AttemptInv, TelemetryTellsTheCalls
<1>2. /\ n \in Nat /\ Len(calls') = n + 1 /\ DOMAIN calls = 1 .. n
      /\ DOMAIN calls' = 1 .. (n + 1) /\ calls' \in Seq(CallOf)
      /\ \A i \in 1 .. n : calls'[i] = calls[i]
      /\ calls'[n + 1] = [model |-> model, reply |-> r]
  BY <1>1, CallAppends
<1>3. FailuresTellTheCalls' /\ failures' \in Seq(FailureOf)
  <2>1. UpTo({j \in DOMAIN calls : calls[j].model = model}, Len(calls)) + 1 = 1
    BY <1>1, AttemptNumber
  <2> QED
    BY <1>1, <2>1, FilingTells
<1>4. /\ records' \in Seq(Nat)
      /\ IF r.kind = "error" /\ r.error = "no_generation"
         THEN records' = Front(Models') /\ OutcomeOfReply(r) = "crate_defect"
         ELSE records' = Models'
  BY <1>1, RecordingTells
<1>5. /\ \A i \in 1 .. n : calls[i].model < model /\ calls[i].model \in Nat
      /\ model \in Nat /\ outcome # "crate_defect"
  BY <1>1, <1>2, CallsTyped DEF CallsInv
<1>6. elapsed' \in Nat /\ retried' \in BOOLEAN
  <2>1. took \in Nat
    BY AttemptAssumption
  <2>2. elapsed' = elapsed + took /\ elapsed \in Nat
    BY <1>1 DEF Call, AttemptTypeOK
  <2>3. retried \in BOOLEAN
    BY <1>1, Zenon DEF AttemptTypeOK
  <2>4. retried' = TRUE \/ retried' = retried
    BY Zenon DEF FirstCall
  <2>5. retried' \in BOOLEAN
    BY <2>3, <2>4, Zenon
  <2> QED
    BY <2>1, <2>2, <2>5
<1>7. ~(\E i \in 2 .. n : calls[i].model = calls[i - 1].model) <=> ~retried
  BY <1>1, <1>2 DEF RetriedIsTrue
<1>8. (\E i \in 2 .. (n + 1) : calls'[i].model = calls'[i - 1].model)
        <=> (\E i \in 2 .. n : calls[i].model = calls[i - 1].model)
  <2>1. \A i \in 2 .. n : i \in 1 .. n /\ i - 1 \in 1 .. n
    BY <1>2
  <2>2. ASSUME NEW i \in 2 .. (n + 1), calls'[i].model = calls'[i - 1].model
        PROVE  i \in 2 .. n
    <3>1. CASE i = n + 1
      <4>1. i - 1 = n /\ n \in 1 .. n
        BY <1>2, <3>1
      <4> QED
        BY <1>2, <1>5, <2>2, <3>1, <4>1
    <3> QED
      BY <1>2, <3>1
  <2>3. \A i \in 2 .. n : calls'[i] = calls[i] /\ calls'[i - 1] = calls[i - 1] /\ i \in 2 .. (n + 1)
    BY <1>2, <2>1
  <2> QED
    BY <2>2, <2>3
<1>9. CASE r.kind = "rejected" /\ retryEnabled
  <2>1. stage' = "second" /\ retried' = TRUE /\ outcome' = outcome
    BY <1>9 DEF FirstCall
  <2>2. records' = Models'
    BY <1>4, <1>9
  <2>3. AttemptTypeOK'
    BY <1>1, <1>2, <1>3, <1>4, <1>6, <2>1 DEF AttemptTypeOK
  <2>4. CallsInv'
    <3>1. calls' # <<>> /\ calls'[Len(calls')].model = model
      BY <1>2
    <3>2. \A i \in 1 .. (Len(calls') - 1) : calls'[i].model < model
      BY <1>2, <1>5
    <3>3. \A i \in DOMAIN calls' : calls'[i].model <= model
      BY <1>2, <1>5
    <3> QED
      BY <1>1, <1>5, <1>9, <2>1, <2>2, <3>1, <3>2, <3>3 DEF CallsInv
  <2>5. RecordsTellTheCalls' /\ RetriedIsTrue'
    BY <2>1, <2>2 DEF RecordsTellTheCalls, RetriedIsTrue, Models
  <2> QED
    BY <1>3, <2>3, <2>4, <2>5 DEF AttemptInv, TelemetryTellsTheCalls
<1>10. CASE ~(r.kind = "rejected" /\ retryEnabled)
  <2>1. Concludes(r) /\ retried' = retried
    BY <1>10 DEF FirstCall
  <2>2. stage' \in {"rotate", "done"} /\ (stage' # "done" => outcome' # "crate_defect")
    BY <2>1, DefectEnds
  <2>3. outcome' = OutcomeOfReply(r)
    BY <2>1 DEF Concludes
  <2>4. AttemptTypeOK'
    BY <1>1, <1>2, <1>3, <1>4, <1>6, <2>2 DEF AttemptTypeOK
  <2>5. CallsInv'
    <3>1. \A i \in DOMAIN calls' : calls'[i].model <= model
      BY <1>2, <1>5
    <3>2. stage' # "done" => records' = Models'
      BY <1>4, <2>2, <2>3
    <3> QED
      BY <1>1, <2>2, <3>1, <3>2 DEF CallsInv
  <2>6. RecordsTellTheCalls'
    BY <1>4, <2>3 DEF RecordsTellTheCalls, Models
  <2>7. RetriedIsTrue'
    BY <1>1, <1>2, <1>7, <1>8, <2>1 DEF RetriedIsTrue
  <2> QED
    BY <1>3, <2>4, <2>5, <2>6, <2>7 DEF AttemptInv, TelemetryTellsTheCalls
<1> QED
  BY <1>9, <1>10

\* What the telemetry tells is kept by the corrective retry.
LEMMA SecondCallTells ==
  ASSUME AttemptInv, NEW r \in Reply, NEW took \in CallTimes \cup {Timeout},
         SecondCall(r, took)
  PROVE  AttemptInv'
<1> DEFINE n == Len(calls)
<1>1. /\ stage = "second" /\ Call(r, took) /\ Filed(r, 2) /\ model' = model
      /\ retryEnabled' = retryEnabled /\ Concludes(r) /\ retried' = retried
      /\ AttemptTypeOK /\ CallsInv /\ FailuresTellTheCalls
  BY DEF SecondCall, AttemptInv, TelemetryTellsTheCalls
<1>2. /\ n \in Nat /\ Len(calls') = n + 1 /\ DOMAIN calls = 1 .. n
      /\ DOMAIN calls' = 1 .. (n + 1) /\ calls' \in Seq(CallOf)
      /\ \A i \in 1 .. n : calls'[i] = calls[i]
      /\ calls'[n + 1] = [model |-> model, reply |-> r]
  BY <1>1, CallAppends
<1>3. FailuresTellTheCalls' /\ failures' \in Seq(FailureOf)
  <2>1. UpTo({j \in DOMAIN calls : calls[j].model = model}, Len(calls)) + 1 = 2
    BY <1>1, AttemptNumber
  <2> QED
    BY <1>1, <2>1, FilingTells
<1>4. /\ records' \in Seq(Nat)
      /\ IF r.kind = "error" /\ r.error = "no_generation"
         THEN records' = Front(Models') /\ OutcomeOfReply(r) = "crate_defect"
         ELSE records' = Models'
  BY <1>1, RecordingTells
<1>5. elapsed' \in Nat
  <2>1. took \in Nat
    BY AttemptAssumption
  <2> QED
    BY <1>1, <2>1 DEF Call, AttemptTypeOK
<1>6. n # 0 /\ calls[n].model = model /\ retried
  BY <1>1, <1>2 DEF CallsInv, AttemptTypeOK
<1>7. stage' \in {"rotate", "done"} /\ (stage' # "done" => outcome' # "crate_defect")
  BY <1>1, DefectEnds
<1>8. outcome' = OutcomeOfReply(r)
  BY <1>1 DEF Concludes
<1>9. AttemptTypeOK'
  BY <1>1, <1>2, <1>3, <1>4, <1>5, <1>7 DEF AttemptTypeOK
<1>10. CallsInv'
  <2>1. \A i \in DOMAIN calls' : calls'[i].model <= model
    <3>1. \A i \in 1 .. n : calls[i].model <= model
      BY <1>1, <1>2 DEF CallsInv
    <3>2. model <= model /\ calls'[n + 1].model = model
      BY <1>1, <1>2, CallsTyped
    <3>3. \A i \in 1 .. (n + 1) : i \in 1 .. n \/ i = n + 1
      BY <1>2
    <3> QED
      BY <1>1, <1>2, <3>1, <3>2, <3>3
  <2>2. stage' # "done" => records' = Models'
    BY <1>4, <1>7, <1>8
  <2> QED
    BY <1>1, <1>7, <2>1, <2>2 DEF CallsInv
<1>11. RecordsTellTheCalls'
  BY <1>4, <1>8 DEF RecordsTellTheCalls, Models
<1>12. RetriedIsTrue'
  <2>1. n + 1 \in 2 .. (n + 1) /\ (n + 1) - 1 = n /\ n \in 1 .. n
    BY <1>2, <1>6
  <2>2. calls'[n + 1].model = calls'[(n + 1) - 1].model
    BY <1>2, <1>6, <2>1
  <2> QED
    BY <1>1, <1>2, <1>6, <2>1, <2>2 DEF RetriedIsTrue
<1> QED
  BY <1>3, <1>9, <1>10, <1>11, <1>12 DEF AttemptInv, TelemetryTellsTheCalls

\* Every reachable state of a seat is well typed, knows how often its model was called and
\* tells the calls.
THEOREM AttemptInvariant == SeatSpec => []AttemptInv
<1>1. SeatInit => AttemptInv
  <2> SUFFICES ASSUME SeatInit PROVE AttemptInv
    OBVIOUS
  <2>1. /\ calls = <<>> /\ failures = <<>> /\ records = <<>> /\ stage = "first" /\ model = 0
        /\ elapsed = 0 /\ retried = FALSE /\ outcome = "none" /\ retryEnabled \in BOOLEAN
    BY DEF SeatInit
  <2>2. DOMAIN calls = {} /\ Len(calls) = 0
    BY <2>1
  <2>3. AttemptTypeOK
    <3>1. 0 \in 0 .. MaxRotations
      BY AttemptAssumption
    <3>2. /\ <<>> \in Seq(CallOf) /\ <<>> \in Seq(FailureOf) /\ <<>> \in Seq(Nat)
          /\ 0 \in Nat /\ FALSE \in BOOLEAN
      OBVIOUS
    <3> QED
      BY <2>1, <3>1, <3>2, Zenon DEF AttemptTypeOK
  <2>4. Models = <<>>
    BY <2>1 DEF Models
  <2>5. CallsInv
    BY <2>1, <2>2, <2>4 DEF CallsInv
  <2>6. FailuresTellTheCalls
    <3>1. Rejections = {} /\ Rejections \cap (1 .. 0) = {}
      BY <2>2 DEF Rejections
    <3> QED
      BY <2>1, <2>2, <3>1, FS_EmptySet DEF FailuresTellTheCalls, UpTo
  <2>7. RecordsTellTheCalls /\ RetriedIsTrue
    BY <2>1, <2>2, <2>4 DEF RecordsTellTheCalls, RetriedIsTrue, Models
  <2> QED
    BY <2>3, <2>5, <2>6, <2>7 DEF AttemptInv, TelemetryTellsTheCalls
<1>2. AttemptInv /\ [SeatNext]_seatVars => AttemptInv'
  <2> SUFFICES ASSUME AttemptInv, [SeatNext]_seatVars PROVE AttemptInv'
    OBVIOUS
  <2>1. ASSUME NEW r \in Reply, NEW took \in CallTimes \cup {Timeout},
               FirstCall(r, took) \/ SecondCall(r, took)
        PROVE  AttemptInv'
    BY <2>1, FirstCallTells, SecondCallTells
  <2>2. CASE Rotates
    <3>1. /\ stage = "rotate" /\ stage' = "first" /\ model' = model + 1 /\ model < MaxRotations
          /\ UNCHANGED <<retryEnabled, elapsed, calls, failures, records, retried, outcome>>
      BY <2>2 DEF Rotates
    <3>2. AttemptTypeOK /\ CallsInv /\ TelemetryTellsTheCalls
      BY DEF AttemptInv
    <3>3. AttemptTypeOK'
      BY <3>1, <3>2, AttemptAssumption DEF AttemptTypeOK
    <3>4. CallsInv'
      <4>1. \A i \in DOMAIN calls : calls[i].model < model' /\ calls[i].model <= model'
        <5>1. /\ model \in Nat
              /\ \A i \in DOMAIN calls : calls[i].model \in Nat /\ calls[i].model <= model
          BY <3>2, CallsTyped DEF CallsInv
        <5> QED
          BY <3>1, <5>1
      <4> QED
        BY <3>1, <3>2, <4>1 DEF CallsInv, Models
    <3>5. TelemetryTellsTheCalls'
      BY <3>1, <3>2 DEF TelemetryTellsTheCalls, FailuresTellTheCalls, RecordsTellTheCalls,
                        RetriedIsTrue, Rejections, SameModel, UpTo
    <3> QED
      BY <3>3, <3>4, <3>5 DEF AttemptInv
  <2>3. CASE FindsNoCandidate
    <3>1. /\ stage = "rotate" /\ stage' = "done"
          /\ UNCHANGED <<retryEnabled, model, elapsed, calls, failures, records, retried, outcome>>
      BY <2>3 DEF FindsNoCandidate
    <3>2. AttemptTypeOK' /\ CallsInv'
      BY <3>1 DEF AttemptInv, AttemptTypeOK, CallsInv
    <3>3. TelemetryTellsTheCalls'
      BY <3>1 DEF AttemptInv, TelemetryTellsTheCalls, FailuresTellTheCalls,
                  RecordsTellTheCalls, RetriedIsTrue, Rejections, SameModel, UpTo
    <3> QED
      BY <3>2, <3>3 DEF AttemptInv
  <2>4. CASE UNCHANGED seatVars
    <3>1. AttemptTypeOK' /\ CallsInv'
      BY <2>4 DEF seatVars, AttemptInv, AttemptTypeOK, CallsInv, Models
    <3>2. TelemetryTellsTheCalls'
      BY <2>4 DEF seatVars, AttemptInv, TelemetryTellsTheCalls, FailuresTellTheCalls,
                  RecordsTellTheCalls, RetriedIsTrue, Rejections, SameModel, UpTo
    <3> QED
      BY <3>1, <3>2 DEF AttemptInv
  <2> QED
    BY <2>1, <2>2, <2>3, <2>4 DEF SeatNext
<1> QED
  BY <1>1, <1>2, PTL DEF SeatSpec

\* Over any chain of models, extraction failures, completion records and the retried flag
\* of a report tell the calls that were made.
THEOREM TelemetryIsTrue == SeatSpec => []TelemetryTellsTheCalls
<1>1. AttemptInv => TelemetryTellsTheCalls
  BY DEF AttemptInv
<1> QED
  BY <1>1, AttemptInvariant, PTL

\* What one model may cost: its calls, each within the timeout.
PerModel == Timeout * (IF retryEnabled THEN 2 ELSE 1)

\* What was spent so far is within the worst case of the models tried so far.
SpentInv ==
  /\ stage = "first" => elapsed <= PerModel * model
  /\ stage = "second" => elapsed <= PerModel * model + Timeout
  /\ stage \in {"rotate", "done"} => elapsed <= PerModel * (model + 1)

LEMMA MoreCostsMore ==
  ASSUME NEW p \in Nat, NEW a \in Nat, NEW b \in Nat, a <= b
  PROVE  p * a \in Nat /\ p * b \in Nat /\ p * a <= p * b /\ p * (a + 1) = p * a + p
<1>1. PICK d \in Nat : b = a + d
  <2>1. b - a \in Nat /\ b = a + (b - a)
    OBVIOUS
  <2> QED
    BY <2>1
<1>2. p * a \in Nat /\ p * d \in Nat
  BY SMT
<1>3. p * b = p * a + p * d /\ p * (a + 1) = p * a + p
  BY <1>1, SMT
<1> QED
  BY <1>2, <1>3

\* A call takes no longer than the timeout, and an attempt makes two calls only when the
\* corrective retry is on.
LEMMA SpendingStep ==
  ASSUME AttemptInv, AttemptInv', SpentInv, [SeatNext]_seatVars
  PROVE  SpentInv'
<1>1. /\ retryEnabled \in BOOLEAN /\ elapsed \in Nat /\ Timeout \in Nat
      /\ model \in Nat /\ AttemptTypeOK
  BY CallsTyped, AttemptAssumption DEF AttemptInv, AttemptTypeOK
<1> DEFINE spent == PerModel * model
<1>2. PerModel \in Nat /\ PerModel >= Timeout /\ (retryEnabled => PerModel = Timeout + Timeout)
  <2>1. CASE retryEnabled
    BY <1>1, <2>1 DEF PerModel
  <2>2. CASE ~retryEnabled
    BY <1>1, <2>2 DEF PerModel
  <2> QED
    BY <2>1, <2>2
<1>3. spent \in Nat /\ PerModel * (model + 1) = spent + PerModel
  BY <1>1, <1>2, MoreCostsMore
<1>4. ASSUME NEW r \in Reply, NEW took \in CallTimes \cup {Timeout}, FirstCall(r, took)
      PROVE  SpentInv'
  <2>1. took \in Nat /\ took <= Timeout
    BY AttemptAssumption
  <2>2. /\ stage = "first" /\ elapsed' = elapsed + took /\ model' = model
        /\ retryEnabled' = retryEnabled
    BY <1>4 DEF FirstCall, Call
  <2>3. elapsed <= spent
    BY <2>2 DEF SpentInv
  <2>4. stage' \in {"second", "rotate", "done"}
    BY <1>4 DEF FirstCall, Concludes
  <2>5. PerModel' = PerModel
    BY <2>2 DEF PerModel
  <2>6. elapsed' <= spent + Timeout /\ elapsed' <= spent + PerModel
    BY <1>1, <1>2, <1>3, <2>1, <2>2, <2>3
  <2> QED
    BY <1>3, <2>2, <2>4, <2>5, <2>6 DEF SpentInv
<1>5. ASSUME NEW r \in Reply, NEW took \in CallTimes \cup {Timeout}, SecondCall(r, took)
      PROVE  SpentInv'
  <2>1. took \in Nat /\ took <= Timeout
    BY AttemptAssumption
  <2>2. /\ stage = "second" /\ elapsed' = elapsed + took /\ model' = model
        /\ retryEnabled' = retryEnabled
    BY <1>5 DEF SecondCall, Call
  <2>3. elapsed <= spent + Timeout /\ retryEnabled
    BY <2>2 DEF SpentInv, AttemptInv, CallsInv
  <2>4. stage' \in {"rotate", "done"}
    BY <1>5 DEF SecondCall, Concludes
  <2>5. PerModel' = PerModel
    BY <2>2 DEF PerModel
  <2>6. elapsed' <= spent + PerModel
    BY <1>1, <1>2, <1>3, <2>1, <2>2, <2>3
  <2> QED
    BY <1>3, <2>2, <2>4, <2>5, <2>6 DEF SpentInv
<1>6. CASE Rotates
  <2>1. /\ stage = "rotate" /\ stage' = "first" /\ model' = model + 1 /\ elapsed' = elapsed
        /\ retryEnabled' = retryEnabled
    BY <1>6 DEF Rotates
  <2>2. PerModel' = PerModel
    BY <2>1 DEF PerModel
  <2> QED
    BY <2>1, <2>2 DEF SpentInv
<1>7. CASE FindsNoCandidate
  <2>1. /\ stage = "rotate" /\ stage' = "done" /\ model' = model /\ elapsed' = elapsed
        /\ retryEnabled' = retryEnabled
    BY <1>7 DEF FindsNoCandidate
  <2>2. PerModel' = PerModel
    BY <2>1 DEF PerModel
  <2> QED
    BY <2>1, <2>2 DEF SpentInv
<1>8. CASE UNCHANGED seatVars
  BY <1>8 DEF seatVars, SpentInv, PerModel
<1> QED
  BY <1>4, <1>5, <1>6, <1>7, <1>8 DEF SeatNext

\* Whatever its calls come to, a mage spends no more than worst_case_per_seat.
THEOREM WorstCaseBounds == SeatSpec => []SpendsWithinWorstCase
<1>1. SeatInit /\ AttemptInv => SpentInv
  <2> SUFFICES ASSUME SeatInit, AttemptInv PROVE SpentInv
    OBVIOUS
  <2>1. stage = "first" /\ elapsed = 0 /\ model = 0
    BY DEF SeatInit
  <2>2. PerModel \in Nat
    BY AttemptAssumption DEF PerModel
  <2> QED
    BY <2>1, <2>2 DEF SpentInv
<1>2. AttemptInv /\ AttemptInv' /\ SpentInv /\ [SeatNext]_seatVars => SpentInv'
  BY SpendingStep
<1>3. AttemptInv /\ SpentInv => SpendsWithinWorstCase
  <2> SUFFICES ASSUME AttemptInv, SpentInv PROVE SpendsWithinWorstCase
    OBVIOUS
  <2>1. /\ elapsed \in Nat /\ model \in Nat /\ MaxRotations \in Nat /\ model <= MaxRotations
        /\ stage \in {"first", "second", "rotate", "done"}
    BY CallsTyped DEF AttemptInv, AttemptTypeOK
  <2>2. /\ PerModel \in Nat /\ Timeout \in Nat /\ PerModel >= Timeout
    <3>1. Timeout \in Nat
      BY AttemptAssumption
    <3> QED
      BY <3>1 DEF PerModel
  <2>3. /\ PerModel * model \in Nat /\ PerModel * (model + 1) = PerModel * model + PerModel
        /\ PerModel * (model + 1) <= PerModel * (MaxRotations + 1)
        /\ PerModel * (MaxRotations + 1) \in Nat
    <3>1. /\ model + 1 \in Nat /\ MaxRotations + 1 \in Nat
          /\ model + 1 <= MaxRotations + 1 /\ model <= model
      BY <2>1
    <3>2. PerModel * model \in Nat /\ PerModel * (model + 1) = PerModel * model + PerModel
      BY <2>1, <2>2, <3>1, MoreCostsMore
    <3>3. /\ PerModel * (model + 1) <= PerModel * (MaxRotations + 1)
          /\ PerModel * (MaxRotations + 1) \in Nat
      BY <2>2, <3>1, MoreCostsMore
    <3> QED
      BY <3>2, <3>3
  <2> DEFINE spent == PerModel * model
             next == PerModel * (model + 1)
             most == PerModel * (MaxRotations + 1)
  <2>4. spent \in Nat /\ next = spent + PerModel /\ next <= most /\ most \in Nat
    BY <2>3
  <2>5. /\ stage = "first" => elapsed <= spent
        /\ stage = "second" => elapsed <= spent + Timeout
        /\ stage \in {"rotate", "done"} => elapsed <= next
    BY DEF SpentInv
  <2> HIDE DEF spent, next, most
  <2>6. elapsed <= most
    BY <2>1, <2>2, <2>4, <2>5
  <2>7. most = WorstCase
    BY DEF most, WorstCase, PerModel
  <2> QED
    BY <2>6, <2>7 DEF SpendsWithinWorstCase
<1> QED
  BY <1>1, <1>2, <1>3, AttemptInvariant, PTL DEF SeatSpec

-----------------------------------------------------------------------------
(* VerdictText.                                                             *)

\* A text the parser meets: lines, whatever they are.
IsText(t) == t \in Seq(Line)

\* Two lines that are no more than the blank ones around them enclose the filled ones.
LEMMA FilledEnds ==
  ASSUME NEW S \in SUBSET Nat, NEW n \in Nat, S # {}, \A j \in S : j <= n
  PROVE  /\ (CHOOSE i \in S : \A j \in S : i <= j) \in S
         /\ \A j \in S : (CHOOSE i \in S : \A k \in S : i <= k) <= j
         /\ (CHOOSE i \in S : \A j \in S : i >= j) \in S
         /\ \A j \in S : (CHOOSE i \in S : \A k \in S : i >= k) >= j
<1>1. \E i \in S : \A j \in S : i <= j
  BY SomeFirst
<1>2. \E i \in S : \A j \in S : i >= j
  <2> DEFINE T == {n - j : j \in S}
  <2>1. \A j \in S : n - j \in Nat
    OBVIOUS
  <2>2. T \in SUBSET Nat /\ T # {}
    BY <2>1
  <2>3. PICK m \in T : \A l \in T : m <= l
    BY <2>2, SomeFirst
  <2>4. PICK i \in S : m = n - i
    OBVIOUS
  <2>5. ASSUME NEW j \in S PROVE i >= j
    <3>1. n - i <= n - j
      BY <2>3, <2>4
    <3> QED
      BY <3>1
  <2> QED
    BY <2>5
<1> QED
  BY <1>1, <1>2

\* str::trim on a stretch of a text is the stretch from its first filled line to its last.
LEMMA TrimStretch ==
  ASSUME NEW t, IsText(t), NEW i \in 1 .. (Len(t) + 1), NEW k \in 0 .. Len(t), i <= k + 1
  PROVE  /\ FilledIn(t, i, k) = {} => Trim(SubSeq(t, i, k)) = <<>>
         /\ FilledIn(t, i, k) # {} =>
              \E lo, hi \in FilledIn(t, i, k) :
                /\ \A j \in FilledIn(t, i, k) : lo <= j /\ j <= hi
                /\ Trim(SubSeq(t, i, k)) = SubSeq(t, lo, hi)
<1> DEFINE B == SubSeq(t, i, k)
           filled == {j \in DOMAIN B : B[j] # "blank"}
           F == FilledIn(t, i, k)
<1>1. /\ t \in Seq(Line) /\ Len(t) \in Nat /\ \A j \in 1 .. Len(t) : t[j] \in Line
      /\ i \in Int /\ k \in Int
  BY DEF IsText
<1>2. /\ B \in Seq(Line) /\ Len(B) = k - i + 1 /\ DOMAIN B = 1 .. (k - i + 1)
      /\ \A j \in 1 .. (k - i + 1) : B[j] = t[i + j - 1]
  <2>1. \A j \in i .. k : t[j] \in Line
    BY <1>1
  <2>2. /\ B \in Seq(Line) /\ Len(B) = IF i <= k THEN k - i + 1 ELSE 0
        /\ \A j \in 1 .. k - i + 1 : B[j] = t[i + j - 1]
    BY <1>1, <2>1, SubSeqProperties
  <2>3. Len(B) = k - i + 1
    BY <1>1, <2>2
  <2> QED
    BY <2>2, <2>3
<1> HIDE DEF B
<1>3. \A j \in filled : i + j - 1 \in F
  BY <1>1, <1>2 DEF FilledIn
<1>4. \A j \in F : j - i + 1 \in filled
  <2> SUFFICES ASSUME NEW j \in F PROVE j - i + 1 \in filled
    OBVIOUS
  <2>1. j \in i .. k /\ t[j] # "blank" /\ j \in Int
    BY <1>1 DEF FilledIn
  <2>2. j - i + 1 \in 1 .. (k - i + 1) /\ i + (j - i + 1) - 1 = j
    BY <1>1, <2>1
  <2>3. B[j - i + 1] = t[j]
    BY <1>2, <2>2
  <2> QED
    BY <1>2, <2>1, <2>2, <2>3
<1>5. CASE F = {}
  <2>1. filled = {}
    BY <1>3, <1>5
  <2> QED
    BY <1>5, <2>1 DEF Trim, B
<1>6. CASE F # {}
  <2>1. filled # {} /\ filled \in SUBSET Nat /\ k - i + 1 \in Nat
        /\ \A j \in filled : j <= k - i + 1
    BY <1>1, <1>2, <1>4, <1>6
  <2> DEFINE a == CHOOSE x \in filled : \A j \in filled : x <= j
             b == CHOOSE x \in filled : \A j \in filled : x >= j
  <2>2. Trim(B) = SubSeq(B, a, b)
    BY <2>1 DEF Trim
  <2> HIDE DEF filled
  <2>3. a \in filled /\ b \in filled /\ \A j \in filled : a <= j /\ b >= j
    BY <2>1, FilledEnds
  <2> HIDE DEF a, b
  <2> USE DEF filled
  <2>4. /\ a \in 1 .. (k - i + 1) /\ b \in 1 .. (k - i + 1)
        /\ i \in 1 .. Len(t) /\ k \in 1 .. Len(t)
    BY <1>1, <1>2, <2>3
  <2>5. SubSeq(B, a, b) = SubSeq(t, i + a - 1, i + b - 1)
    BY <1>1, <2>4, SubSeqOfSubSeq DEF B
  <2>6. i + a - 1 \in F /\ i + b - 1 \in F
    BY <1>3, <2>3
  <2>7. ASSUME NEW j \in F PROVE i + a - 1 <= j /\ j <= i + b - 1
    <3>1. a <= j - i + 1 /\ b >= j - i + 1
      BY <1>4, <2>3
    <3>2. j \in Int
      BY <1>1 DEF FilledIn
    <3> QED
      BY <1>1, <2>4, <3>1, <3>2
  <2> QED
    BY <1>6, <2>2, <2>5, <2>6, <2>7 DEF B
<1> QED
  BY <1>5, <1>6

\* The stretch of a text between two of its lines, place by place.
StretchOf(t, lo, hi) ==
  /\ lo \in Int /\ hi \in Int /\ 1 <= lo /\ lo <= hi /\ hi <= Len(t)
  /\ SubSeq(t, lo, hi) \in Seq(Line)
  /\ Len(SubSeq(t, lo, hi)) = hi - lo + 1
  /\ SubSeq(t, lo, hi)[1] = t[lo]
  /\ SubSeq(t, lo, hi)[hi - lo + 1] = t[hi]

LEMMA StretchIs ==
  ASSUME NEW t, IsText(t), NEW lo \in 1 .. Len(t), NEW hi \in 1 .. Len(t), lo <= hi
  PROVE  StretchOf(t, lo, hi)
<1>1. /\ Len(t) \in Nat /\ lo \in Int /\ hi \in Int /\ 1 <= lo /\ hi <= Len(t)
      /\ \A j \in lo .. hi : t[j] \in Line
  BY DEF IsText
<1>2. /\ SubSeq(t, lo, hi) \in Seq(Line)
      /\ Len(SubSeq(t, lo, hi)) = IF lo <= hi THEN hi - lo + 1 ELSE 0
      /\ \A j \in 1 .. hi - lo + 1 : SubSeq(t, lo, hi)[j] = t[lo + j - 1]
  BY <1>1, SubSeqProperties
<1>3. /\ 1 \in 1 .. (hi - lo + 1) /\ hi - lo + 1 \in 1 .. (hi - lo + 1)
      /\ lo + 1 - 1 = lo /\ lo + (hi - lo + 1) - 1 = hi
  BY <1>1
<1>4. SubSeq(t, lo, hi)[1] = t[lo] /\ SubSeq(t, lo, hi)[hi - lo + 1] = t[hi]
  BY <1>2, <1>3
<1> QED
  BY <1>1, <1>2, <1>4 DEF StretchOf

\* A stretch trims to one verdict line exactly when that is its only filled line.
LEMMA TrimIsOne ==
  ASSUME NEW t, IsText(t), NEW i \in 1 .. (Len(t) + 1), NEW k \in 0 .. Len(t), i <= k + 1
  PROVE  Trim(SubSeq(t, i, k)) = <<"verdict">>
           <=> \E v \in FilledIn(t, i, k) : t[v] = "verdict" /\ FilledIn(t, i, k) = {v}
<1> DEFINE F == FilledIn(t, i, k)
<1>1. CASE F = {}
  <2>1. Trim(SubSeq(t, i, k)) = <<>>
    BY <1>1, TrimStretch
  <2>2. <<>> # <<"verdict">>
    OBVIOUS
  <2> QED
    BY <1>1, <2>1, <2>2
<1>2. CASE F # {}
  <2>1. PICK lo \in F, hi \in F :
          /\ \A j \in F : lo <= j /\ j <= hi
          /\ Trim(SubSeq(t, i, k)) = SubSeq(t, lo, hi)
    BY <1>2, TrimStretch
  <2>2. StretchOf(t, lo, hi)
    <3>1. F \subseteq 1 .. Len(t)
      BY DEF FilledIn, IsText
    <3> QED
      BY <2>1, <3>1, StretchIs
  <2>3. ASSUME SubSeq(t, lo, hi) = <<"verdict">>
        PROVE  t[lo] = "verdict" /\ F = {lo}
    <3>1. Len(<<"verdict">>) = 1 /\ <<"verdict">>[1] = "verdict"
      OBVIOUS
    <3>2. hi - lo + 1 = 1 /\ t[lo] = "verdict"
      BY <2>2, <2>3, <3>1 DEF StretchOf
    <3>3. hi = lo
      BY <2>2, <3>2 DEF StretchOf
    <3>4. \A j \in F : j = lo
      BY <2>1, <2>2, <3>3 DEF FilledIn, StretchOf
    <3> QED
      BY <3>2, <3>4
  <2>4. ASSUME NEW v \in F, t[v] = "verdict", F = {v}
        PROVE  SubSeq(t, lo, hi) = <<"verdict">>
    <3>1. lo = v /\ hi = v
      BY <2>4
    <3>2. /\ Len(SubSeq(t, lo, hi)) = 1 /\ SubSeq(t, lo, hi)[1] = "verdict"
          /\ SubSeq(t, lo, hi) \in Seq(Line)
      BY <2>2, <2>4, <3>1 DEF StretchOf
    <3>3. /\ <<"verdict">> \in Seq(Line) /\ Len(<<"verdict">>) = 1
          /\ <<"verdict">>[1] = "verdict"
      <4>1. "verdict" \in Line
        BY <2>4 DEF FilledIn, IsText
      <4> QED
        BY <4>1
    <3>4. \A j \in 1 .. 1 : j = 1
      OBVIOUS
    <3> QED
      BY <3>2, <3>3, <3>4, SeqEqual
  <2> QED
    BY <2>1, <2>3, <2>4
<1> QED
  BY <1>1, <1>2

\* A block is one verdict line once it is trimmed and stripped of its fences exactly when
\* the lines between the markers are.
LEMMA BlockIsVerdict ==
  ASSUME NEW t, IsText(t), NEW i \in 1 .. (Len(t) + 1), NEW k \in 0 .. Len(t), i <= k + 1
  PROVE  StripFence(Trim(SubSeq(t, i, k))) = <<"verdict">>
           <=> IsOneVerdict(t, FilledIn(t, i, k))
<1> DEFINE F == FilledIn(t, i, k)
           T == Trim(SubSeq(t, i, k))
<1>0. Len(t) \in Nat /\ F \subseteq 1 .. Len(t)
  BY DEF FilledIn, IsText
<1>1. CASE F = {}
  <2>1. T = <<>>
    BY <1>1, TrimStretch
  <2>2. <<>> # <<"verdict">> /\ Len(<<>>) = 0
    OBVIOUS
  <2>3. StripFence(<<>>) = <<>>
    BY <2>2 DEF StripFence
  <2> QED
    BY <1>1, <2>1, <2>2, <2>3 DEF IsOneVerdict
<1>2. CASE F # {}
  <2>1. PICK lo \in F, hi \in F :
          (\A j \in F : lo <= j /\ j <= hi) /\ T = SubSeq(t, lo, hi)
    BY <1>2, TrimStretch
  <2>2. StretchOf(t, lo, hi)
    BY <1>0, <2>1, StretchIs
  <2> HIDE DEF T
  <2>3. /\ lo \in Nat /\ hi \in Nat /\ Len(T) = hi - lo + 1 /\ lo <= hi
        /\ T[1] = t[lo] /\ T[Len(T)] = t[hi]
        /\ lo \in 1 .. Len(t) /\ hi \in 1 .. Len(t)
    BY <1>0, <2>1, <2>2 DEF StretchOf
  <2>4. ASSUME NEW v \in F, NEW a \in F, NEW b \in F, F = {a, v, b}, a < v, v < b
        PROVE  lo = a /\ hi = b
    BY <1>0, <2>1, <2>4
  <2>5. CASE hi - lo + 1 >= 2 /\ t[lo] \in Fence /\ t[lo] = t[hi]
    <3> DEFINE G == FilledIn(t, lo + 1, hi - 1)
    <3>1. StripFence(T) = Trim(SubSeq(T, 2, Len(T) - 1))
      BY <2>3, <2>5 DEF StripFence
    <3>2. SubSeq(T, 2, Len(T) - 1) = SubSeq(t, lo + 1, hi - 1)
      <4>1. CASE hi - lo + 1 = 2
        <5>1. Len(T) - 1 = 1 /\ hi - 1 < lo + 1
          BY <2>3, <4>1
        <5>2. SubSeq(T, 2, 1) = <<>> /\ SubSeq(t, lo + 1, hi - 1) = <<>>
          BY <2>3, <5>1, SubSeqEmpty
        <5> QED
          BY <5>1, <5>2
      <4>2. CASE hi - lo + 1 # 2
        <5>1. /\ lo \in 1 .. Len(t) /\ hi \in 1 .. Len(t) /\ t \in Seq(Line)
              /\ 2 \in 1 .. (hi - lo + 1) /\ Len(T) - 1 \in 1 .. (hi - lo + 1)
              /\ lo + 2 - 1 = lo + 1 /\ lo + (Len(T) - 1) - 1 = hi - 1
          BY <1>0, <2>3, <2>5, <4>2 DEF IsText
        <5>2. SubSeq(SubSeq(t, lo, hi), 2, Len(T) - 1) = SubSeq(t, lo + 2 - 1, lo + (Len(T) - 1) - 1)
          BY <5>1, SubSeqOfSubSeq
        <5> QED
          BY <2>1, <5>1, <5>2
      <4> QED
        BY <4>1, <4>2
    <3>3. F = {lo, hi} \cup G /\ lo \notin G /\ hi \notin G /\ lo # hi
      <4>1. G \subseteq F
        BY <1>0, <2>1, <2>3 DEF FilledIn
      <4>2. \A j \in F : j = lo \/ j = hi \/ j \in G
        BY <1>0, <2>1, <2>3 DEF FilledIn
      <4>3. lo \notin G /\ hi \notin G
        BY <2>3 DEF FilledIn
      <4>4. lo # hi
        BY <2>3, <2>5
      <4>5. \A j : j \in F <=> j \in {lo, hi} \cup G
        BY <2>1, <4>1, <4>2
      <4> QED
        BY <4>3, <4>4, <4>5
    <3>4. StripFence(T) = <<"verdict">> <=> \E v \in G : t[v] = "verdict" /\ G = {v}
      <4>1. /\ lo + 1 \in 1 .. (Len(t) + 1) /\ hi - 1 \in 0 .. Len(t)
            /\ lo + 1 <= (hi - 1) + 1
        BY <1>0, <2>3, <2>5
      <4>2. Trim(SubSeq(t, lo + 1, hi - 1)) = <<"verdict">>
              <=> \E v \in G : t[v] = "verdict" /\ G = {v}
        BY <4>1, TrimIsOne
      <4> QED
        BY <3>1, <3>2, <4>2
    <3>5. ASSUME NEW v \in G, t[v] = "verdict", G = {v} PROVE IsOneVerdict(t, F)
      <4>1. F = {lo, v, hi} /\ v \in F /\ lo < v /\ v < hi
        BY <2>3, <3>3, <3>5 DEF FilledIn
      <4> QED
        BY <2>5, <3>5, <4>1 DEF IsOneVerdict
    <3>6. ASSUME IsOneVerdict(t, F) PROVE \E v \in G : t[v] = "verdict" /\ G = {v}
      <4>1. PICK v \in F :
              /\ t[v] = "verdict"
              /\ \/ F = {v}
                 \/ \E a, b \in F : F = {a, v, b} /\ a < v /\ v < b
        BY <3>6 DEF IsOneVerdict
      <4>2. F # {v}
        BY <3>3
      <4>3. PICK a \in F, b \in F : F = {a, v, b} /\ a < v /\ v < b
        BY <4>1, <4>2
      <4>4. lo = a /\ hi = b
        BY <2>4, <4>3
      <4>5. lo # v /\ hi # v
        BY <1>0, <4>3, <4>4
      <4>6. G = {v}
        BY <3>3, <4>3, <4>4, <4>5
      <4> QED
        BY <4>1, <4>6
    <3> QED
      BY <3>4, <3>5, <3>6 DEF T
  <2>6. CASE ~(hi - lo + 1 >= 2 /\ t[lo] \in Fence /\ t[lo] = t[hi])
    <3>1. StripFence(T) = T
      BY <2>3, <2>6 DEF StripFence
    <3>2. T = <<"verdict">> <=> \E v \in F : t[v] = "verdict" /\ F = {v}
      BY TrimIsOne DEF T
    <3>3. ASSUME NEW v \in F, NEW a \in F, NEW b \in F, F = {a, v, b}, a < v, v < b,
                 t[a] \in Fence, t[a] = t[b]
          PROVE  FALSE
      <4>1. lo = a /\ hi = b
        BY <2>4, <3>3
      <4>2. hi - lo + 1 >= 2
        BY <1>0, <3>3, <4>1
      <4> QED
        BY <2>6, <3>3, <4>1, <4>2
    <3>4. IsOneVerdict(t, F) <=> \E v \in F : t[v] = "verdict" /\ F = {v}
      BY <3>3 DEF IsOneVerdict
    <3> QED
      BY <3>1, <3>2, <3>4 DEF T
  <2> QED
    BY <2>5, <2>6
<1> QED
  BY <1>1, <1>2

\* Trimming and stripping leave a text.
LEMMA TrimIsText ==
  ASSUME NEW t, IsText(t), NEW i \in 1 .. (Len(t) + 1), NEW k \in 0 .. Len(t), i <= k + 1
  PROVE  Trim(SubSeq(t, i, k)) \in Seq(Line)
<1> DEFINE F == FilledIn(t, i, k)
<1>1. F \subseteq 1 .. Len(t)
  BY DEF FilledIn, IsText
<1>2. CASE F = {}
  <2>1. Trim(SubSeq(t, i, k)) = <<>>
    BY <1>2, TrimStretch
  <2>2. <<>> \in Seq(Line)
    OBVIOUS
  <2> QED
    BY <2>1, <2>2
<1>3. CASE F # {}
  <2>1. PICK lo \in F, hi \in F :
          (\A j \in F : lo <= j /\ j <= hi) /\ Trim(SubSeq(t, i, k)) = SubSeq(t, lo, hi)
    BY <1>3, TrimStretch
  <2>2. StretchOf(t, lo, hi)
    BY <1>1, <2>1, StretchIs
  <2> QED
    BY <2>1, <2>2 DEF StretchOf
<1> QED
  BY <1>2, <1>3

LEMMA StripIsText ==
  ASSUME NEW t, IsText(t)
  PROVE  IsText(StripFence(t))
<1>1. CASE Len(t) >= 2
  <2>1. /\ Len(t) \in Nat /\ 2 \in 1 .. (Len(t) + 1) /\ Len(t) - 1 \in 0 .. Len(t)
        /\ 2 <= (Len(t) - 1) + 1
    BY <1>1 DEF IsText
  <2>2. Trim(SubSeq(t, 2, Len(t) - 1)) \in Seq(Line)
    BY <2>1, TrimIsText
  <2> QED
    BY <2>2 DEF StripFence, IsText
<1>2. CASE ~(Len(t) >= 2)
  BY <1>2 DEF StripFence
<1> QED
  BY <1>1, <1>2

\* The two markers enclose a stretch of the text, and so does the block.
LEMMA EnclosedIsStretch ==
  ASSUME NEW t, IsText(t), NEW i \in DOMAIN t, NEW k \in DOMAIN t, i < k
  PROVE  i + 1 \in 1 .. (Len(t) + 1) /\ k - 1 \in 0 .. Len(t) /\ i + 1 <= (k - 1) + 1
BY DEF IsText

LEMMA BlockIsText ==
  ASSUME NEW t, IsText(t), NEW i \in DOMAIN t, NEW k \in DOMAIN t, i < k
  PROVE  StripFence(Trim(SubSeq(t, i + 1, k - 1))) \in Seq(Line)
<1>1. Trim(SubSeq(t, i + 1, k - 1)) \in Seq(Line)
  BY EnclosedIsStretch, TrimIsText
<1> QED
  BY <1>1, StripIsText DEF IsText

\* The block between the only two markers of a text.
BlockOf(t, i, k) == StripFence(Trim(SubSeq(t, i + 1, k - 1)))

\* Marker lines of one kind, in order: what locate_block looks for.
IsPair(t, markers, i, k) ==
  /\ i \in DOMAIN t /\ k \in DOMAIN t /\ i < k
  /\ At(t, markers \cap Open) = {i} /\ At(t, markers \cap Close) = {k}

\* A block is found exactly between the only open and the only close marker, in that order.
LEMMA LocateFinds ==
  ASSUME NEW t, IsText(t), NEW markers
  PROVE  /\ Locate(t, markers).cause = Found <=> \E i, k \in DOMAIN t : IsPair(t, markers, i, k)
         /\ \A i, k : IsPair(t, markers, i, k)
                        => Locate(t, markers) = Located(Found, BlockOf(t, i, k))
<1> DEFINE opens  == At(t, markers \cap Open)
           closes == At(t, markers \cap Close)
<1>1. Len(t) \in Nat /\ DOMAIN t = 1 .. Len(t)
  BY DEF IsText
<1>2. IsFiniteSet(opens) /\ IsFiniteSet(closes)
  <2>1. opens \subseteq 1 .. Len(t) /\ closes \subseteq 1 .. Len(t)
    BY <1>1 DEF At
  <2>2. IsFiniteSet(1 .. Len(t))
    BY <1>1, FS_Interval
  <2> QED
    BY <2>1, <2>2, FS_Subset
<1>3. \A x : Only({x}) = x
  BY DEF Only
<1>4. ASSUME NEW i, NEW k, IsPair(t, markers, i, k)
      PROVE  Locate(t, markers) = Located(Found, BlockOf(t, i, k))
  <2>1. opens = {i} /\ closes = {k} /\ i < k /\ i \in DOMAIN t /\ k \in DOMAIN t
    BY <1>4, Zenon DEF IsPair
  <2>2. Cardinality({i}) = 1 /\ Cardinality({k}) = 1
    BY FS_Singleton
  <2>3. Only(opens) = i /\ Only(closes) = k
    BY <1>3, <2>1
  <2>4. ~(k < i)
    BY <1>1, <2>1
  <2> QED
    BY <2>1, <2>2, <2>3, <2>4 DEF Locate, BlockOf
<1>5. ASSUME Locate(t, markers).cause = Found
      PROVE  \E i, k \in DOMAIN t : IsPair(t, markers, i, k)
  <2>1. /\ opens # {} /\ closes # {}
        /\ Cardinality(opens) = 1 /\ Cardinality(closes) = 1
        /\ ~(Only(closes) < Only(opens))
    BY <1>5 DEF Locate, Located, Found
  <2>2. PICK i : opens = {i}
    BY <1>2, <2>1, FS_Singleton
  <2>3. PICK k : closes = {k}
    BY <1>2, <2>1, FS_Singleton
  <2>4. i \in DOMAIN t /\ k \in DOMAIN t /\ t[i] \in Open /\ t[k] \in Close
    BY <2>2, <2>3 DEF At
  <2>5. i # k
    BY <2>4 DEF Open, Close
  <2>6. Only(opens) = i /\ Only(closes) = k
    BY <1>3, <2>2, <2>3
  <2>7. i < k
    BY <1>1, <2>1, <2>4, <2>5, <2>6
  <2> QED
    BY <2>2, <2>3, <2>4, <2>7 DEF IsPair
<1>6. ASSUME NEW i \in DOMAIN t, NEW k \in DOMAIN t, IsPair(t, markers, i, k)
      PROVE  Locate(t, markers).cause = Found
  BY <1>4, <1>6 DEF Located
<1> QED
  BY <1>4, <1>5, <1>6

\* A text is accepted exactly when what its only two markers enclose comes down to one
\* sound verdict.
LEMMA AcceptedIs ==
  ASSUME NEW t, IsText(t)
  PROVE  Parse(t) = "accepted"
           <=> \E i, k \in DOMAIN t :
                 IsPair(t, Permissive, i, k) /\ BlockOf(t, i, k) = <<"verdict">>
<1> DEFINE located == Locate(t, Permissive)
<1>1. ASSUME Parse(t) = "accepted"
      PROVE  \E i, k \in DOMAIN t :
               IsPair(t, Permissive, i, k) /\ BlockOf(t, i, k) = <<"verdict">>
  <2>1. located.cause # "accepted"
    BY DEF Locate, Located, Found
  <2>2. located.cause = Found
    BY <1>1, <2>1 DEF Parse
  <2>3. PICK i \in DOMAIN t, k \in DOMAIN t : IsPair(t, Permissive, i, k)
    BY <2>2, LocateFinds
  <2> DEFINE block == BlockOf(t, i, k)
  <2>4. located.block = block
    BY <2>3, LocateFinds DEF Located
  <2> HIDE DEF located
  <2>5. Decode(block) # "accepted"
    BY DEF Decode
  <2>6. Decode(block) = "decoded" /\ Check(block[1]) = "accepted"
    BY <1>1, <2>2, <2>4, <2>5 DEF Parse, located
  <2>7. Len(block) = 1 /\ block[1] \in Payloads
        /\ (block # <<>> => Head(block) # "partial")
    BY <2>6 DEF Decode
  <2>8. block \in Seq(Line)
    BY <2>3, BlockIsText DEF IsPair, BlockOf
  <2>9. block # <<>> /\ Head(block) = block[1]
    <3> HIDE DEF block
    <3>1. Len(block) = 1
      BY <2>7
    <3> QED
      BY <2>8, <3>1
  <2>10. block[1] = "verdict"
    BY <2>6, <2>7, <2>9 DEF Check, Payloads
  <2>11. block = <<"verdict">>
    <3>1. "verdict" \in Line
      BY <2>7, <2>8, <2>10
    <3>2. <<"verdict">> \in Seq(Line) /\ Len(<<"verdict">>) = 1 /\ <<"verdict">>[1] = "verdict"
      BY <3>1
    <3>3. \A j \in 1 .. 1 : j = 1
      OBVIOUS
    <3> QED
      BY <2>7, <2>8, <2>10, <3>2, <3>3, SeqEqual
  <2> QED
    BY <2>3, <2>11
<1>2. ASSUME NEW i \in DOMAIN t, NEW k \in DOMAIN t, IsPair(t, Permissive, i, k),
             BlockOf(t, i, k) = <<"verdict">>
      PROVE  Parse(t) = "accepted"
  <2>1. located.cause = Found /\ located.block = <<"verdict">>
    BY <1>2, LocateFinds DEF Located
  <2>2. <<"verdict">> # <<>> /\ Head(<<"verdict">>) = "verdict" /\ Len(<<"verdict">>) = 1
        /\ <<"verdict">>[1] = "verdict"
    OBVIOUS
  <2>3. Decode(<<"verdict">>) = "decoded"
    BY <2>2 DEF Decode, Payloads
  <2>4. Check("verdict") = "accepted"
    BY DEF Check
  <2> HIDE DEF located
  <2> QED
    BY <2>1, <2>2, <2>3, <2>4 DEF Parse, located
<1> QED
  BY <1>1, <1>2

\* Every reachable text is one.
LEMMA TextTypeCorrect == TextSpec => []IsText(text)
<1>1. TextInit => IsText(text)
  BY DEF TextInit, IsText
<1>2. IsText(text) /\ [TextNext]_text => IsText(text)'
  BY DEF TextNext, Write, IsText
<1> QED
  BY <1>1, <1>2, PTL DEF TextSpec

\* What is accepted of a text of any length is one sound verdict between its only two
\* markers, bare or in one pair of fences.
THEOREM AcceptanceIsDelimited == TextSpec => []AcceptedIsDelimited
<1>1. IsText(text) => AcceptedIsDelimited
  <2> SUFFICES ASSUME IsText(text) PROVE AcceptedIsDelimited
    OBVIOUS
  <2> DEFINE t == text
  <2>1. Permissive \cap Open = Open /\ Permissive \cap Close = Close
    BY DEF Permissive
  <2>2. ASSUME NEW i \in DOMAIN t, NEW k \in DOMAIN t
        PROVE  IsPair(t, Permissive, i, k) /\ BlockOf(t, i, k) = <<"verdict">>
                 <=> /\ At(t, Open) = {i} /\ At(t, Close) = {k}
                     /\ IsOneVerdict(t, FilledIn(t, i + 1, k - 1))
    <3>1. CASE i < k
      <4>1. BlockOf(t, i, k) = <<"verdict">> <=> IsOneVerdict(t, FilledIn(t, i + 1, k - 1))
        BY <3>1, EnclosedIsStretch, BlockIsVerdict DEF BlockOf
      <4> QED
        BY <2>1, <3>1, <4>1 DEF IsPair
    <3>2. CASE ~(i < k)
      <4>1. FilledIn(t, i + 1, k - 1) = {}
        BY <3>2 DEF FilledIn, IsText
      <4>2. ~IsOneVerdict(t, FilledIn(t, i + 1, k - 1))
        BY <4>1 DEF IsOneVerdict
      <4> QED
        BY <3>2, <4>2 DEF IsPair
    <3> QED
      BY <3>1, <3>2
  <2> QED
    BY <2>2, AcceptedIs DEF AcceptedIsDelimited
<1> QED
  BY <1>1, TextTypeCorrect, PTL

\* A prompt of any length that the guard lets through is no verdict when it is echoed.
THEOREM EchoIsRefused == TextSpec => []EchoIsNoVerdict
<1>1. IsText(text) => EchoIsNoVerdict
  <2> SUFFICES ASSUME IsText(text), ValidatesPrompt(text), Parse(text) = "accepted" PROVE FALSE
    BY DEF EchoIsNoVerdict
  <2>1. PICK i \in DOMAIN text, k \in DOMAIN text :
          IsPair(text, Permissive, i, k) /\ BlockOf(text, i, k) = <<"verdict">>
    BY AcceptedIs
  <2>2. PICK j \in DOMAIN text, l \in DOMAIN text : IsPair(text, Strict, j, l)
    BY LocateFinds DEF ValidatesPrompt
  <2>3. At(text, Strict \cap Open) \subseteq At(text, Permissive \cap Open)
        /\ At(text, Strict \cap Close) \subseteq At(text, Permissive \cap Close)
    BY DEF At, Strict
  <2>4. j = i /\ l = k
    BY <2>1, <2>2, <2>3 DEF IsPair
  <2>5. Locate(text, Strict).block = <<"verdict">>
    BY <2>1, <2>2, <2>4, LocateFinds DEF Located
  <2>6. <<"verdict">> # <<>> /\ Head(<<"verdict">>) = "verdict" /\ Len(<<"verdict">>) = 1
        /\ <<"verdict">>[1] = "verdict"
    OBVIOUS
  <2>7. Decode(<<"verdict">>) = "decoded"
    BY <2>6 DEF Decode, Payloads
  <2> QED
    BY <2>5, <2>7 DEF ValidatesPrompt
<1> QED
  BY <1>1, TextTypeCorrect, PTL

\* What a cut leaves is a text: the lines before it as they were, and a beginning of the
\* line it falls in.
LeftOf(t, n, line, cut) ==
  /\ IsText(cut) /\ DOMAIN cut = 1 .. n /\ Len(cut) = n
  /\ cut[n] = line /\ \A j \in 1 .. n - 1 : cut[j] = t[j]

LEMMA CutIsText ==
  ASSUME NEW t, IsText(t), NEW n \in DOMAIN t, NEW line \in Line
  PROVE  LeftOf(t, n, line, Cut(t, n, line))
<1> DEFINE head == SubSeq(t, 1, n - 1)
<1>1. n \in Nat /\ n >= 1 /\ n <= Len(t) /\ Len(t) \in Nat
  BY DEF IsText
<1>2. \A j \in 1 .. n - 1 : t[j] \in Line
  BY <1>1 DEF IsText
<1>3. /\ head \in Seq(Line) /\ Len(head) = IF 1 <= n - 1 THEN n - 1 - 1 + 1 ELSE 0
      /\ \A j \in 1 .. n - 1 - 1 + 1 : head[j] = t[1 + j - 1]
  BY <1>1, <1>2, SubSeqProperties
<1>4. Len(head) = n - 1 /\ \A j \in 1 .. n - 1 : head[j] = t[j]
  BY <1>1, <1>3
<1> HIDE DEF head
<1>5. /\ Append(head, line) \in Seq(Line) /\ Len(Append(head, line)) = n
      /\ Append(head, line)[n] = line
      /\ \A j \in 1 .. n - 1 : Append(head, line)[j] = head[j]
  BY <1>1, <1>3, <1>4
<1>6. DOMAIN Append(head, line) = 1 .. n
  BY <1>5
<1> QED
  BY <1>4, <1>5, <1>6 DEF LeftOf, IsText, Cut, head

\* Two texts with the same lines in a stretch have the same stretch.
LEMMA SameStretch ==
  ASSUME NEW t, IsText(t), NEW u, IsText(u), NEW i \in Nat, NEW k \in Nat, i >= 1,
         k <= Len(t), k <= Len(u), \A j \in i .. k : u[j] = t[j]
  PROVE  SubSeq(u, i, k) = SubSeq(t, i, k)
<1>0. Len(t) \in Nat /\ Len(u) \in Nat
  BY DEF IsText
<1>1. \A j \in i .. k : t[j] \in Line /\ u[j] \in Line
  BY <1>0 DEF IsText
<1>2. /\ SubSeq(t, i, k) \in Seq(Line)
      /\ Len(SubSeq(t, i, k)) = IF i <= k THEN k - i + 1 ELSE 0
      /\ \A j \in 1 .. k - i + 1 : SubSeq(t, i, k)[j] = t[i + j - 1]
  BY <1>1, SubSeqProperties
<1>3. /\ SubSeq(u, i, k) \in Seq(Line)
      /\ Len(SubSeq(u, i, k)) = IF i <= k THEN k - i + 1 ELSE 0
      /\ \A j \in 1 .. k - i + 1 : SubSeq(u, i, k)[j] = u[i + j - 1]
  BY <1>1, SubSeqProperties
<1>4. CASE i <= k
  <2>1. \A j \in 1 .. k - i + 1 : i + j - 1 \in i .. k
    BY <1>4
  <2>2. \A j \in 1 .. k - i + 1 : SubSeq(u, i, k)[j] = SubSeq(t, i, k)[j]
    BY <1>2, <1>3, <2>1
  <2>3. Len(SubSeq(t, i, k)) = k - i + 1 /\ Len(SubSeq(u, i, k)) = k - i + 1
    BY <1>2, <1>3, <1>4
  <2> QED
    BY <1>2, <1>3, <2>2, <2>3, SeqEqual
<1>5. CASE ~(i <= k)
  BY <1>5, SubSeqEmpty
<1> QED
  BY <1>4, <1>5

\* A line begins with a marker only if it is one of the same kind or quotes one.
LEMMA BeginningIs ==
  ASSUME NEW l \in Line, NEW line \in Beginnings(l)
  PROVE  /\ line \in Line
         /\ l \notin Quotes => (line \in Open => l \in Open) /\ (line \in Close => l \in Close)
         /\ l \in Quotes => l \notin Open /\ l \notin Close
<1>1. CASE l = "open_quoted"
  <2>1. MarkersHeading(l) = Open
    BY <1>1 DEF MarkersHeading
  <2> QED
    BY <1>1, <2>1 DEF Beginnings, Line, Quotes, Open, Close
<1>2. CASE l = "close_quoted"
  <2>1. MarkersHeading(l) = Close
    BY <1>2 DEF MarkersHeading
  <2> QED
    BY <1>2, <2>1 DEF Beginnings, Line, Quotes, Open, Close
<1>3. CASE l = "open_loose"
  <2>1. MarkersHeading(l) = {"open"}
    BY <1>3 DEF MarkersHeading
  <2>2. line \in {"blank", "prose", "open", "open_loose"}
    BY <1>3, <2>1 DEF Beginnings
  <2> QED
    BY <1>3, <2>2 DEF Line, Quotes, Open, Close
<1>4. CASE l = "close_loose"
  <2>1. MarkersHeading(l) = {"close"}
    BY <1>4 DEF MarkersHeading
  <2>2. line \in {"blank", "prose", "close", "close_loose"}
    BY <1>4, <2>1 DEF Beginnings
  <2> QED
    BY <1>4, <2>2 DEF Line, Quotes, Open, Close
<1>5. CASE l \notin {"open_quoted", "close_quoted", "open_loose", "close_loose"}
  <2>1. MarkersHeading(l) = {}
    BY <1>5 DEF MarkersHeading
  <2>2. line \in {"blank", "prose", l} \cup (IF l = "prose" THEN Fence \cup Payload ELSE {})
    BY <2>1 DEF Beginnings
  <2>3. Payload \cap (Open \cup Close) = {} /\ Fence \cap (Open \cup Close) = {}
    BY VerdictTextAssumption DEF Payloads, Open, Close, Fence
  <2>4. "blank" \notin Open \cup Close /\ "prose" \notin Open \cup Close
    BY DEF Open, Close
  <2>5. l \in Quotes => l \notin Open /\ l \notin Close
    BY DEF Quotes, Open, Close
  <2>6. line \in Line
    BY <2>2 DEF Line
  <2> QED
    BY <2>2, <2>3, <2>4, <2>5, <2>6
<1> QED
  BY <1>1, <1>2, <1>3, <1>4, <1>5

\* The markers of what a cut in line n leaves, of a text that has its two at i and k.
LEMMA MarkersLeft ==
  ASSUME NEW t, IsText(t), NEW n \in DOMAIN t, NEW line \in Beginnings(t[n]),
         NEW kind, kind \in {Open, Close}, NEW i \in DOMAIN t, At(t, kind) = {i},
         NEW cut, LeftOf(t, n, line, cut)
  PROVE  At(cut, kind) = ({i} \cap (1 .. n - 1)) \cup (IF line \in kind THEN {n} ELSE {})
<1>1. n \in Nat /\ n >= 1 /\ DOMAIN t = 1 .. Len(t) /\ Len(t) \in Nat /\ n <= Len(t)
  BY DEF IsText
<1>2. \A j \in 1 .. n - 1 : j \in At(cut, kind) <=> j = i
  <2> TAKE j \in 1 .. n - 1
  <2>1. cut[j] = t[j] /\ j \in DOMAIN cut /\ j \in DOMAIN t
    BY <1>1 DEF LeftOf
  <2>2. j \in At(cut, kind) <=> j \in At(t, kind)
    BY <2>1 DEF At
  <2> QED
    BY <2>2
<1>3. n \in At(cut, kind) <=> line \in kind
  BY <1>1 DEF At, LeftOf
<1>4. \A j : j \in At(cut, kind) => j \in 1 .. n - 1 \/ j = n
  BY <1>1 DEF At, LeftOf
<1>5. \A j : j \in At(cut, kind)
              <=> j \in ({i} \cap (1 .. n - 1)) \cup (IF line \in kind THEN {n} ELSE {})
  BY <1>1, <1>2, <1>3, <1>4
<1> QED
  BY <1>5

LEMMA PairHasTwo ==
  ASSUME NEW a, NEW b, a # b
  PROVE  Cardinality({a, b}) = 2
<1>1. IsFiniteSet({a}) /\ Cardinality({a}) = 1
  BY FS_Singleton
<1>2. Cardinality({a} \cup {b}) = 2
  BY <1>1, FS_AddElement
<1>3. {a} \cup {b} = {a, b}
  OBVIOUS
<1> QED
  BY <1>2, <1>3

\* Which shape a cut has is told by its markers.
LEMMA ShapeIs ==
  ASSUME NEW cut
  PROVE  /\ At(cut, Open) = {} /\ At(cut, Close) = {} => Parse(cut) = "missing_markers"
         /\ (At(cut, Open) = {}) # (At(cut, Close) = {}) => Parse(cut) = "unterminated"
         /\ /\ At(cut, Open) # {} /\ At(cut, Close) # {}
            /\ Cardinality(At(cut, Open)) # 1 \/ Cardinality(At(cut, Close)) # 1
            => Parse(cut) = "ambiguous"
<1>1. Permissive \cap Open = Open /\ Permissive \cap Close = Close
  BY DEF Permissive
<1>2. ASSUME At(cut, Open) = {}, At(cut, Close) = {} PROVE Parse(cut) = "missing_markers"
  <2>1. Locate(cut, Permissive).cause = "missing_markers"
    BY <1>1, <1>2 DEF Locate, Located
  <2> QED
    BY <2>1 DEF Parse, Found
<1>3. ASSUME (At(cut, Open) = {}) # (At(cut, Close) = {}) PROVE Parse(cut) = "unterminated"
  <2>1. Locate(cut, Permissive).cause = "unterminated"
    BY <1>1, <1>3 DEF Locate, Located
  <2> QED
    BY <2>1 DEF Parse, Found
<1>4. ASSUME At(cut, Open) # {}, At(cut, Close) # {},
             Cardinality(At(cut, Open)) # 1 \/ Cardinality(At(cut, Close)) # 1
      PROVE  Parse(cut) = "ambiguous"
  <2>1. Locate(cut, Permissive).cause = "ambiguous"
    BY <1>1, <1>4 DEF Locate, Located
  <2> QED
    BY <2>1 DEF Parse, Found
<1> QED
  BY <1>2, <1>3, <1>4

\* What keeps the two markers and the lines between them is accepted as before.
LEMMA KeptBlock ==
  ASSUME NEW t, IsText(t), NEW n \in DOMAIN t, NEW line, NEW cut, LeftOf(t, n, line, cut),
         NEW i \in DOMAIN t, NEW k \in DOMAIN t, i < k, k <= n,
         At(cut, Open) = {i}, At(cut, Close) = {k}, BlockOf(t, i, k) = <<"verdict">>
  PROVE  Parse(cut) = "accepted"
<1>1. /\ i \in 1 .. Len(t) /\ k \in 1 .. Len(t) /\ n \in 1 .. Len(t) /\ Len(t) \in Nat
      /\ IsText(cut) /\ Len(cut) = n /\ DOMAIN cut = 1 .. n
  BY DEF IsText, LeftOf
<1>2. \A j \in i + 1 .. k - 1 : cut[j] = t[j]
  BY <1>1 DEF LeftOf
<1>3. SubSeq(cut, i + 1, k - 1) = SubSeq(t, i + 1, k - 1)
  <2>1. i + 1 \in Nat /\ k - 1 \in Nat /\ i + 1 >= 1 /\ k - 1 <= Len(t) /\ k - 1 <= Len(cut)
    BY <1>1
  <2> QED
    BY <1>1, <1>2, <2>1, SameStretch
<1>4. BlockOf(cut, i, k) = <<"verdict">>
  BY <1>3 DEF BlockOf
<1>5. Permissive \cap Open = Open /\ Permissive \cap Close = Close
  BY DEF Permissive
<1>6. i \in DOMAIN cut /\ k \in DOMAIN cut
  <2>1. i \in 1 .. n /\ k \in 1 .. n
    BY <1>1
  <2> QED
    BY <1>1, <2>1
<1>7. IsPair(cut, Permissive, i, k)
  BY <1>5, <1>6 DEF IsPair
<1> QED
  BY <1>1, <1>4, <1>6, <1>7, AcceptedIs

\* Wherever an answer of any length that would be accepted is cut, within a line too, the
\* retry lays the cut to the budget; only behind a marker quoted after the block does it
\* blame the model, and there it always does.
THEOREM CutIsLaidToBudget == TextSpec => []OnlyCutQuoteIsBlamed
<1>1. IsText(text) => OnlyCutQuoteIsBlamed
  <2> SUFFICES ASSUME IsText(text), Parse(text) = "accepted",
                      NEW n \in DOMAIN text, NEW line \in Beginnings(text[n])
               PROVE  LET cause == Parse(Cut(text, n, line)) IN
                        IF CutBehindQuote(n, line) THEN Template(cause, "length") = "ambiguous"
                        ELSE cause = "accepted" \/ Template(cause, "length") = "budget"
    BY DEF OnlyCutQuoteIsBlamed
  <2> DEFINE cut == Cut(text, n, line)
  <2>1. PICK i \in DOMAIN text, k \in DOMAIN text :
          IsPair(text, Permissive, i, k) /\ BlockOf(text, i, k) = <<"verdict">>
    BY AcceptedIs
  <2>2. /\ i < k /\ i \in 1 .. Len(text) /\ k \in 1 .. Len(text) /\ n \in 1 .. Len(text)
        /\ Len(text) \in Nat /\ DOMAIN text = 1 .. Len(text)
    BY <2>1 DEF IsPair, IsText
  <2>3. At(text, Open) = {i} /\ At(text, Close) = {k}
    <3>1. Permissive \cap Open = Open /\ Permissive \cap Close = Close
      BY DEF Permissive
    <3> QED
      BY <2>1, <3>1 DEF IsPair
  <2>4. text[n] \in Line
    BY <2>2 DEF IsText
  <2>5. /\ line \in Line
        /\ text[n] \notin Quotes =>
             (line \in Open => text[n] \in Open) /\ (line \in Close => text[n] \in Close)
        /\ text[n] \in Quotes => text[n] \notin Open /\ text[n] \notin Close
    BY <2>4, BeginningIs
  <2>6. LeftOf(text, n, line, cut)
    BY <2>5, CutIsText
  <2> HIDE DEF cut
  <2>7. /\ At(cut, Open)  = ({i} \cap (1 .. n - 1)) \cup (IF line \in Open THEN {n} ELSE {})
        /\ At(cut, Close) = ({k} \cap (1 .. n - 1)) \cup (IF line \in Close THEN {n} ELSE {})
    BY <2>3, <2>6, MarkersLeft
  <2>8. ~(line \in Open /\ line \in Close)
    BY DEF Open, Close
  <2>9. (line \in Open /\ text[n] \notin Quotes => n = i)
        /\ (line \in Close /\ text[n] \notin Quotes => n = k)
    BY <2>3, <2>5 DEF At
  <2>10. text[n] \in Quotes => n # i /\ n # k /\ ~(i < n /\ n < k)
    <3> SUFFICES ASSUME text[n] \in Quotes PROVE n # i /\ n # k /\ ~(i < n /\ n < k)
      OBVIOUS
    <3>1. n # i /\ n # k
      BY <2>3, <2>5 DEF At
    <3>2. IsOneVerdict(text, FilledIn(text, i + 1, k - 1))
      BY <2>1, <2>2, EnclosedIsStretch, BlockIsVerdict DEF BlockOf
    <3>3. \A j \in FilledIn(text, i + 1, k - 1) : text[j] = "verdict" \/ text[j] \in Fence
      BY <3>2 DEF IsOneVerdict
    <3>4. text[n] # "blank" /\ text[n] # "verdict" /\ text[n] \notin Fence
      BY DEF Quotes, Fence
    <3>5. i < n /\ n < k => n \in FilledIn(text, i + 1, k - 1)
      BY <2>2, <3>4 DEF FilledIn
    <3> QED
      BY <3>1, <3>3, <3>4, <3>5
  <2>11. CutBehindQuote(n, line) <=> text[n] \in Quotes /\ line \in Open \cup Close /\ k < n
    <3>1. At(text, Close) \cap (1 .. n - 1) # {} <=> k < n
      BY <2>2, <2>3
    <3> QED
      BY <3>1 DEF CutBehindQuote, Permissive
  <2>12. \A cause : cause \in {"missing_markers", "unterminated"}
                      => Template(cause, "length") = "budget"
    BY DEF Template
  <2>13. /\ BlockOf(text, i, k) = <<"verdict">> /\ i < k
         /\ k \in Int /\ n \in Int
    BY <2>1, <2>2
  <2>14. CASE CutBehindQuote(n, line)
    <3>1. i \in 1 .. n - 1 /\ k \in 1 .. n - 1 /\ n # i /\ n # k
      BY <2>2, <2>11, <2>14
    <3>2. At(cut, Open) = {i, n} \/ At(cut, Close) = {k, n}
      BY <2>7, <2>11, <2>14, <3>1
    <3>3. Cardinality({i, n}) = 2 /\ Cardinality({k, n}) = 2
      BY <3>1, PairHasTwo
    <3>4. At(cut, Open) # {} /\ At(cut, Close) # {}
      BY <2>7, <3>1
    <3>5. Parse(cut) = "ambiguous"
      BY <3>2, <3>3, <3>4, ShapeIs
    <3> QED
      BY <2>14, <3>5 DEF Template, cut
  <2>15. CASE ~CutBehindQuote(n, line)
    <3>1. CASE n < i
      <4>1. i \notin 1 .. n - 1 /\ k \notin 1 .. n - 1
        BY <2>2, <3>1
      <4>2. At(cut, Open) = {} \/ At(cut, Close) = {}
        BY <2>7, <2>8, <4>1
      <4>3. Parse(cut) \in {"missing_markers", "unterminated"}
        BY <4>2, ShapeIs
      <4> QED
        BY <2>12, <2>15, <4>3 DEF cut
    <3>2. CASE i <= n /\ n < k
      <4>1. k \notin 1 .. n - 1
        BY <2>2, <3>2
      <4>2. line \notin Close
        <5>1. text[n] \in Quotes => FALSE
          BY <2>2, <2>10, <3>2
        <5> QED
          BY <2>2, <2>9, <3>2, <5>1
      <4>3. At(cut, Close) = {}
        BY <2>7, <4>1, <4>2
      <4>4. Parse(cut) \in {"missing_markers", "unterminated"}
        BY <4>3, ShapeIs
      <4> QED
        BY <2>12, <2>15, <4>4 DEF cut
    <3>3. CASE n = k
      <4>1. i \in 1 .. n - 1 /\ k \notin 1 .. n - 1 /\ text[n] \notin Quotes
        BY <2>2, <2>10, <3>3
      <4>2. line \notin Open
        BY <2>2, <2>9, <3>3, <4>1
      <4>3. CASE line \notin Close
        <5>1. At(cut, Open) # {} /\ At(cut, Close) = {}
          BY <2>7, <4>1, <4>3
        <5>2. Parse(cut) = "unterminated"
          BY <5>1, ShapeIs
        <5> QED
          BY <2>12, <2>15, <5>2 DEF cut
      <4>4. CASE line \in Close
        <5>1. At(cut, Open) = {i} /\ At(cut, Close) = {k}
          BY <2>7, <3>3, <4>1, <4>2, <4>4
        <5>2. k <= n
          BY <2>13, <3>3
        <5>3. Parse(cut) = "accepted"
          BY <2>6, <2>13, <5>1, <5>2, KeptBlock
        <5> QED
          BY <2>15, <5>3 DEF cut
      <4> QED
        BY <4>3, <4>4
    <3>4. CASE k < n
      <4>1. i \in 1 .. n - 1 /\ k \in 1 .. n - 1
        BY <2>2, <3>4
      <4>2. line \notin Open /\ line \notin Close
        BY <2>2, <2>9, <2>11, <2>15, <3>4
      <4>3. At(cut, Open) = {i} /\ At(cut, Close) = {k}
        BY <2>7, <4>1, <4>2
      <4>4. k <= n
        BY <2>13, <3>4
      <4>5. Parse(cut) = "accepted"
        BY <2>6, <2>13, <4>3, <4>4, KeptBlock
      <4> QED
        BY <2>15, <4>5 DEF cut
    <3> QED
      BY <2>2, <3>1, <3>2, <3>3, <3>4
  <2> QED
    BY <2>14, <2>15 DEF cut
<1> QED
  BY <1>1, TextTypeCorrect, PTL

-----------------------------------------------------------------------------
(* UserPrompt. `Keep` and `Prefix` put tokens where a rank says; the rank   *)
(* grows by one at each place that counts and by nothing between them.      *)

LEMMA RankStep ==
  ASSUME NEW n \in Nat, NEW P \in SUBSET (1 .. n)
  PROVE  /\ Cardinality(P) \in Nat
         /\ Rank(P, 0) = 0 /\ Rank(P, n) = Cardinality(P)
         /\ \A i \in 0 .. n : Rank(P, i) \in Nat
         /\ \A i \in 1 .. n : Rank(P, i) = Rank(P, i - 1) + (IF i \in P THEN 1 ELSE 0)
<1>1. IsFiniteSet(P) /\ Cardinality(P) \in Nat
  <2>1. 1 \in Int /\ n \in Int
    OBVIOUS
  <2>2. IsFiniteSet(1 .. n)
    BY <2>1, FS_Interval
  <2> QED
    BY <2>2, FS_Subset, FS_CardinalityType
<1> DEFINE Upto(i) == {k \in P : k <= i}
<1>2. \A i : Rank(P, i) = Cardinality(Upto(i))
  BY DEF Rank
<1>3. \A i : IsFiniteSet(Upto(i)) /\ Cardinality(Upto(i)) \in Nat
  <2>1. \A i : Upto(i) \in SUBSET P
    OBVIOUS
  <2> QED
    BY <1>1, <2>1, FS_Subset, FS_CardinalityType
<1>4. Upto(0) = {} /\ Upto(n) = P
  <2>1. \A k \in P : k \in Int /\ 1 <= k /\ k <= n
    OBVIOUS
  <2>2. Upto(0) = {}
    <3>1. \A k \in P : ~(k <= 0)
      BY <2>1
    <3> QED
      BY <3>1
  <2>3. Upto(n) = P
    BY <2>1
  <2> QED
    BY <2>2, <2>3
<1>5. ASSUME NEW i \in 1 .. n
      PROVE  Cardinality(Upto(i)) = Cardinality(Upto(i - 1)) + (IF i \in P THEN 1 ELSE 0)
  <2>0. i \in Int /\ \A k \in P : k \in Int /\ (k <= i - 1 <=> k <= i /\ k # i)
    OBVIOUS
  <2>1. CASE i \in P
    <3>1. Upto(i) = Upto(i - 1) \cup {i}
      <4>1. \A k \in P : k <= i <=> k <= i - 1 \/ k = i
        BY <2>0
      <4>2. \A k : k \in Upto(i) <=> k \in Upto(i - 1) \/ k = i
        BY <2>1, <4>1, Zenon
      <4> QED
        BY <4>2, Zenon
    <3>2. i \notin Upto(i - 1)
      BY <2>0
    <3> HIDE DEF Upto
    <3> QED
      BY <1>3, <2>1, <3>1, <3>2, FS_AddElement
  <2>2. CASE i \notin P
    <3>1. Upto(i) = Upto(i - 1)
      BY <2>0, <2>2
    <3> HIDE DEF Upto
    <3> QED
      BY <1>3, <2>2, <3>1
  <2> QED
    BY <2>1, <2>2
<1> HIDE DEF Upto
<1>6. Cardinality(Upto(0)) = 0
  BY <1>4, FS_EmptySet
<1> QED
  BY <1>1, <1>2, <1>3, <1>4, <1>5, <1>6

\* A function on 0 .. n that never falls, and rises where it is told to.
Climbs(f, n, P) ==
  /\ \A i \in 0 .. n : f[i] \in Nat
  /\ \A i \in 1 .. n : f[i - 1] <= f[i] /\ (i \in P => f[i - 1] < f[i])

LEMMA ClimbsFar ==
  ASSUME NEW n \in Nat, NEW P \in SUBSET (1 .. n), NEW f, Climbs(f, n, P)
  PROVE  \A i, j \in 0 .. n : i < j => f[i] <= f[j] /\ (j \in P => f[i] < f[j])
<1>1. ASSUME NEW i \in 0 .. n
      PROVE  \A j \in i .. n : f[i] <= f[j]
  <2> DEFINE Low == {j \in i .. n : ~(f[i] <= f[j])}
  <2>1. ASSUME Low # {} PROVE FALSE
    <3>1. Low \in SUBSET Nat
      OBVIOUS
    <3>2. PICK j \in Low : \A k \in Low : j <= k
      BY <2>1, <3>1, SomeFirst
    <3>3. j # i /\ f[i] \in Nat
      BY DEF Climbs
    <3>4. j \in 1 .. n /\ j - 1 \in i .. n /\ j - 1 \notin Low
      BY <3>2, <3>3
    <3>5. f[i] <= f[j - 1] /\ f[j - 1] <= f[j]
      BY <3>4 DEF Climbs
    <3>6. f[j - 1] \in Nat /\ f[j] \in Nat
      BY <3>4 DEF Climbs
    <3> QED
      BY <3>2, <3>3, <3>5, <3>6
  <2> QED
    BY <2>1
<1>2. ASSUME NEW i \in 0 .. n, NEW j \in 0 .. n, i < j
      PROVE  f[i] <= f[j] /\ (j \in P => f[i] < f[j])
  <2>1. j - 1 \in i .. n /\ j \in i .. n /\ j \in 1 .. n /\ j - 1 \in 0 .. n
    BY <1>2
  <2>2. f[i] <= f[j - 1] /\ f[i] <= f[j]
    BY <1>1, <2>1
  <2>3. f[i] \in Nat /\ f[j] \in Nat /\ f[j - 1] \in Nat /\ (j \in P => f[j - 1] < f[j])
    BY <2>1 DEF Climbs
  <2> QED
    BY <2>2, <2>3
<1> QED
  BY <1>2

LEMMA RankClimbs ==
  ASSUME NEW n \in Nat, NEW P \in SUBSET (1 .. n)
  PROVE  \A i, j \in 0 .. n : i < j => Rank(P, i) <= Rank(P, j)
                                       /\ (j \in P => Rank(P, i) < Rank(P, j))
<1> DEFINE f == [i \in 0 .. n |-> Rank(P, i)]
<1>1. Climbs(f, n, P)
  <2>1. \A i \in 1 .. n : i - 1 \in 0 .. n /\ i \in 0 .. n
    OBVIOUS
  <2>2. \A i \in 0 .. n : Rank(P, i) \in Nat
    BY RankStep
  <2>3. \A i \in 1 .. n : Rank(P, i) = Rank(P, i - 1) + (IF i \in P THEN 1 ELSE 0)
    BY RankStep
  <2>4. \A i \in 0 .. n : f[i] = Rank(P, i)
    OBVIOUS
  <2> HIDE DEF f
  <2>5. \A i \in 0 .. n : f[i] \in Nat
    BY <2>2, <2>4
  <2>6. ASSUME NEW i \in 1 .. n
        PROVE  f[i - 1] <= f[i] /\ (i \in P => f[i - 1] < f[i])
    <3>1. /\ f[i - 1] = Rank(P, i - 1) /\ f[i] = Rank(P, i)
          /\ Rank(P, i) \in Nat /\ Rank(P, i - 1) \in Nat
      BY <2>1, <2>2, <2>4
    <3> QED
      BY <2>3, <3>1
  <2> QED
    BY <2>5, <2>6 DEF Climbs
<1>2. \A i, j \in 0 .. n : i < j => f[i] <= f[j] /\ (j \in P => f[i] < f[j])
  <2> HIDE DEF f
  <2> QED
    BY <1>1, ClimbsFar
<1> QED
  BY <1>2

\* `out` has at its rank what s has at a place of P, and nothing else.
Picks(s, P, out) ==
  /\ Cardinality(P) \in Nat
  /\ DOMAIN out = 1 .. Cardinality(P)
  /\ \A i \in P : Rank(P, i) \in 1 .. Cardinality(P) /\ out[Rank(P, i)] = s[i]
  /\ \A j \in 1 .. Cardinality(P) : \E i \in P : Rank(P, i) = j /\ out[j] = s[i]

LEMMA KeepPicks ==
  ASSUME NEW n \in Nat, NEW P \in SUBSET (1 .. n), NEW s
  PROVE  Picks(s, P, Keep(s, P))
<1>1. Cardinality(P) \in Nat /\ Rank(P, n) = Cardinality(P) /\ Rank(P, 0) = 0
  BY RankStep
<1>2. \A i \in 0 .. n : Rank(P, i) \in Nat
  BY RankStep
<1>3. \A i \in 1 .. n : Rank(P, i) = Rank(P, i - 1) + (IF i \in P THEN 1 ELSE 0)
  BY RankStep
<1>4. \A i \in P : Rank(P, i) \in 1 .. Cardinality(P)
  <2> SUFFICES ASSUME NEW i \in P PROVE Rank(P, i) \in 1 .. Cardinality(P)
    OBVIOUS
  <2>1. i \in 1 .. n /\ i \in 0 .. n /\ n \in 0 .. n /\ i - 1 \in 0 .. n
    OBVIOUS
  <2>2. Rank(P, i) \in Nat /\ Rank(P, i - 1) \in Nat /\ Rank(P, i) = Rank(P, i - 1) + 1
    BY <1>2, <1>3, <2>1
  <2>3. i < n => Rank(P, i) <= Rank(P, n)
    BY <2>1, RankClimbs
  <2> QED
    BY <1>1, <2>1, <2>2, <2>3
<1>5. \A i, j \in P : Rank(P, i) = Rank(P, j) => i = j
  <2> SUFFICES ASSUME NEW i \in P, NEW j \in P, Rank(P, i) = Rank(P, j) PROVE i = j
    OBVIOUS
  <2>1. i \in 0 .. n /\ j \in 0 .. n /\ Rank(P, i) \in Nat
    BY <1>2
  <2>2. (i < j => Rank(P, i) < Rank(P, j)) /\ (j < i => Rank(P, j) < Rank(P, i))
    BY <2>1, RankClimbs
  <2> QED
    BY <2>1, <2>2
<1>6. ASSUME NEW j \in 1 .. Cardinality(P)
      PROVE  \E i \in P : Rank(P, i) = j
  <2> DEFINE High == {i \in 0 .. n : j <= Rank(P, i)}
  <2>1. n \in High /\ High \in SUBSET Nat
    BY <1>1
  <2>2. PICK i \in High : \A k \in High : i <= k
    BY <2>1, SomeFirst
  <2>3. i # 0
    BY <1>1, <2>2
  <2>4. i \in 1 .. n /\ i - 1 \in 0 .. n /\ i - 1 \notin High
    BY <2>2, <2>3
  <2>5. Rank(P, i) \in Nat /\ Rank(P, i - 1) \in Nat
    BY <1>2, <2>4
  <2>6. Rank(P, i - 1) < j /\ j <= Rank(P, i)
    BY <2>4, <2>5
  <2>7. i \in P /\ Rank(P, i) = j
    BY <1>3, <2>4, <2>5, <2>6
  <2> QED
    BY <2>7
<1>7. /\ DOMAIN Keep(s, P) = 1 .. Cardinality(P)
      /\ \A j \in 1 .. Cardinality(P) :
            Keep(s, P)[j] = s[CHOOSE i \in P : Rank(P, i) = j]
  BY DEF Keep
<1>8. \A j \in 1 .. Cardinality(P) : \E i \in P : Rank(P, i) = j /\ Keep(s, P)[j] = s[i]
  <2> SUFFICES ASSUME NEW j \in 1 .. Cardinality(P)
               PROVE  \E i \in P : Rank(P, i) = j /\ Keep(s, P)[j] = s[i]
    OBVIOUS
  <2> DEFINE i == CHOOSE k \in P : Rank(P, k) = j
  <2>1. i \in P /\ Rank(P, i) = j
    BY <1>6
  <2>2. Keep(s, P)[j] = s[i]
    BY <1>7
  <2> HIDE DEF i
  <2> QED
    BY <2>1, <2>2
<1>9. \A i \in P : Keep(s, P)[Rank(P, i)] = s[i]
  BY <1>4, <1>5, <1>8
<1> QED
  BY <1>1, <1>4, <1>7, <1>8, <1>9 DEF Picks

\* A text as the sanitizer leaves it.
Token == Alphabet \cup {"gap"}
IsRow(s) == s \in Seq(Token)

\* How `out` comes of s by the two spaces before each place of P: every token moves on
\* and keeps its order, two that touched still touch unless the later is of P, a place
\* of P comes after a gap, and whatever is no gap came from s.
Spreads(s, P, out) ==
  /\ IsRow(out)
  /\ \A i \in 1 .. Len(s) : Moved(P, i) \in 1 .. Len(out) /\ out[Moved(P, i)] = s[i]
  /\ \A i, k \in 1 .. Len(s) : i < k => Moved(P, i) < Moved(P, k)
  /\ \A i \in 1 .. Len(s) : i + 1 <= Len(s)
       => Moved(P, i + 1) = Moved(P, i) + (IF i + 1 \in P THEN 2 ELSE 1)
  /\ \A i \in P : Moved(P, i) > 1 /\ out[Moved(P, i) - 1] = "gap"
  /\ \A j \in 1 .. Len(out) : out[j] # "gap" => \E i \in 1 .. Len(s) : Moved(P, i) = j

LEMMA PrefixSpreads ==
  ASSUME NEW s, IsRow(s), NEW P \in SUBSET DOMAIN s
  PROVE  Spreads(s, P, Prefix(s, P))
<1> DEFINE n == Len(s)
           c == Cardinality(P)
           out == Prefix(s, P)
           From(j) == {i \in 1 .. n : Moved(P, i) = j}
<1>1. n \in Nat /\ DOMAIN s = 1 .. n /\ \A i \in 1 .. n : s[i] \in Token
  BY DEF IsRow
<1>2. P \in SUBSET (1 .. n)
  BY <1>1
<1>3. c \in Nat /\ Rank(P, n) = c /\ Rank(P, 0) = 0
  BY <1>1, <1>2, RankStep
<1>4. \A i \in 0 .. n : Rank(P, i) \in Nat
  BY <1>1, <1>2, RankStep
<1>5. \A i \in 1 .. n : Rank(P, i) = Rank(P, i - 1) + (IF i \in P THEN 1 ELSE 0)
  BY <1>1, <1>2, RankStep
<1>6. \A i, j \in 0 .. n : i < j => Rank(P, i) <= Rank(P, j)
  BY <1>1, <1>2, RankClimbs
<1>7. /\ DOMAIN out = 1 .. (n + c)
      /\ \A j \in 1 .. (n + c) :
           out[j] = IF From(j) = {} THEN "gap" ELSE s[CHOOSE i \in From(j) : TRUE]
  BY <1>1 DEF Prefix
<1>8. \A i \in 1 .. n : Moved(P, i) \in 1 .. (n + c)
  <2> SUFFICES ASSUME NEW i \in 1 .. n PROVE Moved(P, i) \in 1 .. (n + c)
    OBVIOUS
  <2>1. i \in 0 .. n /\ n \in 0 .. n
    BY <1>1
  <2>2. Rank(P, i) \in Nat /\ (i < n => Rank(P, i) <= c)
    BY <1>3, <1>4, <1>6, <2>1
  <2> QED
    BY <1>1, <1>3, <2>1, <2>2 DEF Moved
<1>9. \A i, k \in 1 .. n : i < k => Moved(P, i) < Moved(P, k)
  <2> SUFFICES ASSUME NEW i \in 1 .. n, NEW k \in 1 .. n, i < k
               PROVE  Moved(P, i) < Moved(P, k)
    OBVIOUS
  <2>1. i \in 0 .. n /\ k \in 0 .. n
    BY <1>1
  <2>2. Rank(P, i) \in Nat /\ Rank(P, k) \in Nat /\ Rank(P, i) <= Rank(P, k)
    BY <1>4, <1>6, <2>1
  <2> QED
    BY <1>1, <2>2 DEF Moved
<1>10. \A i, k \in 1 .. n : Moved(P, i) = Moved(P, k) => i = k
  <2> SUFFICES ASSUME NEW i \in 1 .. n, NEW k \in 1 .. n, Moved(P, i) = Moved(P, k)
               PROVE  i = k
    OBVIOUS
  <2>1. Moved(P, i) \in Int /\ Moved(P, k) \in Int
    BY <1>8
  <2> QED
    BY <1>1, <1>9, <2>1
<1>11. \A j \in 1 .. (n + c) : From(j) # {} => \E i \in 1 .. n : Moved(P, i) = j /\ out[j] = s[i]
  <2> SUFFICES ASSUME NEW j \in 1 .. (n + c), From(j) # {}
               PROVE  \E i \in 1 .. n : Moved(P, i) = j /\ out[j] = s[i]
    OBVIOUS
  <2> DEFINE i == CHOOSE k \in From(j) : TRUE
  <2>1. i \in From(j)
    OBVIOUS
  <2>2. out[j] = s[i]
    BY <1>7
  <2>3. i \in 1 .. n /\ Moved(P, i) = j
    BY <2>1
  <2> HIDE DEF i
  <2> QED
    BY <2>2, <2>3
<1>12. \A i \in 1 .. n : out[Moved(P, i)] = s[i]
  <2> SUFFICES ASSUME NEW i \in 1 .. n PROVE out[Moved(P, i)] = s[i]
    OBVIOUS
  <2>1. i \in From(Moved(P, i)) /\ Moved(P, i) \in 1 .. (n + c)
    BY <1>8
  <2>2. PICK k \in 1 .. n : Moved(P, k) = Moved(P, i) /\ out[Moved(P, i)] = s[k]
    BY <1>11, <2>1
  <2> QED
    BY <1>10, <2>2
<1>13. \A j \in 1 .. (n + c) : From(j) = {} => out[j] = "gap"
  BY <1>7
<1>14. out \in Seq(Token) /\ Len(out) = n + c
  <2>1. \A j \in 1 .. (n + c) : out[j] \in Token
    <3> SUFFICES ASSUME NEW j \in 1 .. (n + c) PROVE out[j] \in Token
      OBVIOUS
    <3>1. CASE From(j) = {}
      BY <1>13, <3>1 DEF Token
    <3>2. CASE From(j) # {}
      <4>1. PICK i \in 1 .. n : Moved(P, i) = j /\ out[j] = s[i]
        BY <1>11, <3>2
      <4> QED
        BY <1>1, <4>1
    <3> QED
      BY <3>1, <3>2
  <2>2. out = [j \in 1 .. (n + c) |-> out[j]]
    BY <1>7 DEF Prefix
  <2>3. n + c \in Nat
    BY <1>1, <1>3
  <2> HIDE DEF out
  <2> QED
    BY <2>1, <2>2, <2>3
<1>15. \A i \in 1 .. n : i + 1 <= n
         => Moved(P, i + 1) = Moved(P, i) + (IF i + 1 \in P THEN 2 ELSE 1)
  <2> SUFFICES ASSUME NEW i \in 1 .. n, i + 1 <= n
               PROVE  Moved(P, i + 1) = Moved(P, i) + (IF i + 1 \in P THEN 2 ELSE 1)
    OBVIOUS
  <2>1. i + 1 \in 1 .. n /\ i \in 0 .. n /\ (i + 1) - 1 = i
    BY <1>1
  <2>2. Rank(P, i) \in Nat /\ Rank(P, i + 1) = Rank(P, i) + (IF i + 1 \in P THEN 1 ELSE 0)
    BY <1>4, <1>5, <2>1
  <2> QED
    BY <2>1, <2>2 DEF Moved
<1>16. \A i \in P : Moved(P, i) > 1 /\ out[Moved(P, i) - 1] = "gap"
  <2> SUFFICES ASSUME NEW i \in P PROVE Moved(P, i) > 1 /\ out[Moved(P, i) - 1] = "gap"
    OBVIOUS
  <2>1. i \in 1 .. n /\ i - 1 \in 0 .. n
    BY <1>1, <1>2
  <2>2. Rank(P, i - 1) \in Nat /\ Rank(P, i) = Rank(P, i - 1) + 1
    BY <1>4, <1>5, <2>1
  <2>3. Moved(P, i) = i + Rank(P, i - 1) + 1
    BY <2>1, <2>2 DEF Moved
  <2>4. Moved(P, i) > 1 /\ Moved(P, i) - 1 \in 1 .. (n + c)
    <3>1. Moved(P, i) > 1
      BY <2>1, <2>2, <2>3
    <3>2. Moved(P, i) \in 1 .. (n + c) /\ n + c \in Nat
      BY <1>1, <1>3, <1>8, <2>1
    <3> HIDE DEF c, n
    <3> QED
      BY <3>1, <3>2
  <2>5. ASSUME NEW k \in 1 .. n, Moved(P, k) = Moved(P, i) - 1 PROVE FALSE
    <3>1. Moved(P, k) \in Int /\ Moved(P, i) \in Int
      BY <1>8, <2>1
    <3>2. k < i
      BY <1>1, <1>9, <2>1, <2>5, <3>1
    <3>3. i - 1 \in 1 .. n /\ k <= i - 1 /\ k \in 0 .. n
      BY <2>1, <3>2
    <3>4. Rank(P, k) <= Rank(P, i - 1)
      <4>1. CASE k = i - 1
        BY <2>2, <4>1
      <4>2. CASE k # i - 1
        <5>1. k < i - 1
          BY <3>3, <4>2, <2>1
        <5> QED
          BY <1>6, <2>1, <3>3, <5>1
      <4> QED
        BY <4>1, <4>2
    <3>5. Rank(P, k) \in Nat /\ Moved(P, k) = k + Rank(P, k)
      BY <1>4, <3>3 DEF Moved
    <3> QED
      BY <2>1, <2>2, <2>3, <2>5, <3>3, <3>4, <3>5
  <2>6. From(Moved(P, i) - 1) = {}
    BY <2>5
  <2> QED
    BY <1>13, <2>4, <2>6
<1>17. \A j \in 1 .. (n + c) : out[j] # "gap" => \E i \in 1 .. n : Moved(P, i) = j
  BY <1>13
<1> HIDE DEF c, From
<1> QED
  BY <1>8, <1>9, <1>12, <1>14, <1>15, <1>16, <1>17 DEF Spreads, IsRow

\* The words that may be read in a text, and what their two parts are.
LEMMA Readings ==
  ASSUME NEW s, NEW i
  PROVE  /\ Reads(s, i, "key")    <=> s[i] = "key" \/ (i < Len(s) /\ s[i] = "ke" /\ s[i + 1] = "y")
         /\ Reads(s, i, "nonce")  <=> s[i] = "nonce" \/ (i < Len(s) /\ s[i] = "non" /\ s[i + 1] = "ce")
         /\ Reads(s, i, "envelope") <=>
              s[i] = "envelope" \/ (i < Len(s) /\ s[i] = "env" /\ s[i + 1] = "elope")
         /\ Reads(s, i, "begin")  <=> s[i] = "begin"
         /\ Reads(s, i, "marker") <=> s[i] = "marker"
<1>1. /\ DOMAIN Parts = {"key", "nonce", "envelope"}
      /\ Parts["key"][1] = "ke" /\ Parts["key"][2] = "y"
      /\ Parts["nonce"][1] = "non" /\ Parts["nonce"][2] = "ce"
      /\ Parts["envelope"][1] = "env" /\ Parts["envelope"][2] = "elope"
  BY DEF Parts
<1> QED
  BY <1>1 DEF Reads

Words == {"key", "begin", "nonce", "envelope", "marker"}

\* A word that is read after spreading was there before, and stands as it stood.
LEMMA WordsBack ==
  ASSUME NEW s, IsRow(s), NEW P \in SUBSET DOMAIN s, NEW out, Spreads(s, P, out),
         NEW j \in 1 .. Len(out), NEW word \in Words, Reads(out, j, word)
  PROVE  \E k \in 1 .. Len(s) :
           /\ Moved(P, k) = j /\ out[j] = s[k]
           /\ Reads(s, k, word)
           /\ s[k] # word => k + 1 <= Len(s) /\ Moved(P, k + 1) = j + 1 /\ k + 1 \notin P
<1>1. Len(s) \in Nat /\ Len(out) \in Nat
  BY DEF IsRow, Spreads
<1>2. out[j] # "gap"
  BY Readings DEF Words
<1>3. PICK k \in 1 .. Len(s) : Moved(P, k) = j
  BY <1>2 DEF Spreads
<1>4. out[j] = s[k]
  BY <1>3 DEF Spreads
<1>5. CASE s[k] = word
  <2>1. Reads(s, k, word)
    BY <1>5 DEF Reads
  <2> QED
    BY <1>3, <1>4, <1>5, <2>1
<1>6. CASE s[k] # word
  <2>1. j < Len(out) /\ out[j + 1] # "gap"
    BY <1>4, <1>6, Readings DEF Words
  <2>2. j + 1 \in 1 .. Len(out)
    BY <1>1, <2>1
  <2>3. PICK l \in 1 .. Len(s) : Moved(P, l) = j + 1
    BY <2>1, <2>2 DEF Spreads
  <2>4. k < l
    <3>1. l < k => Moved(P, l) < Moved(P, k)
      BY DEF Spreads
    <3> QED
      BY <1>1, <1>3, <2>3, <3>1
  <2>5. k + 1 \in 1 .. Len(s)
    BY <1>1, <2>4
  <2>6. Moved(P, k + 1) = j + (IF k + 1 \in P THEN 2 ELSE 1)
    BY <1>3, <2>5 DEF Spreads
  <2>7. k + 1 < l => Moved(P, k + 1) < j + 1
    BY <2>3, <2>5 DEF Spreads
  <2>8. l = k + 1 /\ k + 1 \notin P
    BY <1>1, <2>3, <2>4, <2>5, <2>6, <2>7
  <2>9. out[j + 1] = s[k + 1]
    BY <2>3, <2>8 DEF Spreads
  <2>10. Reads(s, k, word)
    <3>1. k < Len(s)
      BY <1>1, <2>5
    <3> QED
      BY <1>4, <1>6, <2>9, <3>1, Readings DEF Words
  <2> QED
    BY <1>1, <1>3, <1>4, <2>3, <2>5, <2>8, <2>10
<1> QED
  BY <1>5, <1>6

\* Nothing that ends a reserved word is separated from a letter after it.
Apart(s, P) ==
  \A k \in P : k > 1 /\ s[k] \in Letters => s[k - 1] \notin {"key", "begin", "y"}

\* A line that begins with a reserved word after spreading did so before.
LEMMA HeadersBack ==
  ASSUME NEW s, IsRow(s), NEW P \in SUBSET DOMAIN s, Apart(s, P),
         NEW out, Spreads(s, P, out), NEW j \in 1 .. Len(out), IsHeader(out, j)
  PROVE  \E k \in 1 .. Len(s) : Moved(P, k) = j /\ out[j] = s[k] /\ IsHeader(s, k)
<1>1. /\ Len(s) \in Nat /\ Len(out) \in Nat
      /\ DOMAIN s = 1 .. Len(s) /\ DOMAIN out = 1 .. Len(out)
  BY DEF IsRow, Spreads
<1>2. PICK word \in Reserved :
        /\ Reads(out, j, word)
        /\ After(out, j, word) \in DOMAIN out => out[After(out, j, word)] \notin Letters
  BY DEF IsHeader
<1>3. word \in Words /\ word \in {"key", "begin"}
  BY DEF Reserved, Words
<1>4. PICK k \in 1 .. Len(s) :
        /\ Moved(P, k) = j /\ out[j] = s[k]
        /\ Reads(s, k, word)
        /\ s[k] # word => k + 1 <= Len(s) /\ Moved(P, k + 1) = j + 1 /\ k + 1 \notin P
  BY <1>2, <1>3, WordsBack
<1>5. ASSUME NEW l \in 1 .. (k - 1), s[l] \in Letters \cup Mixed
      PROVE  \E m \in l .. (k - 1) : s[m] = "nl"
  <2>1. l \in 1 .. Len(s) /\ l < k
    BY <1>1
  <2>2. /\ Moved(P, l) \in 1 .. Len(out) /\ out[Moved(P, l)] = s[l]
        /\ Moved(P, l) < j
    BY <1>4, <2>1 DEF Spreads
  <2>3. Moved(P, l) \in 1 .. (j - 1)
    BY <1>1, <2>2
  <2>4. PICK x \in Moved(P, l) .. (j - 1) : out[x] = "nl"
    BY <1>5, <2>2, <2>3 DEF IsHeader
  <2>5. x \in 1 .. Len(out) /\ out[x] # "gap"
    BY <1>1, <2>2, <2>4
  <2>6. PICK m \in 1 .. Len(s) : Moved(P, m) = x
    BY <2>5 DEF Spreads
  <2>7. s[m] = "nl"
    BY <2>4, <2>6 DEF Spreads
  <2>8. (m < l => x < Moved(P, l)) /\ (k < m => j < x)
    BY <1>4, <2>1, <2>6 DEF Spreads
  <2>9. m # k
    BY <1>1, <1>4, <2>4, <2>6
  <2>10. l <= m /\ m <= k - 1
    BY <1>1, <2>1, <2>2, <2>4, <2>8, <2>9
  <2> QED
    BY <1>1, <2>7, <2>10
<1>6. ASSUME After(s, k, word) \in DOMAIN s PROVE s[After(s, k, word)] \notin Letters
  <2> DEFINE a == After(s, k, word)
  <2>1. SUFFICES ASSUME s[a] \in Letters PROVE FALSE
    OBVIOUS
  <2>2. a - 1 \in 1 .. Len(s) /\ a \in 1 .. Len(s) /\ a > 1
    BY <1>1, <1>6 DEF After
  <2>3. s[a - 1] \in {"key", "begin", "y"}
    <3>1. CASE s[k] = word
      BY <1>1, <1>3, <3>1 DEF After
    <3>2. CASE s[k] # word
      <4>1. a - 1 = k + 1
        BY <1>1, <3>2 DEF After
      <4>2. s[k + 1] = "y"
        BY <1>3, <1>4, <3>2, Readings
      <4> QED
        BY <4>1, <4>2
    <3> QED
      BY <3>1, <3>2
  <2>4. a \notin P
    BY <2>1, <2>2, <2>3 DEF Apart
  <2>5. Moved(P, a - 1) = After(out, j, word) - 1 /\ After(out, j, word) \in Int
    <3>1. CASE s[k] = word
      <4>1. a - 1 = k /\ After(out, j, word) = j + 1
        BY <1>1, <1>4, <3>1 DEF After
      <4> QED
        BY <1>1, <1>4, <4>1
    <3>2. CASE s[k] # word
      <4>1. a - 1 = k + 1 /\ After(out, j, word) = j + 2
        BY <1>1, <1>4, <3>2 DEF After
      <4> QED
        BY <1>1, <1>4, <3>2, <4>1
    <3> QED
      BY <3>1, <3>2
  <2>6. Moved(P, a) = After(out, j, word)
    <3>1. (a - 1) + 1 = a
      BY <2>2
    <3>2. Moved(P, a) = Moved(P, a - 1) + 1
      BY <2>2, <2>4, <3>1 DEF Spreads
    <3> QED
      BY <2>5, <3>2
  <2>7. After(out, j, word) \in DOMAIN out /\ out[After(out, j, word)] = s[a]
    BY <1>1, <2>2, <2>6 DEF Spreads
  <2> QED
    BY <1>2, <2>1, <2>7
<1>7. IsHeader(s, k)
  BY <1>2, <1>4, <1>5, <1>6 DEF IsHeader
<1> QED
  BY <1>4, <1>7

\* What the first two layers leave: visible tokens and line breaks only.
Stripped(s) == StripInvisibles(NormalizeNewlines(s))
Headers(s)  == {i \in DOMAIN s : IsHeader(s, i)}
Tokenized(s, word) == {i \in DOMAIN s : \E w \in word : Reads(s, i, w)}

LEMMA StrippedIsRow ==
  ASSUME NEW s \in Seq(Alphabet)
  PROVE  /\ Stripped(s) \in Seq(Alphabet) /\ IsRow(Stripped(s))
         /\ \A i \in 1 .. Len(Stripped(s)) : Stripped(s)[i] \notin {"gap", "inv", "sep"}
<1> DEFINE b == NormalizeNewlines(s)
           n == Len(s)
           P == {i \in DOMAIN b : b[i] \notin {"inv", "sep"}}
           c == Cardinality(P)
           t == Stripped(s)
<1>1. n \in Nat /\ DOMAIN s = 1 .. n /\ \A i \in 1 .. n : s[i] \in Alphabet
  OBVIOUS
<1>2. DOMAIN b = 1 .. n /\ \A i \in 1 .. n : b[i] \in Alphabet
  BY <1>1 DEF NormalizeNewlines, Alphabet
<1>3. P \in SUBSET (1 .. n) /\ t = Keep(b, P)
  BY <1>2 DEF Stripped, StripInvisibles
<1>4. /\ c \in Nat /\ DOMAIN t = 1 .. c
      /\ \A j \in 1 .. c : \E i \in P : t[j] = b[i]
  <2>1. Picks(b, P, t)
    BY <1>1, <1>3, KeepPicks
  <2> HIDE DEF P, b, t
  <2> QED
    BY <2>1 DEF Picks
<1>5. "gap" \notin Alphabet
  BY DEF Alphabet, Letters, Structural
<1>6. \A j \in 1 .. c : t[j] \in Alphabet /\ t[j] \notin {"gap", "inv", "sep"}
  BY <1>2, <1>4, <1>5
<1>7. t = [j \in 1 .. c |-> t[j]]
  BY <1>3, <1>4 DEF Keep
<1> HIDE DEF t, c, P, b
<1>8. t \in Seq(Alphabet) /\ Len(t) = c
  BY <1>4, <1>6, <1>7
<1>9. t \in Seq(Token)
  BY <1>4, <1>6, <1>7 DEF Token
<1> QED
  BY <1>6, <1>8, <1>9 DEF IsRow, t

\* The line begins with the word, so no letter stands just before it.
LEMMA HeadersAreApart == ASSUME NEW s, IsRow(s) PROVE Apart(s, Headers(s))
<1> SUFFICES ASSUME NEW k \in Headers(s), k > 1
             PROVE  s[k - 1] \notin {"key", "begin", "y"}
  BY DEF Apart
<1>1. Len(s) \in Nat /\ DOMAIN s = 1 .. Len(s)
  BY DEF IsRow
<1>2. k \in 1 .. Len(s) /\ IsHeader(s, k) /\ k - 1 \in 1 .. (k - 1)
  BY <1>1 DEF Headers
<1>3. s[k - 1] \in Letters \cup Mixed => \E m \in (k - 1) .. (k - 1) : s[m] = "nl"
  BY <1>2 DEF IsHeader
<1>4. s[k - 1] \in {"key", "begin", "y"} => s[k - 1] = "nl"
  BY <1>2, <1>3 DEF Letters, Mixed
<1> QED
  BY <1>4

\* Structural tokens are no letters.
LEMMA StructuresAreApart ==
  ASSUME NEW s PROVE Apart(s, Tokenized(s, Structural))
BY Readings DEF Apart, Tokenized, Structural, Letters

\* After the three layers a line begins with a reserved word behind two spaces only.
LEMMA SanitizedIs ==
  ASSUME NEW s \in Seq(Alphabet)
  PROVE  /\ Spreads(Stripped(s), Headers(Stripped(s)), Sanitize(s))
         /\ IsRow(Sanitize(s))
         /\ \A j \in 1 .. Len(Sanitize(s)) :
               IsHeader(Sanitize(s), j) => j > 1 /\ Sanitize(s)[j - 1] = "gap"
<1> DEFINE t == Stripped(s)
           out == Sanitize(s)
<1>1. IsRow(t) /\ Headers(t) \in SUBSET DOMAIN t /\ out = Prefix(t, Headers(t))
  BY StrippedIsRow DEF Sanitize, NeutralizeHeaders, Headers, Stripped
<1> HIDE DEF t, out
<1>2. Spreads(t, Headers(t), out)
  BY <1>1, PrefixSpreads
<1>3. Apart(t, Headers(t))
  BY <1>1, HeadersAreApart
<1>4. ASSUME NEW j \in 1 .. Len(out), IsHeader(out, j)
      PROVE  j > 1 /\ out[j - 1] = "gap"
  <2>1. PICK k \in 1 .. Len(t) : Moved(Headers(t), k) = j /\ IsHeader(t, k)
    BY <1>1, <1>2, <1>3, <1>4, HeadersBack
  <2>2. k \in Headers(t)
    BY <1>1, <2>1 DEF Headers, IsRow
  <2> QED
    BY <1>2, <2>1, <2>2 DEF Spreads
<1> QED
  BY <1>2, <1>4 DEF Spreads, t, out

\* The same of an error after its four layers, structural tokens included.
LEMMA FencedIs ==
  ASSUME NEW s \in Seq(Alphabet)
  PROVE  /\ IsRow(SanitizeError(s))
         /\ \A j \in 1 .. Len(SanitizeError(s)) :
              IsHeader(SanitizeError(s), j) \/ j \in Tokenized(SanitizeError(s), Structural)
                => j > 1 /\ SanitizeError(s)[j - 1] = "gap"
<1> DEFINE out == Sanitize(s)
           F == Tokenized(out, Structural)
           fed == SanitizeError(s)
<1>1. IsRow(out)
  BY SanitizedIs
<1>2. \A j \in 1 .. Len(out) : IsHeader(out, j) => j > 1 /\ out[j - 1] = "gap"
  BY SanitizedIs
<1>3. F \in SUBSET DOMAIN out /\ fed = Prefix(out, F)
  BY DEF SanitizeError, Fenced, Tokenized
<1> HIDE DEF out, fed
<1>4. Spreads(out, F, fed) /\ Apart(out, F)
  BY <1>1, <1>3, PrefixSpreads, StructuresAreApart
<1>5. Len(out) \in Nat /\ DOMAIN out = 1 .. Len(out) /\ Len(fed) \in Nat
  BY <1>1, <1>4 DEF IsRow, Spreads
<1> HIDE DEF F
<1>6. ASSUME NEW j \in 1 .. Len(fed), IsHeader(fed, j)
      PROVE  j > 1 /\ fed[j - 1] = "gap"
  <2>1. PICK k \in 1 .. Len(out) : Moved(F, k) = j /\ IsHeader(out, k)
    BY <1>1, <1>3, <1>4, <1>6, HeadersBack
  <2>2. CASE k \in F
    BY <1>4, <2>1, <2>2 DEF Spreads
  <2>3. CASE k \notin F
    <3>1. k > 1 /\ out[k - 1] = "gap"
      BY <1>2, <2>1
    <3>2. k - 1 \in 1 .. Len(out) /\ (k - 1) + 1 = k
      BY <1>5, <3>1
    <3>3. Moved(F, k) = Moved(F, k - 1) + 1 /\ fed[Moved(F, k - 1)] = out[k - 1]
      BY <1>4, <2>3, <3>2 DEF Spreads
    <3>4. Moved(F, k - 1) \in 1 .. Len(fed)
      BY <1>4, <3>2 DEF Spreads
    <3> QED
      BY <1>5, <2>1, <3>1, <3>3, <3>4
  <2> QED
    BY <2>2, <2>3
<1>7. ASSUME NEW j \in 1 .. Len(fed), j \in Tokenized(fed, Structural)
      PROVE  j > 1 /\ fed[j - 1] = "gap"
  <2>1. PICK word \in Structural : Reads(fed, j, word)
    BY <1>7 DEF Tokenized
  <2>2. word \in Words
    BY DEF Structural, Words
  <2>3. PICK k \in 1 .. Len(out) : Moved(F, k) = j /\ Reads(out, k, word)
    BY <1>1, <1>3, <1>4, <2>1, <2>2, WordsBack
  <2>4. k \in F
    BY <1>5, <2>3 DEF F, Tokenized
  <2> QED
    BY <1>4, <2>3, <2>4 DEF Spreads
<1> QED
  BY <1>4, <1>6, <1>7 DEF Spreads, fed

\* A cut keeps what it keeps: the feedback begins as the sanitized error does.
LEMMA FeedbackIs ==
  ASSUME NEW s \in Seq(Alphabet)
  PROVE  LET u   == SanitizeError(s)
             fed == Feedback(s)
         IN  \/ fed = u /\ Len(u) <= MaxError
             \/ /\ Len(u) > MaxError /\ Len(fed) = MaxError + 1
                /\ DOMAIN fed = 1 .. (MaxError + 1)
                /\ fed[MaxError + 1] = "truncated"
                /\ \A i \in 1 .. MaxError : fed[i] = u[i]
<1> DEFINE u == SanitizeError(s)
<1>1. u \in Seq(Token) /\ Len(u) \in Nat /\ MaxError \in Nat
  BY FencedIs, UserPromptAssumption DEF IsRow
<1> HIDE DEF u
<1>2. CASE Len(u) <= MaxError
  BY <1>2 DEF Feedback, Truncate, u
<1>3. CASE ~(Len(u) <= MaxError)
  <2> DEFINE cut == SubSeq(u, 1, MaxError)
  <2>1. /\ cut \in Seq(Token) /\ Len(cut) = MaxError
        /\ \A i \in 1 .. MaxError : cut[i] = u[i]
    BY <1>1, <1>3
  <2>2. Feedback(s) = cut \o <<"truncated">>
    BY <1>3 DEF Feedback, Truncate, u
  <2> HIDE DEF cut
  <2> DEFINE fed == cut \o <<"truncated">>
  <2>3. /\ Len(fed) = MaxError + 1 /\ DOMAIN fed = 1 .. (MaxError + 1)
        /\ fed[MaxError + 1] = "truncated" /\ \A i \in 1 .. MaxError : fed[i] = cut[i]
    BY <1>1, <2>1
  <2> QED
    BY <1>1, <1>3, <2>1, <2>2, <2>3 DEF u
<1> QED
  BY <1>2, <1>3 DEF u

\* g lists the n elements of V in order.
Lists(g, n, V) ==
  /\ \A i \in 1 .. n : g[i] \in Nat
  /\ \A i, k \in 1 .. n : i < k => g[i] < g[k]
  /\ \A v : v \in V <=> \E i \in 1 .. n : v = g[i]

\* A set listed in order has each element at the rank of its place in the list.
LEMMA ListedInOrder ==
  ASSUME NEW n \in Nat, NEW g, NEW V, Lists(g, n, V)
  PROVE  Cardinality(V) = n /\ \A i \in 1 .. n : Rank(V, g[i]) = i
<1>0. /\ \A i \in 1 .. n : g[i] \in Nat
      /\ \A i, k \in 1 .. n : i < k => g[i] < g[k]
      /\ \A v : v \in V <=> \E i \in 1 .. n : v = g[i]
  BY DEF Lists
<1>1. ASSUME NEW m \in 0 .. n, NEW W, \A v : v \in W <=> \E i \in 1 .. m : v = g[i]
      PROVE  Cardinality(W) = m
  <2> DEFINE f == [i \in 1 .. m |-> g[i]]
  <2>1. m \in Nat /\ \A i \in 1 .. m : i \in 1 .. n
    OBVIOUS
  <2>2. f \in [1 .. m -> W] /\ \A i \in 1 .. m : f[i] = g[i]
    BY <1>1
  <2>3. \A i, k \in 1 .. m : g[i] = g[k] => i = k
    <3> SUFFICES ASSUME NEW i \in 1 .. m, NEW k \in 1 .. m, g[i] = g[k] PROVE i = k
      OBVIOUS
    <3>1. i \in 1 .. n /\ k \in 1 .. n /\ g[i] \in Nat /\ g[k] \in Nat
      BY <1>0, <2>1
    <3>2. ~(i < k) /\ ~(k < i)
      BY <1>0, <3>1
    <3> QED
      BY <3>2
  <2> HIDE DEF f
  <2>4. f \in Injection(1 .. m, W)
    BY <2>2, <2>3 DEF Injection, IsInjective
  <2>5. f \in Surjection(1 .. m, W)
    BY <1>1, <2>2 DEF Surjection
  <2>6. ExistsBijection(1 .. m, W)
    BY <2>4, <2>5 DEF ExistsBijection, Bijection
  <2> QED
    BY <2>1, <2>6, FS_CountingElements
<1>2. Cardinality(V) = n
  BY <1>0, <1>1
<1>3. ASSUME NEW i \in 1 .. n PROVE Rank(V, g[i]) = i
  <2> DEFINE W == {k \in V : k <= g[i]}
  <2>1. ASSUME NEW v PROVE v \in W <=> \E k \in 1 .. i : v = g[k]
    <3>1. ASSUME NEW k \in 1 .. n PROVE g[k] <= g[i] <=> k \in 1 .. i
      <4>1. g[k] \in Nat /\ g[i] \in Nat /\ (k < i => g[k] < g[i]) /\ (i < k => g[i] < g[k])
        BY <1>0
      <4>2. k < i \/ k = i \/ i < k
        OBVIOUS
      <4> QED
        BY <4>1, <4>2
    <3>2. \A k \in 1 .. i : k \in 1 .. n
      OBVIOUS
    <3> QED
      BY <1>0, <3>1, <3>2
  <2>2. i \in 0 .. n
    OBVIOUS
  <2> HIDE DEF W
  <2>3. Cardinality(W) = i
    BY <1>1, <2>1, <2>2
  <2> QED
    BY <2>3 DEF Rank, W
<1> QED
  BY <1>2, <1>3

\* What is visible of a text after spreading is the text, if all of it was visible.
LEMMA VisibleBack ==
  ASSUME NEW s, IsRow(s), \A i \in 1 .. Len(s) : s[i] \notin {"gap", "inv"},
         NEW P \in SUBSET DOMAIN s, NEW out, Spreads(s, P, out)
  PROVE  Visible(out) = s
<1> DEFINE n == Len(s)
           V == {j \in DOMAIN out : out[j] \notin {"gap", "inv"}}
           g == [i \in 1 .. n |-> Moved(P, i)]
           kept == Visible(out)
<1>1. n \in Nat /\ DOMAIN s = 1 .. n /\ Len(out) \in Nat /\ DOMAIN out = 1 .. Len(out)
  BY DEF IsRow, Spreads
<1>2. /\ \A i \in 1 .. n : g[i] \in 1 .. Len(out) /\ out[g[i]] = s[i]
      /\ \A i, k \in 1 .. n : i < k => g[i] < g[k]
      /\ \A j \in 1 .. Len(out) : out[j] # "gap" => \E i \in 1 .. n : g[i] = j
  BY DEF Spreads
<1> HIDE DEF g
<1>3. \A v : v \in V <=> \E i \in 1 .. n : v = g[i]
  <2>1. \A i \in 1 .. n : g[i] \in V
    BY <1>1, <1>2
  <2>2. \A v \in V : \E i \in 1 .. n : v = g[i]
    BY <1>1, <1>2
  <2> QED
    BY <2>1, <2>2
<1>4. V \in SUBSET (1 .. Len(out)) /\ kept = Keep(out, V)
  BY <1>1 DEF Visible
<1> HIDE DEF V, kept
<1>5. Cardinality(V) = n /\ \A i \in 1 .. n : Rank(V, g[i]) = i
  <2>1. \A i \in 1 .. n : g[i] \in Nat
    BY <1>1, <1>2
  <2>2. Lists(g, n, V)
    BY <1>2, <1>3, <2>1 DEF Lists
  <2> QED
    BY <1>1, <2>2, ListedInOrder
<1>6. Picks(out, V, kept)
  BY <1>1, <1>4, KeepPicks
<1>7. DOMAIN kept = 1 .. n /\ \A i \in 1 .. n : kept[i] = s[i]
  <2>1. \A i \in 1 .. n : g[i] \in V
    BY <1>3
  <2> QED
    BY <1>2, <1>5, <1>6, <2>1 DEF Picks
<1>8. kept = [i \in 1 .. n |-> kept[i]]
  BY <1>4, <1>5 DEF Keep
<1>9. s = [i \in 1 .. n |-> s[i]]
  BY <1>1 DEF IsRow
<1>10. kept = s
  BY <1>7, <1>8, <1>9
<1> QED
  BY <1>10 DEF kept

\* What is visible of a text before the layers is what the first two leave.
LEMMA VisibleIsStripped ==
  ASSUME NEW s \in Seq(Alphabet)
  PROVE  Visible(NormalizeNewlines(s)) = Stripped(s)
<1> DEFINE b == NormalizeNewlines(s)
<1>1. \A i \in DOMAIN b : b[i] \notin {"gap", "sep"}
  BY DEF NormalizeNewlines, Alphabet, Letters, Structural
<1>2. {i \in DOMAIN b : b[i] \notin {"gap", "inv"}} = {i \in DOMAIN b : b[i] \notin {"inv", "sep"}}
  BY <1>1
<1> QED
  BY <1>2 DEF Visible, Stripped, StripInvisibles

\* The prompt is what was sanitized between six tokens and three.
Frames(out, prompt) ==
  /\ Len(prompt) = Len(out) + 9 /\ DOMAIN prompt = 1 .. (Len(out) + 9)
  /\ prompt[1] = "key" /\ prompt[2] = "word" /\ prompt[3] = "nl"
  /\ prompt[4] = "begin" /\ prompt[5] = "nonce" /\ prompt[6] = "nl"
  /\ \A i \in 1 .. Len(out) : prompt[i + 6] = out[i]
  /\ prompt[Len(out) + 7] = "nl" /\ prompt[Len(out) + 8] = "begin"
  /\ prompt[Len(out) + 9] = "nonce"
  /\ SubSeq(prompt, 7, Len(prompt) - 3) = out

\* `both` is a and then b.
Joins(a, b, both) ==
  /\ both \in Seq(Token) /\ Len(both) = Len(a) + Len(b)
  /\ \A i \in 1 .. Len(a) : both[i] = a[i]
  /\ \A i \in 1 .. Len(b) : both[Len(a) + i] = b[i]

LEMMA Concatenates ==
  ASSUME NEW a \in Seq(Token), NEW b \in Seq(Token)
  PROVE  Joins(a, b, a \o b)
<1> DEFINE both == a \o b
<1>1. Len(a) \in Nat /\ Len(b) \in Nat
  OBVIOUS
<1>2. /\ both \in Seq(Token) /\ Len(both) = Len(a) + Len(b)
      /\ \A i \in 1 .. Len(a) + Len(b) :
            both[i] = IF i <= Len(a) THEN a[i] ELSE b[i - Len(a)]
  BY ConcatProperties, Zenon
<1> HIDE DEF both
<1>3. \A i \in 1 .. Len(a) : i \in 1 .. Len(a) + Len(b) /\ i <= Len(a)
  BY <1>1
<1>4. \A i \in 1 .. Len(b) :
        /\ Len(a) + i \in 1 .. Len(a) + Len(b) /\ ~(Len(a) + i <= Len(a))
        /\ (Len(a) + i) - Len(a) = i
  BY <1>1
<1> QED
  BY <1>2, <1>3, <1>4 DEF Joins, both

LEMMA FramingIs ==
  ASSUME NEW out, IsRow(out)
  PROVE  Frames(out, <<"key", "word", "nl", "begin", "nonce", "nl">> \o out
                       \o <<"nl", "begin", "nonce">>)
<1> DEFINE top    == <<"key", "word", "nl", "begin", "nonce", "nl">>
           bottom == <<"nl", "begin", "nonce">>
           prompt == (top \o out) \o bottom
<1>1. /\ out \in Seq(Token) /\ Len(out) \in Nat /\ DOMAIN out = 1 .. Len(out)
      /\ \A i \in 1 .. Len(out) : out[i] \in Token
  BY DEF IsRow
<1>2. /\ "key" \in Token /\ "word" \in Token /\ "nl" \in Token
      /\ "begin" \in Token /\ "nonce" \in Token
  BY DEF Token, Alphabet, Letters, Structural
<1>3. /\ top \in Seq(Token) /\ Len(top) = 6
      /\ top[1] = "key" /\ top[2] = "word" /\ top[3] = "nl"
      /\ top[4] = "begin" /\ top[5] = "nonce" /\ top[6] = "nl"
  BY <1>2
<1>4. /\ bottom \in Seq(Token) /\ Len(bottom) = 3
      /\ bottom[1] = "nl" /\ bottom[2] = "begin" /\ bottom[3] = "nonce"
  BY <1>2
<1> HIDE DEF top, bottom
<1>5. Joins(top, out, top \o out)
  BY <1>1, <1>3, Concatenates
<1> DEFINE upper == top \o out
<1>6. /\ upper \in Seq(Token) /\ Len(upper) = Len(out) + 6
      /\ \A i \in 1 .. 6 : upper[i] = top[i]
      /\ \A i \in 1 .. Len(out) : upper[i + 6] = out[i]
  <2> HIDE DEF upper
  <2>1. Joins(top, out, upper)
    BY <1>5 DEF upper
  <2> QED
    BY <1>1, <1>3, <2>1 DEF Joins
<1>7. /\ prompt \in Seq(Token) /\ Len(prompt) = Len(out) + 9
      /\ \A i \in 1 .. (Len(out) + 6) : prompt[i] = upper[i]
      /\ \A i \in 1 .. 3 : prompt[Len(out) + 6 + i] = bottom[i]
  <2> HIDE DEF upper
  <2>1. Joins(upper, bottom, upper \o bottom)
    BY <1>4, <1>6, Concatenates
  <2>2. prompt = upper \o bottom
    BY DEF upper
  <2> HIDE DEF prompt
  <2>3. Joins(upper, bottom, prompt)
    BY <2>1, <2>2
  <2> QED
    BY <1>1, <1>4, <1>6, <2>3 DEF Joins
<1> HIDE DEF prompt, upper
<1>8. /\ DOMAIN prompt = 1 .. (Len(out) + 9)
      /\ \A i \in 1 .. 6 : prompt[i] = top[i]
      /\ \A i \in 1 .. Len(out) : prompt[i + 6] = out[i]
  <2>1. DOMAIN prompt = 1 .. Len(prompt)
    BY <1>7
  <2>2. \A i \in 1 .. 6 : i \in 1 .. (Len(out) + 6)
    BY <1>1
  <2>3. \A i \in 1 .. Len(out) : i + 6 \in 1 .. (Len(out) + 6)
    BY <1>1
  <2> QED
    BY <1>6, <1>7, <2>1, <2>2, <2>3
<1>9. SubSeq(prompt, 7, Len(prompt) - 3) = out
  <2> DEFINE part == SubSeq(prompt, 7, Len(prompt) - 3)
  <2>1. /\ Len(prompt) - 3 = Len(out) + 6 /\ Len(prompt) \in Nat
        /\ \A i \in 7 .. (Len(prompt) - 3) : prompt[i] \in Token
    BY <1>1, <1>7
  <2>2. /\ part \in Seq(Token) /\ Len(part) = Len(out)
        /\ \A i \in 1 .. Len(out) : part[i] = prompt[i + 6]
    BY <1>1, <1>7, <2>1
  <2> HIDE DEF part
  <2>3. part = out
    BY <1>1, <1>8, <2>2, SeqEqual
  <2> QED
    BY <2>3 DEF part
<1>10. /\ prompt[Len(out) + 7] = "nl" /\ prompt[Len(out) + 8] = "begin"
       /\ prompt[Len(out) + 9] = "nonce"
  BY <1>1, <1>4, <1>7
<1>11. /\ prompt[1] = "key" /\ prompt[2] = "word" /\ prompt[3] = "nl"
       /\ prompt[4] = "begin" /\ prompt[5] = "nonce" /\ prompt[6] = "nl"
  BY <1>3, <1>8
<1> QED
  BY <1>7, <1>8, <1>9, <1>10, <1>11 DEF Frames, prompt, top, bottom

\* Inside the prompt a word is read where it was read in what was sanitized.
LEMMA ReadsInside ==
  ASSUME NEW out, IsRow(out), NEW prompt, Frames(out, prompt),
         NEW j \in 1 .. Len(out), NEW word \in Words, Reads(prompt, j + 6, word)
  PROVE  Reads(out, j, word)
<1>1. Len(out) \in Nat /\ prompt[j + 6] = out[j]
  BY DEF IsRow, Frames
<1>2. CASE out[j] = word
  BY <1>2 DEF Reads
<1>3. CASE out[j] # word
  <2>1. prompt[(j + 6) + 1] \in {"y", "ce", "elope"}
    BY <1>1, <1>3, Readings DEF Words
  <2>2. j + 1 <= Len(out)
    <3>1. (j + 6) + 1 = Len(out) + 7 => prompt[(j + 6) + 1] = "nl"
      BY DEF Frames
    <3> QED
      BY <1>1, <2>1, <3>1
  <2>3. j < Len(out) /\ prompt[(j + 6) + 1] = out[j + 1]
    <3>1. j + 1 \in 1 .. Len(out) /\ (j + 1) + 6 = (j + 6) + 1
      BY <1>1, <2>2
    <3> QED
      BY <1>1, <3>1 DEF Frames
  <2> QED
    BY <1>1, <1>3, <2>3, Readings DEF Words
<1> QED
  BY <1>2, <1>3

\* And a line that begins with a reserved word does so before framing.
LEMMA HeadersInside ==
  ASSUME NEW out, IsRow(out), NEW prompt, Frames(out, prompt),
         NEW j \in 1 .. Len(out), IsHeader(prompt, j + 6)
  PROVE  IsHeader(out, j)
<1>1. /\ Len(out) \in Nat /\ DOMAIN out = 1 .. Len(out)
      /\ \A i \in 1 .. Len(out) : prompt[i + 6] = out[i]
  BY DEF IsRow, Frames
<1>2. PICK word \in Reserved :
        /\ Reads(prompt, j + 6, word)
        /\ After(prompt, j + 6, word) \in DOMAIN prompt
             => prompt[After(prompt, j + 6, word)] \notin Letters
  BY DEF IsHeader
<1>3. Reads(out, j, word)
  <2>1. word \in Words
    BY DEF Reserved, Words
  <2> QED
    BY <1>2, <2>1, ReadsInside
<1>4. ASSUME NEW l \in 1 .. (j - 1), out[l] \in Letters \cup Mixed
      PROVE  \E m \in l .. (j - 1) : out[m] = "nl"
  <2>1. l \in 1 .. Len(out) /\ l + 6 \in 1 .. ((j + 6) - 1)
    BY <1>1
  <2>2. prompt[l + 6] \in Letters \cup Mixed
    BY <1>1, <1>4, <2>1
  <2>3. PICK x \in (l + 6) .. ((j + 6) - 1) : prompt[x] = "nl"
    BY <2>1, <2>2 DEF IsHeader
  <2>4. x - 6 \in l .. (j - 1) /\ x - 6 \in 1 .. Len(out) /\ (x - 6) + 6 = x
    BY <1>1, <2>1
  <2>5. out[x - 6] = "nl"
    BY <1>1, <2>3, <2>4
  <2> QED
    BY <2>4, <2>5
<1>5. ASSUME After(out, j, word) \in DOMAIN out PROVE out[After(out, j, word)] \notin Letters
  <2>1. After(prompt, j + 6, word) = After(out, j, word) + 6
    BY <1>1 DEF After
  <2>2. After(out, j, word) + 6 \in DOMAIN prompt
    BY <1>1, <1>5 DEF Frames
  <2> QED
    BY <1>1, <1>2, <1>5, <2>1, <2>2
<1> QED
  BY <1>3, <1>4, <1>5 DEF IsHeader

\* What is sent for any material is framed, whole and unambiguous.
LEMMA PromptFrames ==
  ASSUME NEW s \in Seq(Alphabet), ~Collides(s), s = content
  PROVE  LET prompt == BuildUserPrompt(s)
         IN  NoForeignHeader(prompt) /\ DelimitersAreUnique(prompt) /\ ContentIsKept(prompt)
<1> DEFINE out == Sanitize(s)
           prompt == BuildUserPrompt(s)
<1>1. /\ IsRow(out) /\ Spreads(Stripped(s), Headers(Stripped(s)), out)
      /\ \A j \in 1 .. Len(out) : IsHeader(out, j) => j > 1 /\ out[j - 1] = "gap"
  BY SanitizedIs
<1>2. ~Holds(out, "nonce")
  BY DEF Collides
<1>3. prompt = <<"key", "word", "nl", "begin", "nonce", "nl">> \o out \o <<"nl", "begin", "nonce">>
  BY DEF BuildUserPrompt
<1> HIDE DEF out, prompt
<1>4. Frames(out, prompt)
  BY <1>1, <1>3, FramingIs
<1>5. Len(out) \in Nat /\ DOMAIN out = 1 .. Len(out)
  BY <1>1 DEF IsRow
<1>6. Len(prompt) = Len(out) + 9 /\ DOMAIN prompt = 1 .. (Len(out) + 9)
  BY <1>4 DEF Frames
<1>7. NoForeignHeader(prompt)
  <2> SUFFICES ASSUME NEW i \in Inside(prompt), IsHeader(prompt, i) PROVE prompt[i - 1] = "gap"
    BY DEF NoForeignHeader
  <2>1. i - 6 \in 1 .. Len(out) /\ (i - 6) + 6 = i
    BY <1>5, <1>6 DEF Inside
  <2>2. IsHeader(out, i - 6)
    BY <1>1, <1>4, <2>1, HeadersInside
  <2>3. i - 6 > 1 /\ out[(i - 6) - 1] = "gap"
    BY <1>1, <2>1, <2>2
  <2>4. (i - 6) - 1 \in 1 .. Len(out) /\ ((i - 6) - 1) + 6 = i - 1
    BY <1>5, <2>1, <2>3
  <2> QED
    BY <1>4, <2>3, <2>4 DEF Frames
<1>8. DelimitersAreUnique(prompt)
  <2> DEFINE D == {i \in DOMAIN prompt : Reads(prompt, i, "nonce")}
             e == Len(out) + 9
  <2>1. 5 \in D /\ e \in D
    BY <1>4, <1>5, <1>6, Readings DEF Frames
  <2>2. ASSUME NEW i \in D PROVE i = 5 \/ i = e
    <3>1. i \in 1 .. e /\ Reads(prompt, i, "nonce")
      BY <1>6
    <3>2. prompt[i] \in {"nonce", "non"}
      BY <3>1, Readings
    <3>3. ASSUME i \in 7 .. (Len(out) + 6) PROVE FALSE
      <4>1. i - 6 \in 1 .. Len(out) /\ (i - 6) + 6 = i
        BY <1>5, <3>3
      <4>2. Reads(out, i - 6, "nonce")
        BY <1>1, <1>4, <3>1, <4>1, ReadsInside DEF Words
      <4> QED
        BY <1>2, <1>5, <4>1, <4>2 DEF Holds
    <3>4. i \notin {1, 2, 3, 4, 6, Len(out) + 7, Len(out) + 8}
      BY <1>4, <3>2 DEF Frames
    <3> QED
      BY <1>5, <3>1, <3>3, <3>4
  <2>3. D = {5, e} /\ 5 # e
    <3>1. 5 # e
      BY <1>5
    <3> HIDE DEF D, e
    <3> QED
      BY <2>1, <2>2, <3>1
  <2>4. Cardinality({5, e}) = 2
    <3> HIDE DEF e
    <3>0. e \notin {5} /\ 1 + 1 = 2
      BY <2>3
    <3>1. IsFiniteSet({5}) /\ Cardinality({5}) = 1
      BY FS_Singleton
    <3>2. Cardinality({5} \cup {e}) = Cardinality({5}) + 1
      BY <3>0, <3>1, FS_AddElement
    <3>3. {5} \cup {e} = {5, e}
      OBVIOUS
    <3> QED
      BY <3>0, <3>1, <3>2, <3>3
  <2> QED
    BY <2>3, <2>4 DEF DelimitersAreUnique
<1>9. ContentIsKept(prompt)
  <2>1. SubSeq(prompt, 7, Len(prompt) - 3) = out
    BY <1>4 DEF Frames
  <2>2. Visible(out) = Stripped(s)
    <3> DEFINE t == Stripped(s)
    <3>1. IsRow(t) /\ \A i \in 1 .. Len(t) : t[i] \notin {"gap", "inv"}
      BY StrippedIsRow
    <3>2. Headers(t) \in SUBSET DOMAIN t
      BY DEF Headers
    <3> HIDE DEF t
    <3>3. Spreads(t, Headers(t), out)
      BY <1>1 DEF t
    <3>4. Visible(out) = t
      BY <3>1, <3>2, <3>3, VisibleBack
    <3> QED
      BY <3>4 DEF t
  <2>3. Visible(NormalizeNewlines(s)) = Stripped(s)
    BY VisibleIsStripped
  <2> QED
    BY <2>1, <2>2, <2>3 DEF ContentIsKept
<1> QED
  BY <1>7, <1>8, <1>9 DEF prompt

\* The feedback of a retry is inert up to the word that the cut touches.
LEMMA FeedbackHolds ==
  ASSUME NEW s \in Seq(Alphabet), s = content
  PROVE  FeedbackIsInert
<1> DEFINE u   == SanitizeError(s)
           fed == Feedback(s)
<1>1. /\ IsRow(u)
      /\ \A j \in 1 .. Len(u) : IsHeader(u, j) \/ j \in Tokenized(u, Structural)
                                  => j > 1 /\ u[j - 1] = "gap"
  BY FencedIs
<1>2. \/ fed = u /\ Len(u) <= MaxError
      \/ /\ Len(u) > MaxError /\ Len(fed) = MaxError + 1
         /\ DOMAIN fed = 1 .. (MaxError + 1)
         /\ fed[MaxError + 1] = "truncated"
         /\ \A i \in 1 .. MaxError : fed[i] = u[i]
  BY FeedbackIs
<1> HIDE DEF u, fed
<1>3. MaxError \in Nat /\ Len(u) \in Nat /\ DOMAIN u = 1 .. Len(u)
  BY <1>1, UserPromptAssumption DEF IsRow
<1>4. CASE fed = u /\ Len(u) <= MaxError
  <2>1. ASSUME NEW i \in DOMAIN fed,
               IsHeader(fed, i) \/ \E word \in Structural : Reads(fed, i, word)
        PROVE  i > 1 /\ fed[i - 1] = "gap"
    BY <1>1, <1>3, <1>4, <2>1 DEF Tokenized
  <2>2. Len(fed) <= MaxError + 1
    BY <1>3, <1>4
  <2> QED
    BY <2>1, <2>2 DEF FeedbackIsInert, fed
<1>5. CASE /\ Len(u) > MaxError /\ Len(fed) = MaxError + 1
           /\ DOMAIN fed = 1 .. (MaxError + 1)
           /\ fed[MaxError + 1] = "truncated"
           /\ \A i \in 1 .. MaxError : fed[i] = u[i]
  <2>1. ASSUME NEW i \in 1 .. (MaxError + 1), NEW word \in Words, Reads(fed, i, word)
        PROVE  /\ i \in 1 .. MaxError /\ Reads(u, i, word)
               /\ After(fed, i, word) = After(u, i, word)
               /\ After(fed, i, word) \in 1 .. (MaxError + 1)
    <3>1. i \in 1 .. MaxError
      BY <1>3, <1>5, <2>1, Readings DEF Words
    <3>2. fed[i] = u[i]
      BY <1>5, <3>1
    <3>3. CASE fed[i] = word
      <4>1. Reads(u, i, word) /\ After(fed, i, word) = i + 1 /\ After(u, i, word) = i + 1
        BY <3>2, <3>3 DEF Reads, After
      <4> QED
        BY <1>3, <3>1, <4>1
    <3>4. CASE fed[i] # word
      <4>1. fed[i + 1] \in {"y", "ce", "elope"} /\ i + 1 \in 1 .. (MaxError + 1)
        BY <1>3, <1>5, <2>1, <3>1, <3>4, Readings DEF Words
      <4>2. i + 1 \in 1 .. MaxError
        BY <1>3, <1>5, <4>1
      <4>3. fed[i + 1] = u[i + 1] /\ i < Len(u)
        BY <1>3, <1>5, <4>2
      <4>4. Reads(u, i, word)
        BY <2>1, <3>2, <3>4, <4>3, Readings DEF Words
      <4>5. After(fed, i, word) = i + 2 /\ After(u, i, word) = i + 2
        BY <3>2, <3>4 DEF After
      <4> QED
        BY <1>3, <3>1, <4>2, <4>4, <4>5
    <3> QED
      BY <3>3, <3>4
  <2>2. ASSUME NEW i \in DOMAIN fed, ~ReachesCut(fed, i), IsHeader(fed, i)
        PROVE  i > 1 /\ fed[i - 1] = "gap"
    <3>1. PICK word \in Reserved :
            /\ Reads(fed, i, word)
            /\ After(fed, i, word) \in DOMAIN fed => fed[After(fed, i, word)] \notin Letters
      BY <2>2 DEF IsHeader
    <3>2. word \in Words
      BY DEF Reserved, Words
    <3>3. /\ i \in 1 .. MaxError /\ Reads(u, i, word)
          /\ After(fed, i, word) = After(u, i, word)
          /\ After(fed, i, word) \in 1 .. (MaxError + 1)
      BY <1>5, <2>1, <3>1, <3>2
    <3>4. After(fed, i, word) # MaxError + 1
      BY <1>3, <1>5, <2>2, <3>1 DEF ReachesCut
    <3>5. After(u, i, word) \in 1 .. MaxError /\ u[After(u, i, word)] \notin Letters
      BY <1>3, <1>5, <3>1, <3>3, <3>4
    <3>6. \A l \in 1 .. (i - 1) : u[l] \in Letters \cup Mixed => \E m \in l .. (i - 1) : u[m] = "nl"
      <4>1. \A l \in 1 .. (i - 1) : l \in 1 .. MaxError /\ fed[l] = u[l]
        BY <1>3, <1>5, <3>3
      <4>2. \A l \in 1 .. (i - 1) : \A m \in l .. (i - 1) : m \in 1 .. (i - 1)
        OBVIOUS
      <4> QED
        BY <2>2, <4>1, <4>2 DEF IsHeader
    <3>7. IsHeader(u, i)
      BY <3>3, <3>5, <3>6 DEF IsHeader
    <3>8. i > 1 /\ u[i - 1] = "gap"
      BY <1>1, <1>3, <1>5, <3>3, <3>7
    <3>9. i - 1 \in 1 .. MaxError
      BY <1>3, <3>3, <3>8
    <3> QED
      BY <1>5, <3>8, <3>9
  <2>3. ASSUME NEW i \in DOMAIN fed, NEW word \in Structural, Reads(fed, i, word)
        PROVE  i > 1 /\ fed[i - 1] = "gap"
    <3>1. word \in Words
      BY DEF Structural, Words
    <3>2. i \in 1 .. MaxError /\ Reads(u, i, word)
      BY <1>5, <2>1, <2>3, <3>1
    <3>3. i \in 1 .. Len(u) /\ i \in Tokenized(u, Structural)
      BY <1>3, <1>5, <3>2 DEF Tokenized
    <3>4. i > 1 /\ u[i - 1] = "gap"
      BY <1>1, <3>3
    <3>5. i - 1 \in 1 .. MaxError
      BY <1>3, <3>2, <3>4
    <3> QED
      BY <1>5, <3>4, <3>5
  <2>4. Len(fed) <= MaxError + 1
    BY <1>3, <1>5
  <2> QED
    BY <2>2, <2>3, <2>4 DEF FeedbackIsInert, fed
<1> QED
  BY <1>2, <1>4, <1>5

LEMMA ContentTypeCorrect == PromptSpec => [](content \in Seq(Alphabet))
<1>1. PromptInit => content \in Seq(Alphabet)
  BY DEF PromptInit
<1>2. content \in Seq(Alphabet) /\ [PromptNext]_content => (content \in Seq(Alphabet))'
  BY UserPromptAssumption DEF PromptNext, Receive
<1> QED
  BY <1>1, <1>2, PTL DEF PromptSpec

\* build_user_prompt and build_retry_prompt, for a text of any length and any cut: what
\* is sent stays inside its wrapping and loses nothing, or is refused.
THEOREM PromptsAreFramed == PromptSpec => []PromptIsFramed
<1>1. content \in Seq(Alphabet) => PromptIsFramed
  <2> SUFFICES ASSUME content \in Seq(Alphabet) PROVE PromptIsFramed
    OBVIOUS
  <2>1. FeedbackIsInert
    BY FeedbackHolds
  <2>2. CASE Collides(content)
    BY <2>1, <2>2 DEF PromptIsFramed, BuildUserPrompt
  <2>3. CASE ~Collides(content)
    BY <2>1, <2>3, PromptFrames DEF PromptIsFramed
  <2> QED
    BY <2>2, <2>3
<1> QED
  BY <1>1, ContentTypeCorrect, PTL

-----------------------------------------------------------------------------
(* ClaudeCli. A result outlives the call, so the invariant says that it is  *)
(* still what the precedence makes of the state: once a half is done, what  *)
(* it looked at does not change any more.                                   *)

\* The write half is done well only with the whole prompt out and stdin dropped.
Written == write_done \in {"ok", "flush"} => written = Prompt /\ ~open

\* A reaped child is gone, and so is the child of a call that returned.
Gone ==
  /\ wait_done = "exited" => child = "exited"
  /\ wait_done # "none" \/ result # Pending => child # "running"
  /\ child = "unborn" => wait_done = "none" /\ write_done = "none"
  /\ result = Process(NoCode, "spawn") => child = "unborn"

\* A result is what the halves make it.
Justified ==
  \/ result \in {Pending, Dropped, Process(NoCode, "spawn")}
  \/ write_done # "none" /\ wait_done # "none" /\ result = Outcome

CliInv == CliTypeOK /\ Written /\ Gone /\ Justified

LEMMA InitCli == CliInit => CliInv
BY CliAssumption DEF CliInit, CliInv, CliTypeOK, Written, Gone, Justified, Operation, Envelope, Garbage

-----------------------------------------------------------------------------
\* Steps of the child leave the halves and the result alone.
LEMMA ChildStep ==
  ASSUME CliInv, Child \/ ChildStopsReading
  PROVE  CliInv'
<1> USE DEF CliInv
<1>1. /\ child = "running" /\ result = Pending /\ wait_done = "none"
      /\ UNCHANGED <<written, open, write_done, wait_done, result>>
  BY DEF Child, ChildStopsReading, ChildReads, ChildWrites, ChildExits, Gone
<1>2. CliTypeOK'
  <2>1. CASE ChildReads
    <3>1. wants' \in Operation
      BY <2>1 DEF ChildReads, Chooses
    <3>2. pipe' \in [{"in", "out", "err"} -> 0 .. PipeCap]
      <4>1. CASE pipe["in"] > 0
        <5>1. pipe["in"] - 1 \in 0 .. PipeCap
          BY <4>1, CliAssumption DEF CliTypeOK
        <5> QED
          BY <2>1, <4>1, <5>1 DEF ChildReads, CliTypeOK
      <4> QED
        BY <2>1, <4>1, CliAssumption DEF ChildReads, CliTypeOK
    <3>3. reads' \in BOOLEAN
      BY <2>1 DEF ChildReads, CliTypeOK
    <3>4. UNCHANGED <<child, left, code, stdout>>
      BY <2>1 DEF ChildReads
    <3> QED
      BY <3>1, <3>2, <3>3, <3>4, <1>1 DEF CliTypeOK
  <2>2. CASE ChildStopsReading
    <3>1. wants' \in Operation
      BY <2>2 DEF ChildStopsReading, CliTypeOK, Operation
    <3>2. reads' \in BOOLEAN /\ UNCHANGED <<child, left, pipe, code, stdout>>
      BY <2>2 DEF ChildStopsReading
    <3> QED
      BY <3>1, <3>2, <1>1 DEF CliTypeOK
  <2>3. ASSUME NEW q \in {"out", "err"}, ChildWrites(q) PROVE CliTypeOK'
    <3>1. wants' \in Operation
      BY <2>3 DEF ChildWrites, Operation
    <3>2. pipe' \in [{"in", "out", "err"} -> 0 .. PipeCap] /\ left' \in [{"out", "err"} -> 0 .. MaxOut]
      <4>1. CASE left[q] = 0
        BY <2>3, <4>1 DEF ChildWrites, CliTypeOK
      <4>2. CASE left[q] # 0
        <5>1. pipe[q] + 1 \in 0 .. PipeCap /\ left[q] - 1 \in 0 .. MaxOut
          BY <2>3, <4>2, CliAssumption DEF ChildWrites, CliTypeOK
        <5> QED
          BY <2>3, <4>2, <5>1 DEF ChildWrites, CliTypeOK
      <4> QED
        BY <4>1, <4>2
    <3>3. UNCHANGED <<child, reads, code, stdout>>
      BY <2>3 DEF ChildWrites
    <3> QED
      BY <3>1, <3>2, <3>3, <1>1 DEF CliTypeOK
  <2>4. CASE ChildExits
    <3>1. child' = "exited" /\ reads' = FALSE /\ code' \in Codes \cup {0} /\ stdout' \in Envelope
          /\ UNCHANGED <<wants, left, pipe>>
      BY <2>4 DEF ChildExits
    <3> QED
      BY <3>1, <1>1 DEF CliTypeOK
  <2> QED
    BY <2>1, <2>2, <2>3, <2>4 DEF Child
<1>3. Written'
  BY <1>1 DEF Written
<1>4. Gone'
  <2>1. child' \in {"running", "exited"}
    BY <1>1 DEF Child, ChildStopsReading, ChildReads, ChildWrites, ChildExits
  <2> QED
    BY <2>1, <1>1 DEF Gone
<1>5. Justified'
  BY <1>1 DEF Justified, Pending
<1> QED
  BY <1>2, <1>3, <1>4, <1>5

\* Steps of the two halves.
LEMMA HalvesStep ==
  ASSUME CliInv,
         WriteChunk \/ BrokenPipe \/ CloseStdin \/ (\E p \in {"out", "err"} : Drain(p)) \/ Reap \/ ReapFails
  PROVE  CliInv'
<1> USE DEF CliInv
<1>1. /\ child # "unborn" /\ result = Pending /\ result' = result
      /\ UNCHANGED <<wants, left, code, stdout>>
  BY DEF WriteChunk, BrokenPipe, CloseStdin, Drain, Reap, ReapFails, Polled, childVars
<1>2. Justified'
  BY <1>1 DEF Justified
<1>3. CASE WriteChunk
  <2>1. written + 1 \in 0 .. Prompt /\ pipe["in"] + 1 \in 0 .. PipeCap
    BY <1>3, CliAssumption DEF WriteChunk, CliTypeOK
  <2> QED
    BY <1>1, <1>2, <1>3, <2>1 DEF WriteChunk, CliTypeOK, Written, Gone, childVars
<1>4. CASE BrokenPipe
  BY <1>1, <1>2, <1>4 DEF BrokenPipe, CliTypeOK, Written, Gone, childVars
<1>5. CASE CloseStdin
  BY <1>1, <1>2, <1>5 DEF CloseStdin, CliTypeOK, Written, Gone, childVars
<1>6. ASSUME NEW q \in {"out", "err"}, Drain(q) PROVE CliInv'
  <2>1. pipe[q] - 1 \in 0 .. PipeCap
    BY <1>6, CliAssumption DEF Drain, CliTypeOK
  <2> QED
    BY <1>1, <1>2, <1>6, <2>1 DEF Drain, CliTypeOK, Written, Gone, childVars
<1>7. CASE Reap
  BY <1>1, <1>2, <1>7 DEF Reap, CliTypeOK, Written, Gone, childVars
<1>8. CASE ReapFails
  BY <1>1, <1>2, <1>8 DEF ReapFails, CliTypeOK, Written, Gone
<1> QED
  BY <1>3, <1>4, <1>5, <1>6, <1>7, <1>8

\* Steps that settle the call.
LEMMA SettleStep ==
  ASSUME CliInv, Spawn \/ Drop \/ Return
  PROVE  CliInv'
<1> USE DEF CliInv
<1>1. CASE Spawn
  <2>1. result' \in {Pending, Process(NoCode, "spawn")} /\ child' \in {"unborn", "running"}
        /\ wait_done' = "none" /\ write_done' = "none"
        /\ (child' = "running" => result' = Pending)
    BY <1>1 DEF Spawn, Gone
  <2>2. wants' \in Operation /\ UNCHANGED <<reads, left, pipe, written, open, write_done, wait_done, code, stdout>>
    BY <1>1 DEF Spawn, CliTypeOK
  <2>3. result' = Process(NoCode, "spawn") => child' = "unborn"
    BY <1>1 DEF Spawn, Pending, Process
  <2>4. CliTypeOK'
    BY <2>1, <2>2 DEF CliTypeOK
  <2>5. Gone'
    BY <2>1, <2>3 DEF Gone
  <2> QED
    BY <2>1, <2>2, <2>4, <2>5 DEF Written, Justified
<1>2. CASE Drop
  <2>1. child' # "running" /\ (wait_done' = "exited" => child' = "exited") /\ child' # "unborn"
    BY <1>2 DEF Drop, Gone, Polled
  <2>2. CliTypeOK'
    BY <1>2 DEF Drop, CliTypeOK
  <2>3. Gone'
    BY <1>2, <2>1 DEF Drop, Gone, Dropped, Process
  <2> QED
    BY <1>2, <2>2, <2>3 DEF Drop, Written, Justified
<1>3. CASE Return
  <2>1. UNCHANGED <<child, wants, reads, left, pipe, written, open, write_done, wait_done, code, stdout>>
        /\ write_done # "none" /\ wait_done # "none" /\ child # "unborn"
    BY <1>3 DEF Return, childVars, Polled
  <2>2. result' = Outcome'
    BY <1>3, <2>1 DEF Return, Outcome, ChildFailure, ParseCompletion, EnvelopeError
  <2>3. CliTypeOK' /\ Written'
    BY <2>1 DEF CliTypeOK, Written
  <2>4. result' # Process(NoCode, "spawn")
    <3>1. stdout' \in {Garbage, Answer} \cup Failing
      BY <2>1 DEF CliTypeOK, Envelope
    <3>2. ChildFailure' # Process(NoCode, "spawn") /\ ParseCompletion' # Process(NoCode, "spawn")
      BY <3>1 DEF ChildFailure, ParseCompletion, EnvelopeError, Process, Ok, Http, Garbage, Answer, Failing
    <3> QED
      BY <2>2, <3>2 DEF Outcome, Process
  <2>5. Gone'
    BY <2>1, <2>4 DEF Gone
  <2> QED
    BY <2>1, <2>2, <2>3, <2>5 DEF Justified
<1> QED
  BY <1>1, <1>2, <1>3

LEMMA CliStep == CliInv /\ [CliNext]_cliVars => CliInv'
<1> SUFFICES ASSUME CliInv, [CliNext]_cliVars PROVE CliInv'
  OBVIOUS
<1>1. CASE CliNext
  BY <1>1, ChildStep, HalvesStep, SettleStep DEF CliNext, Parent
<1>2. CASE UNCHANGED cliVars
  BY <1>2 DEF cliVars, CliInv, CliTypeOK, Written, Gone, Justified, Outcome, ChildFailure,
     ParseCompletion, EnvelopeError
<1> QED
  BY <1>1, <1>2

\* The invariant of the call.
THEOREM CliInvariant == CliSpec => []CliInv
<1> QED
  BY InitCli, CliStep, PTL DEF CliSpec

\* The variables keep their types, whatever the child is.
THEOREM CliTypeCorrect == CliSpec => []CliTypeOK
<1>1. CliInv => CliTypeOK
  BY DEF CliInv
<1> QED
  BY <1>1, CliInvariant, PTL

\* No answer is returned for a prompt that was not delivered whole.
THEOREM NoAnswerToHalfAPrompt == CliSpec => []AnswerMeansWholePrompt
<1>1. CliInv => AnswerMeansWholePrompt
  <2> SUFFICES ASSUME CliInv, result = Ok
      PROVE written = Prompt /\ ~open /\ child = "exited" /\ code = 0
    BY DEF AnswerMeansWholePrompt
  <2>1. write_done # "none" /\ wait_done # "none" /\ Ok = Outcome
    BY DEF CliInv, Justified, Ok, Pending, Dropped, Process
  <2>2. wait_done # "failed" /\ code = 0 /\ write_done # "truncated"
    BY <2>1 DEF Outcome, Ok, Process, ChildFailure, EnvelopeError, Http, Failing, CliInv, CliTypeOK, Envelope
  <2> QED
    BY <2>1, <2>2 DEF CliInv, CliTypeOK, Written, Gone
<1> QED
  BY <1>1, CliInvariant, PTL

\* A child's death is its own diagnosis, however the write raced with it.
THEOREM DeathDiagnosed == CliSpec => []DeathIsTheDiagnosis
<1>1. CliInv => DeathIsTheDiagnosis
  <2> SUFFICES ASSUME CliInv, result.kind \in {"ok", "http", "process"}, wait_done = "exited", code # 0
      PROVE \/ result = Http
            \/ result.kind = "process" /\ result.exit_code = code /\ result.stderr \in {"stderr", "envelope"}
    BY DEF DeathIsTheDiagnosis
  <2>1. CASE result = Process(NoCode, "spawn")
    BY <2>1 DEF CliInv, Gone
  <2>2. CASE result \in {Pending, Dropped}
    BY <2>2 DEF Pending, Dropped
  <2>3. CASE result = Outcome
    <3>1. result = ChildFailure
      BY <2>3 DEF Outcome
    <3>2. stdout \in {Garbage, Answer} \cup Failing
      BY DEF CliInv, CliTypeOK, Envelope
    <3> QED
      BY <3>1, <3>2 DEF ChildFailure, EnvelopeError, Process, Failing, Garbage, Answer
  <2> QED
    BY <2>1, <2>2, <2>3 DEF CliInv, Justified
<1> QED
  BY <1>1, CliInvariant, PTL

\* A status comes from an envelope and an exit code from the child.
THEOREM StatusesAreGenuine == CliSpec => []NothingIsFabricated
<1>1. CliInv => NothingIsFabricated
  <2> SUFFICES ASSUME CliInv PROVE NothingIsFabricated
    OBVIOUS
  <2>1. stdout \in {Garbage, Answer} \cup Failing
    BY DEF CliInv, CliTypeOK, Envelope
  <2>2. CASE result \in {Pending, Dropped, Process(NoCode, "spawn")}
    BY <2>2 DEF Pending, Dropped, Process, Http, NothingIsFabricated
  <2>3. CASE write_done # "none" /\ wait_done # "none" /\ result = Outcome
    <3>1. CASE wait_done = "failed"
      BY <2>3, <3>1 DEF Outcome, Process, Http, NothingIsFabricated
    <3>2. CASE wait_done = "exited" /\ code # 0
      <4>1. result = ChildFailure
        BY <2>3, <3>2 DEF Outcome
      <4> QED
        BY <2>1, <3>2, <4>1 DEF ChildFailure, EnvelopeError, Process, Http, Garbage, Answer, Failing,
           NothingIsFabricated
    <3>3. CASE wait_done = "exited" /\ code = 0
      <4>1. result \in {Process(NoCode, "write"), ParseCompletion}
        BY <2>3, <3>3 DEF Outcome
      <4> QED
        BY <2>1, <3>3, <4>1 DEF ParseCompletion, EnvelopeError, Process, Http, Ok, Garbage, Answer, Failing,
           NothingIsFabricated
    <3> QED
      BY <2>3, <3>1, <3>2, <3>3 DEF CliInv, CliTypeOK
  <2> QED
    BY <2>2, <2>3 DEF CliInv, Justified
<1> QED
  BY <1>1, CliInvariant, PTL
===============================================================================
