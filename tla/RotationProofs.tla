---------------------------- MODULE RotationProofs ----------------------------
(***************************************************************************)
(* Proofs about Rotation, for every set of mages, every pool, every        *)
(* rotation cap and every preflight result; the last section is about the  *)
(* report Eligibility makes of the pool.                                   *)
(***************************************************************************)
EXTENDS Eligibility, FiniteSetTheorems, WellFoundedInduction, TLAPS

-----------------------------------------------------------------------------
(* The candidate a claim takes.                                             *)

NatLess == {ss \in Nat \X Nat : ss[1] < ss[2]}

\* The order of the naturals is well-founded, in a first-order form.
LEMMA NatLessWellFounded == IsWellFoundedOn(NatLess, Nat)
<1>1. OpToRel(<, Nat) = NatLess
  BY Zenon DEF OpToRel, NatLess
<1> QED
  BY <1>1, NatLessThanWellFounded

\* A non-empty set of naturals has the first element `find` returns.
LEMMA FirstExists ==
  ASSUME NEW S \in SUBSET Nat, S # {}
  PROVE  FirstOf(S) \in S /\ \A j \in S : FirstOf(S) <= j
<1>1. PICK i \in S : \A j \in S : <<j, i>> \notin NatLess
  BY NatLessWellFounded, WFMin
<1>2. ASSUME NEW j \in S PROVE i <= j
  <2>1. ~(j < i)
    <3>1. SUFFICES ASSUME j < i PROVE <<j, i>> \in NatLess
      BY <1>1
    <3>2. <<j, i>> \in Nat \X Nat /\ <<j, i>>[1] < <<j, i>>[2]
      BY <3>1
    <3> QED BY <3>2, Zenon DEF NatLess
  <2> QED BY <2>1
<1> QED
  BY <1>2 DEF FirstOf

\* What claim_next commits is one of the candidates its loop could take.
LEMMA ClaimIsClaimable ==
  ASSUME NEW s \in Seat, Claimable(s) # {}
  PROVE  /\ FirstOf(Claimable(s)) \in Claimable(s)
         /\ Pool[FirstOf(Claimable(s))] \in Entry
<1>1. Claimable(s) \in SUBSET Nat
  BY RotationAssumption DEF Claimable, Proposable
<1>2. FirstOf(Claimable(s)) \in Claimable(s)
  BY <1>1, FirstExists
<1> QED
  BY <1>2, RotationAssumption DEF Claimable, Proposable

-----------------------------------------------------------------------------
(* Type correctness.                                                        *)

\* Every reachable state is well typed.
THEOREM TypeCorrect == Spec => []TypeOK
<1>1. Init => TypeOK
  <2> SUFFICES ASSUME Init PROVE TypeOK
    OBVIOUS
  <2>1. capabilities \in [Model -> Capability]
    BY RotationAssumption, Zenon DEF Init
  <2>2. active \in [Seat -> Entry] /\ current \in [Seat -> Entry]
    BY RotationAssumption DEF Init
  <2>3. used \in [Seat -> SUBSET Model]
    BY RotationAssumption DEF Init, Entry
  <2>4. chain \in [Seat -> Seq(Event)]
    BY DEF Init
  <2>5. /\ runFailed \subseteq Lineage /\ connectionFailed \subseteq Lineage
        /\ endpointDown \in BOOLEAN /\ crateDefect \in Seat \cup {NoSeat}
        /\ detached \subseteq Seat
    BY DEF Init
  <2>6. /\ pc \in [Seat -> Pc] /\ result \in [Seat -> Result]
        /\ cause \in [Seat -> Failure] /\ degenerate \in [Seat -> BOOLEAN]
        /\ rotationsDone \in [Seat -> Nat]
        /\ failedLineages \in [Seat -> SUBSET Lineage]
    BY DEF Init, Pc, Result, Failure
  <2> QED
    BY <2>1, <2>2, <2>3, <2>4, <2>5, <2>6 DEF TypeOK
<1>2. TypeOK /\ [Next]_vars => TypeOK'
  <2> SUFFICES ASSUME TypeOK, [Next]_vars PROVE TypeOK'
    OBVIOUS
  <2> USE DEF TypeOK, Pc, Result
  <2>1. ASSUME NEW s \in Seat, MageStep(s) PROVE TypeOK'
    <3>1. ASSUME NEW outcome \in Outcome, Attempt(s, outcome) PROVE TypeOK'
      <4>1. CASE AttemptSucceeds(s)
        BY <4>1 DEF AttemptSucceeds, GoTo, registry, locals
      <4>2. CASE AttemptFailsLocally(s)
        BY <4>2 DEF AttemptFailsLocally, GoTo, registry, Entry, Failure, MageLocal
      <4>3. ASSUME NEW kind \in {Transport, Connection}, AttemptFailsInTransport(s, kind)
            PROVE  TypeOK'
        BY <4>3 DEF AttemptFailsInTransport, GoTo, registry, locals, Failure
      <4>4. CASE AttemptShowsCrateDefect(s)
        BY <4>4 DEF AttemptShowsCrateDefect, GoTo, registry, locals
      <4> QED
        BY <3>1, <4>1, <4>2, <4>3, <4>4 DEF Attempt
    <3>2. CASE RegisterTransportFailure(s)
      BY <3>2 DEF RegisterTransportFailure, ConnectionLost, GoTo, locals, Entry
    <3>3. CASE ClaimsNext(s)
      <4> DEFINE next == Pool[FirstOf(Claimable(s))]
      <4>1. next \in Entry
        BY <3>3, ClaimIsClaimable DEF ClaimsNext
      <4>2. DOMAIN active' \subseteq Seat /\ active' \in [DOMAIN active' -> Entry]
        BY <3>3, <4>1 DEF ClaimsNext, Insert
      <4>3. [from |-> current[s].lineage, to |-> next.lineage, kind |-> cause[s]] \in Event
        BY <4>1 DEF Event, Entry
      <4>4. chain' \in [Seat -> Seq(Event)]
        BY <3>3, <4>3 DEF ClaimsNext
      <4>5. used' \in [Seat -> SUBSET Model]
        BY <3>3, <4>1 DEF ClaimsNext, Entry
      <4> QED
        BY <3>3, <4>1, <4>2, <4>4, <4>5 DEF ClaimsNext, GoTo
    <3>4. CASE FindsNoCandidate(s)
      BY <3>4 DEF FindsNoCandidate, GoTo, registry
    <3>5. CASE ReleaseExhausted(s)
      BY <3>5 DEF ReleaseExhausted, GoTo, locals, Without
    <3>6. CASE ReleaseDefective(s)
      BY <3>6 DEF ReleaseDefective, GoTo, locals, Without
    <3>7. CASE LatchCrateDefect(s)
      BY <3>7 DEF LatchCrateDefect, GoTo, locals
    <3>8. CASE Panic(s)
      BY <3>8 DEF Panic, Ends, DropGuard, locals, Without
    <3> QED
      BY <2>1, <3>1, <3>2, <3>3, <3>4, <3>5, <3>6, <3>7, <3>8 DEF MageStep
  <2>2. ASSUME NEW s \in Seat, Abort(s) PROVE TypeOK'
    BY <2>2 DEF Abort, Ends, DropGuard, locals, Without
  <2>3. ASSUME NEW s \in Seat, DetachedRelease(s) PROVE TypeOK'
    BY <2>3 DEF DetachedRelease, locals, Without
  <2>4. CASE UNCHANGED vars
    BY <2>4 DEF vars, registry, locals
  <2> QED
    BY <2>1, <2>2, <2>3, <2>4 DEF Next
<1> QED
  BY <1>1, <1>2, PTL DEF Spec

-----------------------------------------------------------------------------
(* Who holds what: only a claim ever adds an entry.                         *)

\* The three things a step can do to the active entries.
LEMMA ActiveStep ==
  ASSUME [Next]_vars
  PROVE  /\ capabilities' = capabilities
         /\ \/ \E s \in Seat : ClaimsNext(s)
            \/ /\ rotationsDone' = rotationsDone
               /\ active' = active \/ \E s \in Seat : active' = Without(s)
<1> USE DEF registry, locals
<1>1. ASSUME NEW s \in Seat, MageStep(s)
      PROVE  /\ capabilities' = capabilities
             /\ \/ ClaimsNext(s)
                \/ /\ rotationsDone' = rotationsDone
                   /\ active' = active \/ active' = Without(s)
  <2>1. CASE \E outcome \in Outcome : Attempt(s, outcome)
    BY <2>1 DEF Attempt, AttemptSucceeds, AttemptFailsLocally,
                AttemptFailsInTransport, AttemptShowsCrateDefect
  <2>2. CASE RegisterTransportFailure(s)
    BY <2>2 DEF RegisterTransportFailure
  <2>3. CASE ClaimsNext(s)
    BY <2>3 DEF ClaimsNext
  <2>4. CASE FindsNoCandidate(s)
    BY <2>4 DEF FindsNoCandidate
  <2>5. CASE ReleaseExhausted(s) \/ ReleaseDefective(s) \/ LatchCrateDefect(s)
    BY <2>5 DEF ReleaseExhausted, ReleaseDefective, LatchCrateDefect
  <2>6. CASE Panic(s)
    BY <2>6 DEF Panic, Ends, DropGuard
  <2> QED
    BY <1>1, <2>1, <2>2, <2>3, <2>4, <2>5, <2>6 DEF MageStep
<1>2. ASSUME NEW s \in Seat, Abort(s) \/ DetachedRelease(s)
      PROVE  /\ capabilities' = capabilities
             /\ rotationsDone' = rotationsDone
             /\ active' = active \/ active' = Without(s)
  BY <1>2 DEF Abort, Ends, DropGuard, DetachedRelease
<1>3. CASE UNCHANGED vars
  BY <1>3 DEF vars
<1> QED
  BY <1>1, <1>2, <1>3 DEF Next

\* A claim leaves every other mage's entry and count alone, and what it commits is
\* admitted and collides with nobody.
LEMMA ClaimEffect ==
  ASSUME TypeOK, NEW s \in Seat, ClaimsNext(s)
  PROVE  \E next \in Entry :
           /\ Admits(s, next) /\ ~Collides(s, next)
           /\ DOMAIN active' = DOMAIN active \cup {s}
           /\ active'[s] = next
           /\ \A t \in Others(s) : active'[t] = active[t]
           /\ \A t \in Seat \ {s} : rotationsDone'[t] = rotationsDone[t]
<1> DEFINE next == Pool[FirstOf(Claimable(s))]
<1>1. FirstOf(Claimable(s)) \in Claimable(s) /\ next \in Entry
  BY ClaimIsClaimable DEF ClaimsNext
<1>2. Admits(s, next) /\ ~Collides(s, next)
  BY <1>1 DEF Claimable, Proposable
<1>3. active' = Insert(s, next)
  BY DEF ClaimsNext
<1>4. rotationsDone' = [rotationsDone EXCEPT ![s] = @ + 1]
  BY DEF ClaimsNext
<1>5. /\ DOMAIN active' = DOMAIN active \cup {s}
      /\ active'[s] = next
      /\ \A t \in Others(s) : active'[t] = active[t]
  BY <1>3 DEF Insert, Others
<1>6. \A t \in Seat \ {s} : rotationsDone'[t] = rotationsDone[t]
  BY <1>4 DEF TypeOK
<1> QED
  BY <1>1, <1>2, <1>5, <1>6

\* A rotation never brings two live mages onto one lineage, however their claims
\* interleave with failures, releases and aborts.
THEOREM DiversityIsKept == Spec => []RotationKeepsDiversity
<1>1. Init => RotationKeepsDiversity
  <2> SUFFICES ASSUME Init PROVE RotationKeepsDiversity
    OBVIOUS
  <2>1. DOMAIN active = Seat /\ \A s \in Seat : rotationsDone[s] = 0
    BY RotationAssumption DEF Init
  <2> QED
    BY <2>1 DEF RotationKeepsDiversity
<1>2. TypeOK /\ RotationKeepsDiversity /\ [Next]_vars => RotationKeepsDiversity'
  <2> SUFFICES ASSUME TypeOK, RotationKeepsDiversity, [Next]_vars
               PROVE  RotationKeepsDiversity'
    OBVIOUS
  <2>1. ASSUME NEW s \in Seat, ClaimsNext(s) PROVE RotationKeepsDiversity'
    <3>1. PICK next \in Entry :
            /\ Admits(s, next)
            /\ DOMAIN active' = DOMAIN active \cup {s}
            /\ active'[s] = next
            /\ \A t \in Others(s) : active'[t] = active[t]
            /\ \A t \in Seat \ {s} : rotationsDone'[t] = rotationsDone[t]
      BY <2>1, ClaimEffect
    <3>2. \A t \in Others(s) : active'[t].lineage # active'[s].lineage
      BY <3>1 DEF Admits, LineagesInPlay
    <3>3. \A t \in DOMAIN active' : t # s => t \in Others(s) /\ t \in Seat
      BY <3>1 DEF Others, TypeOK
    <3>4. SUFFICES ASSUME NEW t \in DOMAIN active', NEW u \in DOMAIN active', t # u,
                          active'[t].lineage = active'[u].lineage
                   PROVE  rotationsDone'[t] = 0 /\ rotationsDone'[u] = 0
      BY DEF RotationKeepsDiversity
    <3>5. t # s /\ u # s
      BY <3>2, <3>3, <3>4
    <3> QED
      BY <3>1, <3>3, <3>4, <3>5 DEF RotationKeepsDiversity, Others
  <2>2. ASSUME rotationsDone' = rotationsDone, active' = active
        PROVE  RotationKeepsDiversity'
    BY <2>2 DEF RotationKeepsDiversity
  <2>3. ASSUME rotationsDone' = rotationsDone, NEW s \in Seat, active' = Without(s)
        PROVE  RotationKeepsDiversity'
    BY <2>3 DEF RotationKeepsDiversity, Without
  <2> QED
    BY <2>1, <2>2, <2>3, ActiveStep
<1> QED
  BY <1>1, <1>2, TypeCorrect, PTL DEF Spec

\* A rotation never puts a mage on weights proven to be another live mage's.
THEOREM NoCollapseIsKept == Spec => []NoProvenCollapse
<1>1. Init => NoProvenCollapse
  <2> SUFFICES ASSUME Init PROVE NoProvenCollapse
    OBVIOUS
  <2>1. DOMAIN active = Seat /\ \A s \in Seat : rotationsDone[s] = 0
    BY RotationAssumption DEF Init
  <2> QED
    BY <2>1 DEF NoProvenCollapse
<1>2. TypeOK /\ NoProvenCollapse /\ [Next]_vars => NoProvenCollapse'
  <2> SUFFICES ASSUME TypeOK, NoProvenCollapse, [Next]_vars
               PROVE  NoProvenCollapse'
    OBVIOUS
  <2> DEFINE digest(e) == capabilities[e.model].digest
  <2>0. capabilities' = capabilities
    BY ActiveStep
  <2>1. ASSUME NEW s \in Seat, ClaimsNext(s) PROVE NoProvenCollapse'
    <3>1. PICK next \in Entry :
            /\ ~Collides(s, next)
            /\ DOMAIN active' = DOMAIN active \cup {s}
            /\ active'[s] = next
            /\ \A t \in Others(s) : active'[t] = active[t]
            /\ \A t \in Seat \ {s} : rotationsDone'[t] = rotationsDone[t]
      BY <2>1, ClaimEffect
    <3>2. \A t \in Others(s) :
            digest(next) # NoDigest => digest(active'[t]) # digest(active'[s])
      BY <3>1 DEF Collides
    <3>3. \A t \in DOMAIN active' : t # s => t \in Others(s) /\ t \in Seat
      BY <3>1 DEF Others, TypeOK
    <3>4. SUFFICES ASSUME NEW t \in DOMAIN active', NEW u \in DOMAIN active', t # u,
                          digest(active'[t]) # NoDigest,
                          digest(active'[t]) = digest(active'[u])
                   PROVE  rotationsDone'[t] = 0 /\ rotationsDone'[u] = 0
      BY <2>0 DEF NoProvenCollapse
    <3>5. t # s /\ u # s
      BY <3>1, <3>2, <3>3, <3>4
    <3> QED
      BY <3>1, <3>3, <3>4, <3>5 DEF NoProvenCollapse, Others
  <2>2. ASSUME rotationsDone' = rotationsDone, active' = active
        PROVE  NoProvenCollapse'
    BY <2>0, <2>2 DEF NoProvenCollapse
  <2>3. ASSUME rotationsDone' = rotationsDone, NEW s \in Seat, active' = Without(s)
        PROVE  NoProvenCollapse'
    BY <2>0, <2>3 DEF NoProvenCollapse, Without
  <2> QED
    BY <2>1, <2>2, <2>3, ActiveStep
<1> QED
  BY <1>1, <1>2, TypeCorrect, PTL DEF Spec

-----------------------------------------------------------------------------
(* The latches: only register_transport_failure touches them.               *)

\* A step either leaves condemnations and latch alone or is one mage's registration.
LEMMA LatchStep ==
  ASSUME [Next]_vars
  PROVE  \/ UNCHANGED <<runFailed, connectionFailed, endpointDown>>
         \/ \E s \in Seat : RegisterTransportFailure(s)
<1> USE DEF registry, locals
<1>1. ASSUME NEW s \in Seat, MageStep(s)
      PROVE  \/ UNCHANGED <<runFailed, connectionFailed, endpointDown>>
             \/ RegisterTransportFailure(s)
  <2>1. CASE \E outcome \in Outcome : Attempt(s, outcome)
    BY <2>1 DEF Attempt, AttemptSucceeds, AttemptFailsLocally,
                AttemptFailsInTransport, AttemptShowsCrateDefect
  <2>2. CASE ClaimsNext(s) \/ FindsNoCandidate(s)
    BY <2>2 DEF ClaimsNext, FindsNoCandidate
  <2>3. CASE ReleaseExhausted(s) \/ ReleaseDefective(s) \/ LatchCrateDefect(s)
    BY <2>3 DEF ReleaseExhausted, ReleaseDefective, LatchCrateDefect
  <2>4. CASE Panic(s)
    BY <2>4 DEF Panic, Ends
  <2> QED
    BY <1>1, <2>1, <2>2, <2>3, <2>4 DEF MageStep
<1>2. ASSUME NEW s \in Seat, Abort(s) \/ DetachedRelease(s)
      PROVE  UNCHANGED <<runFailed, connectionFailed, endpointDown>>
  BY <1>2 DEF Abort, Ends, DetachedRelease
<1>3. CASE UNCHANGED vars
  BY <1>3 DEF vars
<1> QED
  BY <1>1, <1>2, <1>3 DEF Next

\* The inductive form of LatchIsExact: the counted set stays finite.
LatchInv == LatchIsExact /\ IsFiniteSet(connectionFailed)

\* The endpoint-down latch is set exactly when two lineages lost their connection.
THEOREM LatchCorrect == Spec => []LatchIsExact
<1>1. Init => LatchInv
  BY FS_EmptySet DEF Init, LatchInv, LatchIsExact, Threshold
<1>2. TypeOK /\ LatchInv /\ [Next]_vars => LatchInv'
  <2> SUFFICES ASSUME TypeOK, LatchInv, [Next]_vars PROVE LatchInv'
    OBVIOUS
  <2>1. ASSUME NEW s \in Seat, RegisterTransportFailure(s) PROVE LatchInv'
    <3> DEFINE l == current[s].lineage
    <3>1. CASE cause[s] = Connection
      <4>1. /\ runFailed' = runFailed \cup {l}
            /\ connectionFailed' = connectionFailed \cup {l}
            /\ endpointDown' = (endpointDown \/ Cardinality(connectionFailed') >= Threshold)
        BY <2>1, <3>1 DEF RegisterTransportFailure, ConnectionLost, SignalsEndpointDown
      <4>2. /\ IsFiniteSet(connectionFailed')
            /\ Cardinality(connectionFailed) \in Nat
            /\ Cardinality(connectionFailed') \in Nat
            /\ Cardinality(connectionFailed') >= Cardinality(connectionFailed)
        BY <4>1, FS_AddElement, FS_CardinalityType DEF LatchInv
      <4>3. endpointDown' <=> Cardinality(connectionFailed') >= Threshold
        <5>1. endpointDown => Cardinality(connectionFailed') >= Threshold
          BY <4>2 DEF LatchInv, LatchIsExact, Threshold
        <5> QED
          BY <4>1, <5>1, Zenon
      <4> QED
        BY <4>1, <4>2, <4>3 DEF LatchInv, LatchIsExact
    <3>2. CASE cause[s] # Connection
      <4>1. /\ runFailed' = runFailed \cup {l}
            /\ connectionFailed' = connectionFailed
            /\ endpointDown' = endpointDown
        BY <2>1, <3>2 DEF RegisterTransportFailure, ConnectionLost, SignalsEndpointDown, TypeOK
      <4> QED
        BY <4>1 DEF LatchInv, LatchIsExact
    <3> QED
      BY <3>1, <3>2
  <2>2. CASE UNCHANGED <<runFailed, connectionFailed, endpointDown>>
    BY <2>2 DEF LatchInv, LatchIsExact
  <2> QED
    BY <2>1, <2>2, LatchStep
<1>3. LatchInv => LatchIsExact
  BY DEF LatchInv
<1> QED
  BY <1>1, <1>2, <1>3, TypeCorrect, PTL DEF Spec

-----------------------------------------------------------------------------
(* A step belongs to one mage.                                              *)

Step(s) == MageStep(s) \/ Abort(s) \/ DetachedRelease(s)

\* Whatever mage s does, no other mage's locals, slot or pending release change, and
\* condemned lineages stay condemned.
LEMMA OthersUntouched ==
  ASSUME TypeOK, NEW s \in Seat, Step(s), NEW t \in Seat, t # s
  PROVE  /\ pc'[t] = pc[t] /\ current'[t] = current[t] /\ chain'[t] = chain[t]
         /\ failedLineages'[t] = failedLineages[t]
         /\ rotationsDone'[t] = rotationsDone[t]
         /\ result'[t] = result[t]
         /\ t \in DOMAIN active' <=> t \in DOMAIN active
         /\ t \in DOMAIN active => active'[t] = active[t]
         /\ t \in detached' <=> t \in detached
         /\ runFailed \subseteq runFailed'
<1> USE DEF registry, locals, TypeOK, GoTo
<1>1. CASE \E outcome \in Outcome : Attempt(s, outcome)
  <2>1. CASE AttemptSucceeds(s)
    BY <2>1 DEF AttemptSucceeds
  <2>2. CASE AttemptFailsLocally(s)
    BY <2>2 DEF AttemptFailsLocally
  <2>3. ASSUME NEW kind \in {Transport, Connection}, AttemptFailsInTransport(s, kind)
        PROVE  UNCHANGED <<registry, locals, result, detached>> /\ pc'[t] = pc[t]
    BY <2>3 DEF AttemptFailsInTransport
  <2>4. CASE AttemptShowsCrateDefect(s)
    BY <2>4 DEF AttemptShowsCrateDefect
  <2> QED
    BY <1>1, <2>1, <2>2, <2>3, <2>4 DEF Attempt
<1>2. CASE RegisterTransportFailure(s)
  BY <1>2 DEF RegisterTransportFailure
<1>3. CASE ClaimsNext(s)
  BY <1>3 DEF ClaimsNext, Insert
<1>4. CASE FindsNoCandidate(s)
  BY <1>4 DEF FindsNoCandidate
<1>5. CASE ReleaseExhausted(s) \/ ReleaseDefective(s)
  BY <1>5 DEF ReleaseExhausted, ReleaseDefective, Without
<1>6. CASE LatchCrateDefect(s)
  BY <1>6 DEF LatchCrateDefect
<1>7. CASE Panic(s) \/ Abort(s)
  BY <1>7 DEF Panic, Abort, Ends, DropGuard, Without
<1>8. CASE DetachedRelease(s)
  BY <1>8 DEF DetachedRelease, Without
<1> QED
  BY <1>1, <1>2, <1>3, <1>4, <1>5, <1>6, <1>7, <1>8 DEF Step, MageStep

-----------------------------------------------------------------------------
(* Slots.                                                                   *)

\* The inductive form of SlotFollowsMage, for one mage: a task has ended exactly when it
\* has a result, and a mage about to latch a defect has already given its slot back.
SlotOf(s) ==
  /\ s \in DOMAIN active => active[s] = current[s]
  /\ pc[s] \notin {"latch", "done"} => s \in DOMAIN active /\ s \notin detached
  /\ result[s] = "ok" => s \in DOMAIN active /\ s \notin detached
  /\ result[s] \in {"failed", "panicked", "aborted"} => s \notin DOMAIN active \/ s \in detached
  /\ pc[s] = "done" <=> result[s] # "pending"
  /\ pc[s] = "latch" => s \notin DOMAIN active /\ s \notin detached

SlotInv == \A s \in Seat : SlotOf(s)

\* The registry follows the mages: a mage at work holds what it runs, a verdict keeps its
\* slot, every other end gives it back.
THEOREM SlotsAreSound == Spec => []SlotFollowsMage
<1>1. Init => SlotInv
  <2> SUFFICES ASSUME Init, NEW s \in Seat PROVE SlotOf(s)
    BY DEF SlotInv
  <2>1. DOMAIN active = Seat /\ active[s] = current[s] /\ detached = {}
    BY RotationAssumption DEF Init
  <2>2. pc[s] = "attempt" /\ result[s] = "pending"
    BY DEF Init
  <2> QED
    BY <2>1, <2>2 DEF SlotOf
<1>2. TypeOK /\ SlotInv /\ [Next]_vars => SlotInv'
  <2> SUFFICES ASSUME TypeOK, SlotInv, [Next]_vars PROVE SlotInv'
    OBVIOUS
  <2>1. ASSUME NEW s \in Seat, Step(s) PROVE SlotInv'
    <3>1. ASSUME NEW t \in Seat, t # s PROVE SlotOf(t)'
      BY <2>1, <3>1, OthersUntouched DEF SlotInv, SlotOf
    <3>2. SlotOf(s)'
      <4> USE DEF SlotOf, registry, locals, GoTo, TypeOK
      <4>0. SlotOf(s)
        BY DEF SlotInv
      <4>1. CASE \E outcome \in Outcome : Attempt(s, outcome)
        <5>1. CASE AttemptSucceeds(s)
          BY <4>0, <5>1 DEF AttemptSucceeds
        <5>2. CASE AttemptFailsLocally(s)
          BY <4>0, <5>2 DEF AttemptFailsLocally
        <5>3. ASSUME NEW kind \in {Transport, Connection}, AttemptFailsInTransport(s, kind)
              PROVE  SlotOf(s)'
          BY <4>0, <5>3 DEF AttemptFailsInTransport
        <5>4. CASE AttemptShowsCrateDefect(s)
          BY <4>0, <5>4 DEF AttemptShowsCrateDefect
        <5> QED
          BY <4>1, <5>1, <5>2, <5>3, <5>4 DEF Attempt
      <4>2. CASE RegisterTransportFailure(s)
        BY <4>0, <4>2 DEF RegisterTransportFailure
      <4>3. CASE ClaimsNext(s)
        BY <4>0, <4>3 DEF ClaimsNext, Insert
      <4>4. CASE FindsNoCandidate(s)
        BY <4>0, <4>4 DEF FindsNoCandidate
      <4>5. CASE ReleaseExhausted(s) \/ ReleaseDefective(s)
        BY <4>0, <4>5 DEF ReleaseExhausted, ReleaseDefective, Without
      <4>6. CASE LatchCrateDefect(s)
        BY <4>0, <4>6 DEF LatchCrateDefect
      <4>7. CASE Panic(s) \/ Abort(s)
        BY <4>0, <4>7 DEF Panic, Abort, Ends, DropGuard, Without
      <4>8. CASE DetachedRelease(s)
        BY <4>0, <4>8 DEF DetachedRelease, Without
      <4> QED
        BY <2>1, <4>1, <4>2, <4>3, <4>4, <4>5, <4>6, <4>7, <4>8 DEF Step, MageStep
    <3> QED
      BY <3>1, <3>2 DEF SlotInv
  <2>2. CASE UNCHANGED vars
    BY <2>2 DEF SlotInv, SlotOf, vars, registry, locals
  <2> QED
    BY <2>1, <2>2 DEF Next, Step
<1>3. TypeOK /\ SlotInv => SlotFollowsMage
  BY DEF SlotInv, SlotOf, SlotFollowsMage, TypeOK
<1> QED
  BY <1>1, <1>2, <1>3, TypeCorrect, PTL DEF Spec

-----------------------------------------------------------------------------
(* Chains.                                                                  *)

\* Lineages mage s may never take again.
Barred(s) == failedLineages[s] \cup runFailed

\* The inductive form of NeverReturns, for one mage: whatever it left is barred to it, and
\* what it runs is barred by the time it asks for the next.
ChainOf(s) ==
  /\ Len(chain[s]) = rotationsDone[s]
  /\ rotationsDone[s] <= MaxRotations
  /\ current[s].lineage = IF chain[s] = <<>> THEN Primary[s].lineage
                                             ELSE chain[s][Len(chain[s])].to
  /\ \A i \in 1 .. Len(chain[s]) :
       /\ chain[s][i].from = IF i = 1 THEN Primary[s].lineage ELSE chain[s][i - 1].to
       /\ chain[s][i].from \in Barred(s)
       /\ \A j \in i .. Len(chain[s]) : chain[s][j].to # chain[s][i].from
  /\ pc[s] = "claim" => current[s].lineage \in Barred(s)

ChainInv == \A s \in Seat : ChainOf(s)

\* A chain nobody extends stays sound while more lineages are barred.
LEMMA ChainFrame ==
  ASSUME NEW t \in Seat, ChainOf(t),
         chain'[t] = chain[t], current'[t] = current[t],
         rotationsDone'[t] = rotationsDone[t],
         Barred(t) \subseteq Barred(t)',
         pc'[t] = "claim" => current[t].lineage \in Barred(t)'
  PROVE  ChainOf(t)'
BY DEF ChainOf

\* A claim takes a lineage the mage is not barred from, so the longer chain is sound.
LEMMA ChainGrows ==
  ASSUME TypeOK, NEW s \in Seat, ChainOf(s), ClaimsNext(s)
  PROVE  ChainOf(s)'
<1> DEFINE next == Pool[FirstOf(Claimable(s))]
           event == [from |-> current[s].lineage, to |-> next.lineage, kind |-> cause[s]]
           n == Len(chain[s])
<1>1. /\ FirstOf(Claimable(s)) \in Claimable(s)
      /\ next \in Entry
  BY ClaimIsClaimable DEF ClaimsNext
<1>2. next.lineage \notin Barred(s) /\ rotationsDone[s] < MaxRotations
  BY <1>1 DEF Claimable, Proposable, Admits, Barred
<1>3. /\ chain'[s] = Append(chain[s], event)
      /\ current'[s] = next
      /\ rotationsDone'[s] = rotationsDone[s] + 1
      /\ Barred(s)' = Barred(s)
      /\ pc[s] = "claim" /\ pc'[s] = "attempt"
  BY DEF ClaimsNext, TypeOK, GoTo, Barred
<1>4. event \in Event
  BY <1>1 DEF TypeOK, Event, Entry
<1>5. /\ chain[s] \in Seq(Event) /\ n \in Nat
      /\ Len(chain'[s]) = n + 1
      /\ \A i \in 1 .. n : chain'[s][i] = chain[s][i]
      /\ chain'[s][n + 1] = event
      /\ chain'[s] # <<>>
  <2>1. chain[s] \in Seq(Event) /\ n \in Nat
    BY DEF TypeOK
  <2>2. /\ Len(chain'[s]) = n + 1
        /\ \A i \in 1 .. n : chain'[s][i] = chain[s][i]
        /\ chain'[s][n + 1] = event
    BY <1>3, <1>4, <2>1
  <2> QED
    BY <2>1, <2>2
<1>6. event.from = current[s].lineage /\ event.to = next.lineage
  OBVIOUS
<1>7. current[s].lineage \in Barred(s)
  BY <1>3 DEF ChainOf
<1>8. Len(chain'[s]) = rotationsDone'[s] /\ rotationsDone'[s] <= MaxRotations
  BY <1>2, <1>3, <1>5, RotationAssumption DEF ChainOf, TypeOK
<1>9. current'[s].lineage = chain'[s][Len(chain'[s])].to
  BY <1>3, <1>5, <1>6
<1>10. ASSUME NEW i \in 1 .. Len(chain'[s])
       PROVE  /\ chain'[s][i].from = IF i = 1 THEN Primary[s].lineage ELSE chain'[s][i - 1].to
              /\ chain'[s][i].from \in Barred(s)'
              /\ \A j \in i .. Len(chain'[s]) : chain'[s][j].to # chain'[s][i].from
  <2>1. CASE i \in 1 .. n
    <3>1. /\ chain[s][i].from = IF i = 1 THEN Primary[s].lineage ELSE chain[s][i - 1].to
          /\ chain[s][i].from \in Barred(s)
          /\ \A j \in i .. n : chain[s][j].to # chain[s][i].from
      BY <2>1 DEF ChainOf
    <3>2. chain'[s][i] = chain[s][i]
      BY <2>1, <1>5
    <3>3. i # 1 => chain'[s][i - 1] = chain[s][i - 1]
      BY <2>1, <1>5
    <3>4. ASSUME NEW j \in i .. Len(chain'[s]) PROVE chain'[s][j].to # chain'[s][i].from
      <4>1. CASE j = n + 1
        BY <4>1, <1>2, <1>5, <1>6, <3>1, <3>2
      <4>2. CASE j # n + 1
        <5>1. j \in i .. n /\ j \in 1 .. n
          BY <4>2, <1>5, <2>1
        <5> QED
          BY <5>1, <1>5, <3>1, <3>2
      <4> QED
        BY <4>1, <4>2
    <3> QED
      BY <3>1, <3>2, <3>3, <3>4, <1>3
  <2>2. CASE i = n + 1
    <3>1. chain'[s][i].from = current[s].lineage /\ chain'[s][i].to = next.lineage
      BY <2>2, <1>5, <1>6
    <3>2. current[s].lineage = IF i = 1 THEN Primary[s].lineage ELSE chain'[s][i - 1].to
      <4>1. n = 0 <=> chain[s] = <<>>
        BY <1>5
      <4>2. n # 0 => chain'[s][n] = chain[s][n]
        BY <1>5
      <4>3. current[s].lineage = IF n = 0 THEN Primary[s].lineage ELSE chain[s][n].to
        BY <4>1 DEF ChainOf
      <4>4. i - 1 = n /\ (i = 1 <=> n = 0)
        BY <2>2, <1>5
      <4> QED
        BY <4>2, <4>3, <4>4
    <3>3. \A j \in i .. Len(chain'[s]) : j = i
      BY <2>2, <1>5
    <3> QED
      BY <3>1, <3>2, <3>3, <1>2, <1>3, <1>7
  <2> QED
    BY <2>1, <2>2, <1>5
<1> QED
  BY <1>3, <1>5, <1>8, <1>9, <1>10 DEF ChainOf

\* A mage walks a chain of hops from its primary, within the cap, and never comes back to
\* a lineage it left.
THEOREM NobodyReturns == Spec => []NeverReturns
<1>1. Init => ChainInv
  <2> SUFFICES ASSUME Init, NEW s \in Seat PROVE ChainOf(s)
    BY DEF ChainInv
  <2>1. /\ chain[s] = <<>> /\ Len(chain[s]) = 0 /\ rotationsDone[s] = 0
        /\ current[s] = Primary[s] /\ pc[s] = "attempt"
    BY DEF Init
  <2> QED
    BY <2>1, RotationAssumption DEF ChainOf
<1>2. TypeOK /\ ChainInv /\ [Next]_vars => ChainInv'
  <2> SUFFICES ASSUME TypeOK, ChainInv, [Next]_vars PROVE ChainInv'
    OBVIOUS
  <2>1. ASSUME NEW s \in Seat, Step(s) PROVE ChainInv'
    <3>1. ASSUME NEW t \in Seat, t # s PROVE ChainOf(t)'
      <4>1. ChainOf(t)
        BY DEF ChainInv
      <4>2. /\ chain'[t] = chain[t] /\ current'[t] = current[t] /\ pc'[t] = pc[t]
            /\ rotationsDone'[t] = rotationsDone[t]
            /\ failedLineages'[t] = failedLineages[t] /\ runFailed \subseteq runFailed'
        BY <2>1, <3>1, OthersUntouched
      <4>3. Barred(t) \subseteq Barred(t)'
        BY <4>2 DEF Barred
      <4>4. pc'[t] = "claim" => current[t].lineage \in Barred(t)'
        BY <4>1, <4>2, <4>3 DEF ChainOf
      <4> QED
        BY <4>1, <4>2, <4>3, <4>4, ChainFrame
    <3>2. ChainOf(s)'
      <4>0. ChainOf(s)
        BY DEF ChainInv
      <4>1. CASE ClaimsNext(s)
        BY <4>0, <4>1, ChainGrows
      <4>2. CASE ~ClaimsNext(s)
        <5>1. /\ chain'[s] = chain[s] /\ current'[s] = current[s]
              /\ rotationsDone'[s] = rotationsDone[s]
              /\ Barred(s) \subseteq Barred(s)'
              /\ pc'[s] = "claim" => \/ pc[s] = "claim"
                                     \/ current[s].lineage \in Barred(s)'
          <6> USE DEF registry, locals, GoTo, TypeOK, Barred
          <6>1. CASE \E outcome \in Outcome : Attempt(s, outcome)
            BY <6>1 DEF Attempt, AttemptSucceeds, AttemptFailsLocally,
                        AttemptFailsInTransport, AttemptShowsCrateDefect
          <6>2. CASE RegisterTransportFailure(s)
            BY <6>2 DEF RegisterTransportFailure
          <6>3. CASE FindsNoCandidate(s)
            BY <6>3 DEF FindsNoCandidate
          <6>4. CASE ReleaseExhausted(s) \/ ReleaseDefective(s) \/ LatchCrateDefect(s)
            BY <6>4 DEF ReleaseExhausted, ReleaseDefective, LatchCrateDefect
          <6>5. CASE Panic(s) \/ Abort(s)
            BY <6>5 DEF Panic, Abort, Ends
          <6>6. CASE DetachedRelease(s)
            BY <6>6 DEF DetachedRelease
          <6> QED
            BY <2>1, <4>2, <6>1, <6>2, <6>3, <6>4, <6>5, <6>6 DEF Step, MageStep
        <5>2. pc'[s] = "claim" => current[s].lineage \in Barred(s)'
          BY <4>0, <5>1 DEF ChainOf
        <5> QED
          BY <4>0, <5>1, <5>2, ChainFrame
      <4> QED
        BY <4>1, <4>2
    <3> QED
      BY <3>1, <3>2 DEF ChainInv
  <2>2. CASE UNCHANGED vars
    BY <2>2 DEF ChainInv, ChainOf, Barred, vars, registry, locals
  <2> QED
    BY <2>1, <2>2 DEF Next, Step
<1>3. TypeOK /\ ChainInv => NeverReturns
  <2> SUFFICES ASSUME TypeOK, ChainInv PROVE NeverReturns
    OBVIOUS
  <2>1. \A s \in Seat : DOMAIN chain[s] = 1 .. Len(chain[s])
    BY DEF TypeOK
  <2> QED
    BY <2>1 DEF ChainInv, ChainOf, NeverReturns
<1> QED
  BY <1>1, <1>2, <1>3, TypeCorrect, PTL DEF Spec

\* A mage changes what it runs by a claim and by nothing else.
LEMMA CurrentStep ==
  ASSUME TypeOK, NEW s \in Seat, Step(s), ~ClaimsNext(s)
  PROVE  current' = current
<1> USE DEF registry, locals
<1>1. CASE \E outcome \in Outcome : Attempt(s, outcome)
  BY <1>1 DEF Attempt, AttemptSucceeds, AttemptFailsLocally,
              AttemptFailsInTransport, AttemptShowsCrateDefect
<1>2. CASE RegisterTransportFailure(s) \/ FindsNoCandidate(s)
  BY <1>2 DEF RegisterTransportFailure, FindsNoCandidate
<1>3. CASE ReleaseExhausted(s) \/ ReleaseDefective(s) \/ LatchCrateDefect(s)
  BY <1>3 DEF ReleaseExhausted, ReleaseDefective, LatchCrateDefect
<1>4. CASE Panic(s) \/ Abort(s) \/ DetachedRelease(s)
  BY <1>4 DEF Panic, Abort, Ends, DetachedRelease
<1> QED
  BY <1>1, <1>2, <1>3, <1>4 DEF Step, MageStep

\* No step brings a further mage onto a lineage that is condemned when the step is taken.
THEOREM CondemnedIsAvoided == Spec => NobodyArrivesOnCondemned
<1> DEFINE A == \A l \in runFailed :
                  {s \in Seat : current'[s].lineage = l} \subseteq {s \in Seat : current[s].lineage = l}
<1>1. TypeOK /\ [Next]_vars => [A]_vars
  <2> SUFFICES ASSUME TypeOK, Next, NEW l \in runFailed, NEW t \in Seat,
                      current'[t].lineage = l
               PROVE  current[t].lineage = l
    BY Zenon
  <2>1. PICK s \in Seat : Step(s)
    BY DEF Next, Step
  <2>2. CASE ~ClaimsNext(s)
    BY <2>1, <2>2, CurrentStep
  <2>3. CASE ClaimsNext(s)
    <3>1. CASE t # s
      BY <2>1, <3>1, OthersUntouched
    <3>2. CASE t = s
      <4>1. current'[s] = Pool[FirstOf(Claimable(s))]
        BY <2>3 DEF ClaimsNext, TypeOK
      <4>2. Pool[FirstOf(Claimable(s))].lineage \notin runFailed
        BY <2>3, ClaimIsClaimable DEF ClaimsNext, Claimable, Proposable, Admits
      <4> QED
        BY <3>2, <4>1, <4>2
    <3> QED
      BY <3>1, <3>2
  <2> QED
    BY <2>2, <2>3
<1> QED
  BY <1>1, TypeCorrect, PTL DEF Spec, NobodyArrivesOnCondemned
-----------------------------------------------------------------------------
(* The report made of the pool at dispatch.                                 *)

\* The report is taken of a run of Rotation and never touches it, so what is proved
\* about Rotation holds with the report beside it.
THEOREM ReportWatchesRun == EligibilitySpec => Spec
<1>1. EligibilityInit => Init
  BY DEF EligibilityInit
<1>2. [EligibilityNext]_<<vars, snapshot>> => [Next]_vars
  BY DEF EligibilityNext
<1> QED
  BY <1>1, <1>2, PTL DEF EligibilitySpec, Spec

\* The report restates the window condition of the filter.
LEMMA WindowRestated ==
  ASSUME TypeOK, NEW m \in Model
  PROVE  WindowOk(m) <=> /\ capabilities[m].window # "small"
                         /\ ~(capabilities[m].window = "unmeasured" /\ Strict)
<1>1. capabilities[m].window \in Window
  BY DEF TypeOK, Capability
<1> QED
  BY <1>1 DEF WindowOk, Window

\* For a seat that has used a model, a candidate is without a cause exactly when it is not
\* turned down for its digest, the budget is open and the filter admits it.
LEMMA CauselessIsAdmitted ==
  ASSUME TypeOK, NEW s \in Seat, used[s] # {}, NEW D, NEW c \in Entry
  PROVE  Causes(active, runFailed, Live(s, D), s, c) = {}
           <=> /\ c.model \notin D
               /\ rotationsDone[s] < MaxRotations
               /\ Admits(s, c)
<1> DEFINE causes == Causes(active, runFailed, Live(s, D), s, c)
<1>1. Live(s, D).used # NotStated
  BY DEF Live, NotStated
<1>2. c.model \in Model
  BY DEF Entry
<1>3. causes = {} <=>
        /\ ~(rotationsDone[s] >= MaxRotations)
        /\ ~(\E t \in DOMAIN active \ {s} : active[t].lineage = c.lineage)
        /\ c.lineage \notin failedLineages[s]
        /\ c.lineage \notin runFailed
        /\ c.model \notin used[s]
        /\ c.model \notin D
        /\ capabilities[c.model].window # "small"
        /\ ~(capabilities[c.model].window = "unmeasured" /\ Strict)
  BY <1>1, Zenon DEF Causes, Live, If
<1>4. rotationsDone[s] \in Nat /\ MaxRotations \in Nat
  BY RotationAssumption DEF TypeOK
<1>5. rotationsDone[s] < MaxRotations <=> ~(rotationsDone[s] >= MaxRotations)
  BY <1>4
<1>6. c.lineage \notin LineagesInPlay(s)
        <=> ~(\E t \in DOMAIN active \ {s} : active[t].lineage = c.lineage)
  BY DEF LineagesInPlay, Others
<1> QED
  BY <1>2, <1>3, <1>5, <1>6, WindowRestated DEF Admits

\* A mage has used at least its configured model, and every model it runs.
UsedInv == \A s \in Seat : Primary[s].model \in used[s]

\* used only grows.
LEMMA UsedGrows ==
  ASSUME TypeOK, [Next]_vars
  PROVE  \A t \in Seat : used[t] \subseteq used'[t]
<1> USE DEF registry, locals
<1>1. ASSUME NEW s \in Seat, MageStep(s), ~ClaimsNext(s) PROVE used' = used
  <2>1. CASE \E how \in Outcome : Attempt(s, how)
    BY <2>1 DEF Attempt, AttemptSucceeds, AttemptFailsLocally,
                AttemptFailsInTransport, AttemptShowsCrateDefect
  <2>2. CASE RegisterTransportFailure(s) \/ FindsNoCandidate(s)
    BY <2>2 DEF RegisterTransportFailure, FindsNoCandidate
  <2>3. CASE ReleaseExhausted(s) \/ ReleaseDefective(s) \/ LatchCrateDefect(s)
    BY <2>3 DEF ReleaseExhausted, ReleaseDefective, LatchCrateDefect
  <2>4. CASE Panic(s)
    BY <2>4 DEF Panic, Ends
  <2> QED
    BY <1>1, <2>1, <2>2, <2>3, <2>4 DEF MageStep
<1>2. ASSUME NEW s \in Seat, ClaimsNext(s) PROVE \A t \in Seat : used[t] \subseteq used'[t]
  BY <1>2 DEF ClaimsNext, TypeOK
<1>3. ASSUME NEW s \in Seat, Abort(s) \/ DetachedRelease(s) PROVE used' = used
  BY <1>3 DEF Abort, Ends, DetachedRelease
<1>4. CASE UNCHANGED vars
  BY <1>4 DEF vars
<1> QED
  BY <1>1, <1>2, <1>3, <1>4 DEF Next

\* A mage has always used its configured model.
LEMMA UsedKeepsPrimary == Spec => []UsedInv
<1>1. Init => UsedInv
  BY DEF Init, UsedInv
<1>2. TypeOK /\ UsedInv /\ [Next]_vars => UsedInv'
  BY UsedGrows DEF UsedInv
<1> QED
  BY <1>1, <1>2, TypeCorrect, PTL DEF Spec

\* At any moment of a run, for every seat at work and whatever it turned down for its
\* digest, the snapshot's conditions rule out exactly what the filter of next_model does.
THEOREM SnapshotFollowsFilter == EligibilitySpec => []SnapshotIsTheFilter
<1>1. TypeOK /\ UsedInv => SnapshotIsTheFilter
  <2> SUFFICES ASSUME TypeOK, UsedInv, NEW s \in DOMAIN active,
                      NEW D \in SUBSET {Pool[i].model : i \in DOMAIN Pool}
               PROVE  {i \in DOMAIN Pool : Causes(active, runFailed, Live(s, D), s, Pool[i]) = {}}
                        = {i \in Proposable(s) : Pool[i].model \notin D}
    BY DEF SnapshotIsTheFilter
  <2>1. s \in Seat /\ used[s] # {}
    BY DEF TypeOK, UsedInv
  <2>2. ASSUME NEW i \in DOMAIN Pool
        PROVE  Causes(active, runFailed, Live(s, D), s, Pool[i]) = {}
                 <=> i \in Proposable(s) /\ Pool[i].model \notin D
    <3>1. Pool[i] \in Entry
      BY RotationAssumption
    <3>2. i \in Proposable(s) <=> rotationsDone[s] < MaxRotations /\ Admits(s, Pool[i])
      BY DEF Proposable
    <3> QED
      BY <2>1, <3>1, <3>2, CauselessIsAdmitted
  <2>3. Proposable(s) \subseteq DOMAIN Pool
    BY DEF Proposable
  <2> QED
    BY <2>2, <2>3
<1> QED
  BY <1>1, ReportWatchesRun, TypeCorrect, UsedKeepsPrimary, PTL

\* What was reported still reads as the conditions did at dispatch: a probe is never repeated.
ReportInv ==
  snapshot = [s \in DOMAIN Primary |-> [i \in DOMAIN Pool |->
                Causes(Primary, {}, Fresh, s, Pool[i])]]

\* A mage that leaves the claim for the release found nothing to claim.
LEMMA ReleaseMeansNothingToClaim ==
  ASSUME TypeOK, Next, NEW s \in Seat, pc[s] = "claim", pc'[s] = "release"
  PROVE  Claimable(s) = {}
<1>1. PICK t \in Seat : Step(t)
  BY DEF Next, Step
<1>2. t = s
  BY <1>1, OthersUntouched
<1>3. Step(s)
  BY <1>1, <1>2
<1>4. ~(\E how \in Outcome : Attempt(s, how))
  BY DEF Attempt, AttemptSucceeds, AttemptFailsLocally,
         AttemptFailsInTransport, AttemptShowsCrateDefect, GoTo
<1>5. /\ ~RegisterTransportFailure(s) /\ ~ReleaseExhausted(s) /\ ~ReleaseDefective(s)
      /\ ~LatchCrateDefect(s) /\ ~Panic(s)
  BY DEF RegisterTransportFailure, ReleaseExhausted, ReleaseDefective, LatchCrateDefect,
         Panic, GoTo
<1>6. ~ClaimsNext(s)
  BY DEF ClaimsNext, GoTo, TypeOK
<1>7. ~Abort(s) /\ ~DetachedRelease(s)
  BY DEF Abort, Ends, DetachedRelease, TypeOK
<1>8. FindsNoCandidate(s)
  BY <1>3, <1>4, <1>5, <1>6, <1>7 DEF Step, MageStep
<1> QED
  BY <1>8 DEF FindsNoCandidate

\* A seat loses a candidate the report listed only to what happened since dispatch.
THEOREM EveryLossIsExplained == EligibilitySpec => LossIsExplained
<1> DEFINE A == \A s \in Seat, i \in DOMAIN Pool :
                  (/\ pc[s] = "claim" /\ pc'[s] = "release"
                   /\ rotationsDone[s] < MaxRotations
                   /\ Lasting(snapshot[s][i]) = {} /\ Pool[i].model \notin used[s])
                  => \/ Pool[i].lineage \in LineagesInPlay(s) \cup failedLineages[s] \cup runFailed
                     \/ Collides(s, Pool[i])
<1>1. EligibilityInit => ReportInv
  BY DEF EligibilityInit, ReportInv
<1>2. ReportInv /\ [EligibilityNext]_<<vars, snapshot>> => ReportInv'
  <2> SUFFICES ASSUME ReportInv, [EligibilityNext]_<<vars, snapshot>> PROVE ReportInv'
    OBVIOUS
  <2>1. [Next]_vars /\ snapshot' = snapshot
    BY DEF EligibilityNext
  <2>2. capabilities' = capabilities
    BY <2>1, ActiveStep
  <2> QED
    BY <2>1, <2>2 DEF ReportInv, Causes, Fresh, If
<1>3. TypeOK /\ ReportInv /\ [EligibilityNext]_<<vars, snapshot>> => [A]_vars
  <2> SUFFICES ASSUME TypeOK, ReportInv, Next, NEW s \in Seat, NEW i \in DOMAIN Pool,
                      pc[s] = "claim", pc'[s] = "release",
                      rotationsDone[s] < MaxRotations,
                      Lasting(snapshot[s][i]) = {}, Pool[i].model \notin used[s],
                      Pool[i].lineage \notin LineagesInPlay(s) \cup failedLineages[s] \cup runFailed
               PROVE  Collides(s, Pool[i])
    BY Zenon DEF EligibilityNext
  <2>1. Pool[i].model \in Model
    <3>1. Pool[i] \in Entry
      BY RotationAssumption
    <3> QED
      BY <3>1 DEF Entry
  <2>2. snapshot[s][i] = Causes(Primary, {}, Fresh, s, Pool[i])
    BY RotationAssumption DEF ReportInv
  <2>3. TooSmall \notin snapshot[s][i] /\ Unmeasured \notin snapshot[s][i]
    BY DEF Lasting
  <2>4. /\ capabilities[Pool[i].model].window # "small"
        /\ ~(capabilities[Pool[i].model].window = "unmeasured" /\ Strict)
    BY <2>2, <2>3, Zenon DEF Causes, If
  <2>5. Admits(s, Pool[i])
    BY <2>1, <2>4, WindowRestated DEF Admits
  <2>6. i \in Proposable(s)
    BY <2>5 DEF Proposable
  <2> QED
    BY <2>6, ReleaseMeansNothingToClaim DEF Claimable
<1> QED
  BY <1>1, <1>2, <1>3, ReportWatchesRun, TypeCorrect, PTL DEF EligibilitySpec, LossIsExplained
===============================================================================
