----------------------------- MODULE HarnessProofs -----------------------------
(***************************************************************************)
(* Proofs about the smoke harness, for every trio, chain, plan and rule:   *)
(* a window of a healthy proxy lacks nothing the crate was told, so no row *)
(* is red over a crate that was told what the row is about, and a failure  *)
(* of the proxy's making reaches only those it was meant for.              *)
(*                                                                         *)
(* The argument follows one request. `Pending` is what holds of the one a  *)
(* seat waits for: its handler read the rule of this run, its record is    *)
(* pushed before its answer leaves, and a cut has its place in the budget. *)
(* Requests left behind by an earlier attempt are told apart by their id.  *)
(***************************************************************************)
EXTENDS Harness, FiniteSetTheorems, SequenceTheorems, TLAPS

Stages   == {"accepted", "forwarding", "answered", "replied"}
Paths    == {"probe", "completion"}
Ids      == [turn : Nat, attempt : {1, 2}, seat : Seat, hop : Nat]
Replies  == Status \cup {Cut}
Rules    == Run \cup {NoRun}

Event    == [path : Paths, model : Model, status : Nat, by : Rules]
Record   == [id : Ids, path : Paths, status : Replies]
Request  == [id : Ids, client : BOOLEAN, model : Model, path : Paths,
             stage : Stages, reply : Replies, by : Rules]
Outcome  == {"none", "complete", "timed_out", "cannot_test", "panicked"}
Result   == [outcome : Outcome, report : BOOLEAN, error : BOOLEAN,
             records : SUBSET Record, degraded : BOOLEAN]

ProxyTypes ==
  /\ injection \in Rules
  /\ dropped \in [Run -> [Model -> Nat]]
  /\ registry \subseteq Record
  /\ degraded \in BOOLEAN
  /\ failures \in Nat
  /\ flight \subseteq Request

RunnerTypes ==
  /\ plan \in Seq(Run) /\ turn \in Nat \ {0} /\ attempt \in {1, 2}
  /\ pc \in {"arm", "start", "running", "returned", "collected", "attempted", "concluded"}
  /\ result \in Result

\* A seat never failed more often than its chain is long.
HeardTypes ==
  /\ heard \in [Seat -> Seq(Event)]
  /\ \A s \in Seat : IsFiniteSet(Failed(s)) /\ Cardinality(Failed(s)) <= Len(ChainOf[s])

-----------------------------------------------------------------------------
\* The rule in force is that of the run that is executed.
RuleInForce ==
  /\ pc # "arm" => turn <= Len(plan)
  /\ injection = IF pc \in {"arm", "concluded"} THEN NoRun ELSE Current

\* Whoever could not be accepted left the latch set.
LatchInv == failures > 0 => degraded

\* A drop rule cuts no more connections of a model than its budget.
Limited(r) == RuleOf[r].kind = "drop" /\ RuleOf[r].budget # Always
BudgetInv == \A r \in Run, m \in Model : Limited(r) => dropped[r][m] <= RuleOf[r].budget

\* A request of this attempt came after the attempt began, and no later than the one its
\* seat is at.
OfThisAttempt(q) == q.id.turn = turn /\ q.id.attempt = attempt
FlightIds ==
  \A q \in flight :
    /\ q.id.turn <= turn
    /\ q.id.turn = turn => q.id.attempt <= attempt
    /\ OfThisAttempt(q) => pc \notin {"arm", "start"}
    /\ OfThisAttempt(q) /\ pc = "running" => q.id.hop <= Len(heard[q.id.seat]) + 1

\* The requests the rule of this run is about.
Named(path, model) ==
  /\ path = "completion"
  /\ RuleOf[Current].kind # "none"
  /\ model \in RuleOf[Current].models

\* The failures of the proxy's making that a seat was told, of one model.
Made(s, m) == {i \in 1 .. Len(heard[s]) : heard[s][i].by # NoRun /\ heard[s][i].model = m}

Recorded(id, path, status) == [id |-> id, path |-> path, status |-> status]

\* What holds of the request that seat s waits for.
Pending(q, s) ==
  /\ ~Settled(s)
  /\ q.path = Path(s) /\ q.model = Asked(s)
  /\ q.by # NoRun => q.by = Current /\ Named(q.path, q.model)
  /\ q.by # NoRun /\ Limited(Current) =>
       Cardinality(Made(s, q.model)) < dropped[Current][q.model]
  /\ q.stage = "replied" /\ q.reply \in Status /\ ~degraded =>
       Recorded(q.id, q.path, q.reply) \in registry
  /\ RuleOf[Current].kind = "fail" /\ Named(q.path, q.model) /\ ~degraded =>
       q.stage # "forwarding" /\ (q.stage # "accepted" => q.reply = 500)

PendingInv ==
  pc = "running" => \A q \in flight, s \in Seat : q.id = Id(s) => Pending(q, s)

\* What was made came from this run's rule, within its budget.
MadeInv ==
  pc # "arm" =>
    \A s \in Seat :
      /\ \A i \in 1 .. Len(heard[s]) : heard[s][i].by # NoRun =>
           heard[s][i].by = Current /\ Named(heard[s][i].path, heard[s][i].model)
      /\ \A m \in Model : Limited(Current) => Cardinality(Made(s, m)) <= dropped[Current][m]

\* A window in the making is the registry; once collected it is the result's.
Window == IF pc \in {"running", "returned"} THEN registry ELSE result.records
Clean ==
  \/ pc \in {"running", "returned", "collected"} /\ ~degraded
  \/ pc \in {"attempted", "concluded"} /\ result.outcome = "complete" /\ ~result.degraded

Hop(s, i) == [turn |-> turn, attempt |-> attempt, seat |-> s, hop |-> i]

\* A clean window has every status the crate was told, and the injected one whenever the
\* rule should have injected it.
WindowInv ==
  Clean =>
    \A s \in Seat, i \in Nat : i \in 1 .. Len(heard[s]) =>
      /\ heard[s][i].status \in Status =>
           Recorded(Hop(s, i), heard[s][i].path, heard[s][i].status) \in Window
      /\ RuleOf[Current].kind = "fail" /\ Named(heard[s][i].path, heard[s][i].model) =>
           heard[s][i].status = 500

\* A seat that was heard of a completion asked its primary first.
PrimaryInv ==
  \A s \in Seat :
    (\E h \in Heard(s) : h.path = "completion") =>
      \E h \in Heard(s) : h.path = "completion" /\ h.model = ChainOf[s][1]

\* An attempt with a report is complete, has a verdict and waits for no seat; one that is
\* not complete has no window.
ReportInv ==
  /\ pc \in {"returned", "collected"} => result.outcome = "complete"
  /\ result.outcome # "complete" => result.records = {}
  /\ result.report =>
       /\ pc \in {"returned", "collected", "attempted", "concluded"}
       /\ result.outcome = "complete"
       /\ \A s \in Seat : Settled(s)
       /\ \E s \in Seat : Verdict(s)

StartsEmpty == pc = "arm" => \A s \in Seat : heard[s] = <<>>

HarnessInv ==
  /\ ProxyTypes /\ RunnerTypes /\ HeardTypes
  /\ RuleInForce /\ LatchInv /\ BudgetInv /\ FlightIds /\ PendingInv
  /\ MadeInv /\ WindowInv /\ PrimaryInv /\ ReportInv /\ StartsEmpty

-----------------------------------------------------------------------------
(* Facts about the constants and the operators.                             *)

LEMMA Constants ==
  /\ IsFiniteSet(Seat) /\ NoRun \notin Run
  /\ MaxAcceptFailures \in Nat /\ MaxAcceptFailures > 0
  /\ Status \subseteq Nat /\ 500 \in Status /\ 502 \in Status /\ Backend \subseteq Status
  /\ Cut \notin Status /\ Late \notin Status /\ Cut \in Nat /\ Late \in Nat
BY HarnessAssumption, ProxyAssumption DEF Status, Cut, Late

LEMMA Chains ==
  ASSUME NEW s \in Seat
  PROVE  /\ ChainOf[s] \in Seq(Model) /\ Len(ChainOf[s]) \in Nat /\ Len(ChainOf[s]) > 0
         /\ \A k \in 1 .. Len(ChainOf[s]) : ChainOf[s][k] \in Model
<1>1. ChainOf[s] \in Seq(Model) /\ ChainOf[s] # <<>>
  BY HarnessAssumption
<1> QED
  BY <1>1

LEMMA RuleKinds ==
  ASSUME NEW r \in Run
  PROVE  /\ RuleOf[r] \in Rule
         /\ RuleOf[r].kind \in {"none", "fail", "drop"}
         /\ RuleOf[r].kind # "none" => RuleOf[r].models \subseteq Model
         /\ Limited(r) => RuleOf[r].budget \in Nat
<1>1. RuleOf[r] \in Rule
  BY ProxyAssumption
<1> QED
  BY <1>1 DEF Rule, Limited

\* The rule that is in force, once there is one.
LEMMA CurrentRun ==
  ASSUME RunnerTypes, RuleInForce, pc # "arm"
  PROVE  Current \in Run
<1>1. turn \in 1 .. Len(plan) /\ plan \in Seq(Run)
  BY DEF RunnerTypes, RuleInForce
<1> QED
  BY <1>1 DEF Current

LEMMA MadeIsFinite ==
  ASSUME HeardTypes, NEW s \in Seat, NEW m
  PROVE  IsFiniteSet(Made(s, m)) /\ Cardinality(Made(s, m)) \in Nat
<1>1. heard[s] \in Seq(Event)
  BY DEF HeardTypes
<1>2. Len(heard[s]) \in Int /\ 1 \in Int
  BY <1>1
<1>3. IsFiniteSet(1 .. Len(heard[s]))
  BY <1>2, FS_Interval
<1>4. Made(s, m) \subseteq 1 .. Len(heard[s])
  BY DEF Made
<1> QED
  BY <1>3, <1>4, FS_Subset, FS_CardinalityType

LEMMA HeardOf ==
  ASSUME NEW s \in Seat
  PROVE  Heard(s) = {heard[s][i] : i \in DOMAIN heard[s]}
BY DEF Heard, ToSet

\* What the client is at depends on what it heard and nothing else.
LEMMA SameHeard ==
  ASSUME heard' = heard
  PROVE  /\ \A s : Heard(s)' = Heard(s) /\ Failed(s)' = Failed(s)
         /\ \A s : Verdict(s)' <=> Verdict(s)
         /\ \A s : Settled(s)' <=> Settled(s)
         /\ \A s : Path(s)' = Path(s) /\ Asked(s)' = Asked(s)
         /\ \A s, m : Made(s, m)' = Made(s, m)
<1>1. \A s : Heard(s)' = Heard(s) /\ Failed(s)' = Failed(s)
  BY DEF Heard, Failed, ToSet
<1>2. \A s : Verdict(s)' <=> Verdict(s)
  BY <1>1 DEF Verdict
<1>3. \A s : Settled(s)' <=> Settled(s)
  BY <1>1, <1>2 DEF Settled
<1>4. \A s : Path(s)' = Path(s) /\ Asked(s)' = Asked(s)
  BY <1>1 DEF Path, Probing, Asked
<1>5. \A s, m : Made(s, m)' = Made(s, m)
  BY DEF Made
<1> QED
  BY <1>1, <1>2, <1>3, <1>4, <1>5

-----------------------------------------------------------------------------
(* A seat hears of a request: what its history gains.                       *)

LEMMA HistoryGrows ==
  ASSUME HeardTypes, NEW s \in Seat, ~Settled(s),
         NEW status \in Nat, NEW by \in Rules, Comes(s, status, by)
  PROVE  LET h == [path |-> Path(s), model |-> Asked(s), status |-> status, by |-> by]
             n == Len(heard[s]) + 1
         IN  /\ h \in Event /\ HeardTypes'
             /\ n \in Nat /\ Len(heard[s]) \in Nat
             /\ Len(heard'[s]) = n /\ heard'[s][n] = h
             /\ \A i \in 1 .. Len(heard[s]) : heard'[s][i] = heard[s][i]
             /\ \A t \in Seat : t # s => heard'[t] = heard[t]
             /\ Heard(s)' = Heard(s) \cup {h}
<1> DEFINE h == [path |-> Path(s), model |-> Asked(s), status |-> status, by |-> by]
           n == Len(heard[s]) + 1
<1>1. heard[s] \in Seq(Event) /\ IsFiniteSet(Failed(s))
      /\ Cardinality(Failed(s)) <= Len(ChainOf[s])
  BY DEF HeardTypes
<1>2. Cardinality(Failed(s)) \in Nat
  BY <1>1, FS_CardinalityType
<1>3. Cardinality(Failed(s)) + 1 \in 1 .. Len(ChainOf[s])
  BY <1>1, <1>2, Chains DEF Settled
<1>4. h \in Event
  <2>1. Asked(s) \in Model
    BY <1>3, Chains DEF Asked
  <2>2. Path(s) \in Paths
    BY DEF Path, Paths
  <2> QED
    BY <2>1, <2>2 DEF Event
<1>5. heard' = [heard EXCEPT ![s] = Append(heard[s], h)]
  BY DEF Comes
<1> HIDE DEF h
<1>6. heard'[s] = Append(heard[s], h) /\ \A t \in Seat : t # s => heard'[t] = heard[t]
  BY <1>5 DEF HeardTypes
<1>7. /\ Append(heard[s], h) \in Seq(Event) /\ Len(heard[s]) \in Nat
      /\ DOMAIN heard[s] = 1 .. Len(heard[s])
      /\ Len(Append(heard[s], h)) = n /\ Append(heard[s], h)[n] = h
      /\ \A i \in 1 .. Len(heard[s]) : Append(heard[s], h)[i] = heard[s][i]
  BY <1>1, <1>4
<1>8. DOMAIN Append(heard[s], h) = 1 .. n
  BY <1>7
<1>9. Heard(s)' = Heard(s) \cup {h}
  <2>1. Heard(s)' = {heard'[s][i] : i \in DOMAIN heard'[s]}
    BY DEF Heard, ToSet
  <2>2. Heard(s) = {heard[s][i] : i \in DOMAIN heard[s]}
    BY HeardOf
  <2> QED
    BY <2>1, <2>2, <1>6, <1>7, <1>8
<1>10. \A t \in Seat : t # s => Heard(t)' = Heard(t)
  BY <1>6 DEF Heard, ToSet
<1>11. HeardTypes'
  <2>1. heard' \in [Seat -> Seq(Event)]
    BY <1>5, <1>7 DEF HeardTypes
  <2>2. ASSUME NEW t \in Seat
        PROVE  IsFiniteSet(Failed(t)') /\ Cardinality(Failed(t)') <= Len(ChainOf[t])
    <3>1. CASE t # s
      <4>1. Failed(t)' = Failed(t)
        BY <3>1, <1>10 DEF Failed
      <4> QED
        BY <4>1 DEF HeardTypes
    <3>2. CASE t = s
      <4>1. Failed(s)' = Failed(s) \/ Failed(s)' = Failed(s) \cup {h}
        BY <1>9 DEF Failed
      <4>2. /\ IsFiniteSet(Failed(s) \cup {h})
            /\ Cardinality(Failed(s) \cup {h}) \in {Cardinality(Failed(s)), Cardinality(Failed(s)) + 1}
        BY <1>1, <1>2, FS_AddElement
      <4>3. Len(ChainOf[s]) \in Nat /\ Cardinality(Failed(s)) + 1 <= Len(ChainOf[s])
        BY <1>3, Chains
      <4>4. IsFiniteSet(Failed(s)') /\ Cardinality(Failed(s)') <= Len(ChainOf[s])
        <5>1. CASE Failed(s)' = Failed(s)
          BY <5>1, <1>1
        <5>2. CASE Failed(s)' = Failed(s) \cup {h}
          <6>1. Cardinality(Failed(s)') <= Cardinality(Failed(s)) + 1
            BY <5>2, <4>2, <1>2
          <6>2. Cardinality(Failed(s)') \in Nat
            BY <5>2, <4>2, FS_CardinalityType
          <6> QED
            BY <5>2, <4>2, <4>3, <6>1, <6>2, <1>2
        <5> QED
          BY <4>1, <5>1, <5>2
      <4> QED
        BY <3>2, <4>4
    <3> QED
      BY <3>1, <3>2
  <2> QED
    BY <2>1, <2>2 DEF HeardTypes
<1> QED
  BY <1>4, <1>6, <1>7, <1>9, <1>11 DEF h

-----------------------------------------------------------------------------
(* A step of the proxy. Requests move, the registry and the counters grow,  *)
(* the latch is never cleared.                                              *)

Ages ==
  /\ injection' = injection
  /\ degraded => degraded'
  /\ registry \subseteq registry'
  /\ \A r \in Run, m \in Model : dropped[r][m] <= dropped'[r][m]

\* What a seat waits for is no worse off when the proxy moves on without it.
LEMMA WaitingIsStable ==
  ASSUME RunnerTypes, HeardTypes, RuleInForce, ProxyTypes, ProxyTypes', Ages,
         UNCHANGED runnerVars, pc # "arm", NEW s \in Seat, NEW q \in Request, Pending(q, s)
  PROVE  Pending(q, s)'
<1>1. UNCHANGED <<plan, turn, pc, attempt, heard, result>> /\ Current' = Current
  BY DEF runnerVars, Current
<1>2. /\ Settled(s)' <=> Settled(s)
      /\ Path(s)' = Path(s) /\ Asked(s)' = Asked(s)
      /\ \A m : Made(s, m)' = Made(s, m)
  BY <1>1, SameHeard
<1>3. \A path, model : Named(path, model)' <=> Named(path, model)
  BY <1>1 DEF Named
<1>4. Current \in Run
  BY CurrentRun
<1>5. q.by # NoRun /\ Limited(Current) =>
        Cardinality(Made(s, q.model)) < dropped'[Current][q.model]
  <2> SUFFICES ASSUME q.by # NoRun, Limited(Current)
               PROVE  Cardinality(Made(s, q.model)) < dropped'[Current][q.model]
    OBVIOUS
  <2>1. q.model \in Model
    BY DEF Request
  <2>2. dropped[Current][q.model] \in Nat /\ dropped'[Current][q.model] \in Nat
    BY <1>4, <2>1 DEF ProxyTypes
  <2>3. dropped[Current][q.model] <= dropped'[Current][q.model]
    BY <1>4, <2>1 DEF Ages
  <2>5. Cardinality(Made(s, q.model)) < dropped[Current][q.model]
    BY DEF Pending
  <2>6. Cardinality(Made(s, q.model)) \in Nat
    BY MadeIsFinite
  <2> QED
    BY <2>2, <2>3, <2>5, <2>6
<1> QED
  BY <1>1, <1>2, <1>3, <1>5 DEF Pending, Ages

\* The rest of the invariant is untouched by a step of the proxy that only adds.
LEMMA AgingKeeps ==
  ASSUME HarnessInv, ProxyTypes', Ages, UNCHANGED runnerVars
  PROVE  /\ RunnerTypes' /\ HeardTypes' /\ RuleInForce' /\ MadeInv' /\ WindowInv'
         /\ PrimaryInv' /\ ReportInv' /\ StartsEmpty'
<1> USE DEF HarnessInv
<1>1. UNCHANGED <<plan, turn, pc, attempt, heard, result>> /\ Current' = Current
  BY DEF runnerVars, Current
<1>2. /\ \A s : Settled(s)' <=> Settled(s)
      /\ \A s : Verdict(s)' <=> Verdict(s)
      /\ \A s : Failed(s)' = Failed(s) /\ Heard(s)' = Heard(s)
      /\ \A s, m : Made(s, m)' = Made(s, m)
  BY <1>1, SameHeard
<1>3. \A path, model : Named(path, model)' <=> Named(path, model)
  BY <1>1 DEF Named
<1>4. RunnerTypes' /\ HeardTypes' /\ StartsEmpty'
  BY <1>1, <1>2 DEF RunnerTypes, HeardTypes, StartsEmpty
<1>5. RuleInForce'
  BY <1>1 DEF RuleInForce, Ages
<1>6. MadeInv'
  <2> SUFFICES ASSUME pc # "arm", NEW s \in Seat
      PROVE /\ \A i \in 1 .. Len(heard[s]) : heard[s][i].by # NoRun =>
                 heard[s][i].by = Current /\ Named(heard[s][i].path, heard[s][i].model)
            /\ \A m \in Model :
                 Limited(Current) => Cardinality(Made(s, m)) <= dropped'[Current][m]
    BY <1>1, <1>2, <1>3 DEF MadeInv
  <2>1. ASSUME NEW m \in Model, Limited(Current)
        PROVE  Cardinality(Made(s, m)) <= dropped'[Current][m]
    <3>1. Current \in Run
      BY CurrentRun
    <3>2. dropped[Current][m] \in Nat /\ dropped'[Current][m] \in Nat
      BY <3>1 DEF ProxyTypes
    <3>3. dropped[Current][m] <= dropped'[Current][m]
      BY <3>1 DEF Ages
    <3>4. Cardinality(Made(s, m)) <= dropped[Current][m]
      BY <2>1 DEF MadeInv
    <3>5. Cardinality(Made(s, m)) \in Nat
      BY MadeIsFinite
    <3> QED
      BY <3>2, <3>3, <3>4, <3>5
  <2> QED
    BY <2>1 DEF MadeInv
<1>7. WindowInv'
  <2>1. Clean' => Clean
    BY <1>1 DEF Clean, Ages
  <2>2. Window \subseteq Window'
    BY <1>1 DEF Window, Ages
  <2>3. \A s, i : Hop(s, i)' = Hop(s, i)
    BY <1>1 DEF Hop
  <2> QED
    BY <1>1, <1>3, <2>1, <2>2, <2>3 DEF WindowInv
<1>8. PrimaryInv'
  BY <1>2 DEF PrimaryInv
<1>9. ReportInv'
  BY <1>1, <1>2 DEF ReportInv
<1> QED
  BY <1>4, <1>5, <1>6, <1>7, <1>8, <1>9

\* The request of a handler that goes on is the same one at another stage.
Onward(r, q, stage, reply, by) ==
  /\ r \in Request
  /\ r.id = q.id /\ r.path = q.path /\ r.model = q.model
  /\ r.stage = stage /\ r.reply = reply /\ r.by = by

LEMMA MovedIs ==
  ASSUME NEW q \in Request, NEW stage \in Stages, NEW reply \in Replies, NEW by \in Rules
  PROVE  Onward([q EXCEPT !.stage = stage, !.reply = reply, !.by = by], q, stage, reply, by)
BY DEF Request, Onward

LEMMA ServedIs ==
  ASSUME NEW q \in flight, flight \subseteq Request, NEW stage \in Stages,
         NEW reply \in Replies, NEW by \in Rules, Serves(q, stage, reply, by)
  PROVE  /\ flight' \subseteq Request
         /\ \A r \in flight' : r \in flight \/ Onward(r, q, stage, reply, by)
<1>1. \A r \in flight' : r \in flight \/ r = [q EXCEPT !.stage = stage, !.reply = reply, !.by = by]
  BY DEF Serves
<1>2. q \in Request
  OBVIOUS
<1>3. Onward([q EXCEPT !.stage = stage, !.reply = reply, !.by = by], q, stage, reply, by)
  BY <1>2, MovedIs
<1>4. \A r \in flight' : r \in flight \/ Onward(r, q, stage, reply, by)
  BY <1>1, <1>3
<1> QED
  BY <1>4 DEF Onward

\* So a handler's step keeps the invariant if what it leaves is what its seat may wait for.
LEMMA HandlerKeeps ==
  ASSUME HarnessInv, ProxyTypes', Ages, UNCHANGED runnerVars, LatchInv', BudgetInv',
         NEW q \in flight, NEW stage, NEW reply, NEW by,
         \A r \in flight' : r \in flight \/ Onward(r, q, stage, reply, by),
         ASSUME NEW s \in Seat, NEW r \in Request, pc = "running", q.id = Id(s),
                Pending(q, s), Onward(r, q, stage, reply, by)
         PROVE  Pending(r, s)'
  PROVE  HarnessInv'
<1>1. UNCHANGED <<plan, turn, pc, attempt, heard, result>>
  BY DEF runnerVars
<1>2. FlightIds'
  <2>1. \A r \in flight' : \E x \in flight : r.id = x.id
    BY DEF Onward
  <2> QED
    BY <1>1, <2>1 DEF HarnessInv, FlightIds, OfThisAttempt
<1>3. PendingInv'
  <2> SUFFICES ASSUME pc = "running", NEW x \in flight', NEW s \in Seat, x.id = Id(s)
               PROVE  Pending(x, s)'
    BY <1>1 DEF PendingInv, Id
  <2>1. CASE x \in flight
    <3>1. Pending(x, s) /\ x \in Request
      BY <2>1 DEF HarnessInv, PendingInv, ProxyTypes
    <3> QED
      BY <3>1, WaitingIsStable DEF HarnessInv
  <2>2. CASE Onward(x, q, stage, reply, by)
    <3>1. q.id = Id(s) /\ x \in Request
      BY <2>2 DEF Onward
    <3>2. Pending(q, s)
      BY <3>1 DEF HarnessInv, PendingInv
    <3> QED
      BY <2>2, <3>1, <3>2
  <2> QED
    BY <2>1, <2>2
<1> QED
  BY <1>2, <1>3, AgingKeeps DEF HarnessInv

\* Nothing new is in flight.
LEMMA NothingNewKeeps ==
  ASSUME HarnessInv, ProxyTypes', Ages, UNCHANGED runnerVars, LatchInv', BudgetInv',
         \A x \in flight' : x \in flight
  PROVE  HarnessInv'
<1>1. UNCHANGED <<plan, turn, pc, attempt, heard, result>>
  BY DEF runnerVars
<1>2. FlightIds'
  BY <1>1 DEF HarnessInv, FlightIds, OfThisAttempt
<1>3. PendingInv'
  <2> SUFFICES ASSUME pc = "running", NEW x \in flight', NEW s \in Seat, x.id = Id(s)
               PROVE  Pending(x, s)'
    BY <1>1 DEF PendingInv, Id
  <2>1. Pending(x, s) /\ x \in Request
    BY DEF HarnessInv, PendingInv, ProxyTypes
  <2> QED
    BY <2>1, WaitingIsStable DEF HarnessInv
<1> QED
  BY <1>2, <1>3, AgingKeeps DEF HarnessInv

\* With the counters as they were, the latch no looser and the rule the same.
LEMMA CountersKept ==
  ASSUME HarnessInv, dropped' = dropped, failures' = failures \/ failures' = 0 \/ degraded',
         degraded => degraded', failures' \in Nat
  PROVE  LatchInv' /\ BudgetInv' /\ \A r \in Run, m \in Model : dropped[r][m] <= dropped'[r][m]
<1>1. LatchInv'
  BY DEF HarnessInv, LatchInv
<1>2. BudgetInv'
  BY DEF HarnessInv, BudgetInv
<1>3. \A r \in Run, m \in Model : dropped[r][m] \in Nat
  BY DEF HarnessInv, ProxyTypes
<1> QED
  BY <1>1, <1>2, <1>3

LEMMA AcceptFailsKeeps ==
  ASSUME HarnessInv, AcceptFails, UNCHANGED runnerVars
  PROVE  HarnessInv'
<1>1. /\ degraded' = TRUE /\ failures' = failures + 1
      /\ UNCHANGED <<injection, dropped, registry, flight>>
  BY DEF AcceptFails
<1>2. ProxyTypes'
  BY <1>1 DEF HarnessInv, ProxyTypes
<1>3. LatchInv' /\ BudgetInv' /\ Ages
  BY <1>1, <1>2, CountersKept DEF Ages, ProxyTypes
<1> QED
  BY <1>1, <1>2, <1>3, NothingNewKeeps

LEMMA AbandonKeeps ==
  ASSUME HarnessInv, NEW q \in flight, Abandon(q), UNCHANGED runnerVars
  PROVE  HarnessInv'
<1>1. flight' = flight \ {q} /\ UNCHANGED <<injection, dropped, registry, degraded, failures>>
  BY DEF Abandon
<1>2. ProxyTypes'
  BY <1>1 DEF HarnessInv, ProxyTypes
<1>3. LatchInv' /\ BudgetInv' /\ Ages
  BY <1>1, <1>2, CountersKept DEF Ages, ProxyTypes
<1> QED
  BY <1>1, <1>2, <1>3, NothingNewKeeps

\* What a handler has to see to when it goes on with a request that a seat waits for.
GoesOnWell(q, stage, reply, by) ==
  \A s \in Seat : pc = "running" /\ q.id = Id(s) /\ Pending(q, s) =>
    /\ by # NoRun => by = Current /\ Named(q.path, q.model)
    /\ by # NoRun /\ Limited(Current) => q.by = by
    /\ stage = "replied" /\ reply \in Status /\ ~degraded' =>
         Recorded(q.id, q.path, reply) \in registry'
    /\ RuleOf[Current].kind = "fail" /\ Named(q.path, q.model) /\ ~degraded' =>
         stage # "forwarding" /\ (stage # "accepted" => reply = 500)

\* A handler step that changes neither counters nor rule.
LEMMA ServingKeeps ==
  ASSUME HarnessInv, UNCHANGED runnerVars, NEW q \in flight,
         NEW stage \in Stages, NEW reply \in Replies, NEW by \in Rules,
         Serves(q, stage, reply, by),
         UNCHANGED <<injection, dropped, failures>>,
         degraded' \in BOOLEAN, degraded => degraded',
         registry \subseteq registry', registry' \subseteq Record,
         GoesOnWell(q, stage, reply, by)
  PROVE  HarnessInv'
<1>1. q \in Request /\ ProxyTypes
  BY DEF HarnessInv, ProxyTypes
<1>2. flight' \subseteq Request /\ \A r \in flight' : r \in flight \/ Onward(r, q, stage, reply, by)
  BY <1>1, ServedIs DEF ProxyTypes
<1>4. ProxyTypes'
  BY <1>1, <1>2 DEF ProxyTypes
<1>5. LatchInv' /\ BudgetInv' /\ Ages
  BY <1>4, CountersKept DEF Ages, ProxyTypes
<1>6. ASSUME NEW s \in Seat, NEW r \in Request, pc = "running", q.id = Id(s),
             Pending(q, s), Onward(r, q, stage, reply, by)
      PROVE  Pending(r, s)'
  <2>1. heard' = heard /\ Current' = Current
    BY DEF runnerVars, Current
  <2>2. /\ Settled(s)' <=> Settled(s)
        /\ Path(s)' = Path(s) /\ Asked(s)' = Asked(s)
        /\ \A m : Made(s, m)' = Made(s, m)
    BY <2>1, SameHeard
  <2>3. \A path, model : Named(path, model)' <=> Named(path, model)
    BY <2>1 DEF Named
  <2>4. /\ ~Settled(s) /\ q.path = Path(s) /\ q.model = Asked(s)
        /\ q.by # NoRun /\ Limited(Current) =>
             Cardinality(Made(s, q.model)) < dropped[Current][q.model]
    BY <1>6 DEF Pending
  <2>5. /\ by # NoRun => by = Current /\ Named(q.path, q.model)
        /\ by # NoRun /\ Limited(Current) => q.by = by
        /\ stage = "replied" /\ reply \in Status /\ ~degraded' =>
             Recorded(q.id, q.path, reply) \in registry'
        /\ RuleOf[Current].kind = "fail" /\ Named(q.path, q.model) /\ ~degraded' =>
             stage # "forwarding" /\ (stage # "accepted" => reply = 500)
    BY <1>6 DEF GoesOnWell
  <2> QED
    BY <1>6, <2>1, <2>2, <2>3, <2>4, <2>5 DEF Pending, Onward
<1> QED
  BY <1>2, <1>4, <1>5, <1>6, HandlerKeeps

\* The rule a handler finds in force while seats are waiting is this run's.
LEMMA RuleOfThisRun ==
  ASSUME HarnessInv, pc = "running"
  PROVE  injection = Current /\ Current \in Run /\ injection # NoRun
<1>1. Current \in Run
  BY CurrentRun DEF HarnessInv
<1>2. injection = Current
  BY DEF HarnessInv, RuleInForce
<1> QED
  BY <1>1, <1>2, Constants

\* A drop claims one connection of the budget, and the seat that waits for it owns it.
LEMMA DroppingKeeps ==
  ASSUME HarnessInv, NEW q \in flight, DropConnection(q), UNCHANGED runnerVars
  PROVE  HarnessInv'
<1> DEFINE j == injection
<1>1. /\ q \in Request /\ ProxyTypes /\ q.model \in Model
  BY DEF HarnessInv, ProxyTypes, Request
<1>2. /\ Serves(q, "replied", Cut, j) /\ InForce(q) /\ ClaimsDrop(q)
      /\ RuleOf[j].kind = "drop"
      /\ dropped' = IF RuleOf[j].budget = Always THEN dropped
                    ELSE [dropped EXCEPT ![j][q.model] = @ + 1]
      /\ UNCHANGED <<injection, registry, degraded, failures>>
  BY DEF DropConnection
<1>3. j \in Run /\ j \in Rules
  BY <1>1, <1>2 DEF ProxyTypes, InForce, Rules
<1>4. "replied" \in Stages /\ Cut \in Replies
  BY DEF Stages, Replies
<1>5. flight' \subseteq Request /\ \A r \in flight' : r \in flight \/ Onward(r, q, "replied", Cut, j)
  BY <1>1, <1>2, <1>3, <1>4, ServedIs DEF ProxyTypes
<1>8. /\ dropped' \in [Run -> [Model -> Nat]]
      /\ \A i \in Run, m \in Model :
           dropped'[i][m] = IF i = j /\ m = q.model /\ RuleOf[j].budget # Always
                            THEN dropped[i][m] + 1 ELSE dropped[i][m]
  BY <1>1, <1>2, <1>3 DEF ProxyTypes
<1>9. \A i \in Run, m \in Model : dropped[i][m] \in Nat /\ dropped[i][m] <= dropped'[i][m]
  BY <1>1, <1>8 DEF ProxyTypes
<1>10. ProxyTypes' /\ Ages /\ LatchInv'
  BY <1>1, <1>2, <1>5, <1>8, <1>9 DEF ProxyTypes, Ages, HarnessInv, LatchInv
<1>11. BudgetInv'
  <2> SUFFICES ASSUME NEW i \in Run, NEW m \in Model, Limited(i)
               PROVE  dropped'[i][m] <= RuleOf[i].budget
    BY DEF BudgetInv, Limited
  <2>1. dropped[i][m] <= RuleOf[i].budget
    BY DEF HarnessInv, BudgetInv
  <2>2. RuleOf[i].budget \in Nat
    BY RuleKinds
  <2>3. CASE i = j /\ m = q.model
    <3>1. dropped[i][m] < RuleOf[i].budget
      BY <1>2, <2>3 DEF ClaimsDrop, Limited
    <3> QED
      BY <1>8, <1>9, <2>2, <3>1
  <2>4. CASE ~(i = j /\ m = q.model)
    BY <1>8, <2>1, <2>4
  <2> QED
    BY <2>3, <2>4
<1>12. ASSUME NEW s \in Seat, NEW r \in Request, pc = "running", q.id = Id(s),
              Pending(q, s), Onward(r, q, "replied", Cut, j)
       PROVE  Pending(r, s)'
  <2>1. heard' = heard /\ Current' = Current
    BY DEF runnerVars, Current
  <2>2. /\ Settled(s)' <=> Settled(s)
        /\ Path(s)' = Path(s) /\ Asked(s)' = Asked(s)
        /\ \A m : Made(s, m)' = Made(s, m)
    BY <2>1, SameHeard
  <2>3. \A path, model : Named(path, model)' <=> Named(path, model)
    BY <2>1 DEF Named
  <2>4. j = Current /\ Current \in Run /\ Named(q.path, q.model)
    BY <1>2, <1>12, RuleOfThisRun DEF InForce, Named
  <2>5. Limited(Current) => Cardinality(Made(s, q.model)) < dropped'[Current][q.model]
    <3> SUFFICES ASSUME Limited(Current)
                 PROVE  Cardinality(Made(s, q.model)) < dropped'[Current][q.model]
      OBVIOUS
    <3>1. dropped'[Current][q.model] = dropped[Current][q.model] + 1
      BY <1>1, <1>8, <2>4 DEF Limited
    <3>2. Cardinality(Made(s, q.model)) <= dropped[Current][q.model]
      BY <1>1, <1>12 DEF HarnessInv, MadeInv
    <3>3. Cardinality(Made(s, q.model)) \in Nat /\ dropped[Current][q.model] \in Nat
      BY <1>1, <1>9, <2>4, MadeIsFinite DEF HarnessInv
    <3> QED
      BY <3>1, <3>2, <3>3
  <2>6. RuleOf[Current].kind = "drop" /\ Cut \notin Status
    BY <1>2, <2>4, Constants
  <2>7. ~Settled(s) /\ q.path = Path(s) /\ q.model = Asked(s)
    BY <1>12 DEF Pending
  <2> QED
    BY <1>12, <2>1, <2>2, <2>3, <2>4, <2>5, <2>6, <2>7 DEF Pending, Onward
<1> QED
  BY <1>5, <1>10, <1>11, <1>12, HandlerKeeps

LEMMA HandlerStepKeeps ==
  ASSUME HarnessInv, NEW q \in flight, HandlerStep(q), UNCHANGED runnerVars
  PROVE  HarnessInv'
<1>1. /\ q \in Request /\ ProxyTypes /\ q.by \in Rules /\ q.reply \in Replies
      /\ q.id \in Ids /\ q.path \in Paths /\ q.model \in Model
  BY DEF HarnessInv, ProxyTypes, Request
<1>2. 500 \in Replies /\ 502 \in Replies /\ Cut \in Replies /\ Backend \subseteq Replies
  BY Constants DEF Replies
<1>3. \A s \in Seat : Pending(q, s) =>
        /\ q.by # NoRun => q.by = Current /\ Named(q.path, q.model)
        /\ q.stage = "replied" /\ q.reply \in Status /\ ~degraded =>
             Recorded(q.id, q.path, q.reply) \in registry
        /\ RuleOf[Current].kind = "fail" /\ Named(q.path, q.model) /\ ~degraded =>
             q.stage # "forwarding" /\ (q.stage # "accepted" => q.reply = 500)
  BY DEF Pending
<1>4. {"accepted", "forwarding", "answered", "replied"} = Stages
  BY DEF Stages
<1>5. CASE BodyUnreadable(q)
  <2>1. /\ Serves(q, "replied", 500, q.by) /\ degraded' = TRUE
        /\ UNCHANGED <<injection, dropped, registry, failures>>
    BY <1>5 DEF BodyUnreadable, Moves
  <2>2. registry' \subseteq Record
    BY <1>1, <2>1 DEF ProxyTypes
  <2> QED
    BY <1>1, <1>2, <1>3, <1>4, <2>1, <2>2, ServingKeeps DEF GoesOnWell
<1>6. CASE StandIn(q)
  <2>1. /\ Serves(q, "answered", 500, injection) /\ InForce(q)
        /\ RuleOf[injection].kind = "fail"
        /\ UNCHANGED <<injection, dropped, registry, degraded, failures>>
    BY <1>6 DEF StandIn
  <2>2. injection \in Rules /\ registry' \subseteq Record
    BY <1>1, <2>1 DEF ProxyTypes
  <2>3. ASSUME pc = "running"
        PROVE  injection = Current /\ Named(q.path, q.model) /\ ~Limited(Current)
    BY <2>1, <2>3, RuleOfThisRun DEF InForce, Named, Limited
  <2>4. degraded' \in BOOLEAN
    BY <1>1, <2>1 DEF ProxyTypes
  <2> QED
    BY <1>1, <1>2, <1>4, <2>1, <2>2, <2>3, <2>4, ServingKeeps DEF GoesOnWell
<1>7. CASE DropConnection(q)
  BY <1>7, DroppingKeeps
<1>8. CASE Forward(q)
  <2>1. /\ Serves(q, "forwarding", Cut, q.by)
        /\ InForce(q) => RuleOf[injection].kind = "drop"
        /\ UNCHANGED <<injection, dropped, registry, degraded, failures>>
    BY <1>8 DEF Forward, Moves
  <2>2. registry' \subseteq Record
    BY <1>1, <2>1 DEF ProxyTypes
  <2>3. ASSUME pc = "running", RuleOf[Current].kind = "fail" PROVE ~Named(q.path, q.model)
    BY <2>1, <2>3, RuleOfThisRun DEF InForce, Named
  <2>4. degraded' \in BOOLEAN
    BY <1>1, <2>1 DEF ProxyTypes
  <2> QED
    BY <1>1, <1>2, <1>3, <1>4, <2>1, <2>2, <2>3, <2>4, ServingKeeps DEF GoesOnWell
<1>9. ASSUME NEW status \in Backend \cup {502}, BackendAnswers(q, status) PROVE HarnessInv'
  <2>1. /\ Serves(q, "answered", status, q.by) /\ q.stage = "forwarding"
        /\ UNCHANGED <<injection, dropped, registry, degraded, failures>>
    BY <1>9 DEF BackendAnswers, Moves, At
  <2>2. registry' \subseteq Record /\ degraded' \in BOOLEAN
    BY <1>1, <2>1 DEF ProxyTypes
  <2> QED
    BY <1>1, <1>2, <1>3, <1>4, <2>1, <2>2, ServingKeeps DEF GoesOnWell
<1>10. CASE ProbeBodyUnreadable(q)
  <2>1. /\ Serves(q, "answered", 502, q.by) /\ degraded' = TRUE
        /\ UNCHANGED <<injection, dropped, registry, failures>>
    BY <1>10 DEF ProbeBodyUnreadable, Moves
  <2>2. registry' \subseteq Record
    BY <1>1, <2>1 DEF ProxyTypes
  <2> QED
    BY <1>1, <1>2, <1>3, <1>4, <2>1, <2>2, ServingKeeps DEF GoesOnWell
<1>11. CASE Push(q)
  <2>1. /\ Serves(q, "replied", q.reply, q.by) /\ q.stage = "answered"
        /\ registry' = registry \cup {Recorded(q.id, q.path, q.reply)}
        /\ UNCHANGED <<injection, dropped, degraded, failures>>
    BY <1>11 DEF Push, Moves, At, Recorded
  <2>2. registry' \subseteq Record /\ degraded' \in BOOLEAN
    BY <1>1, <2>1 DEF ProxyTypes, Record, Recorded
  <2> QED
    BY <1>1, <1>2, <1>3, <1>4, <2>1, <2>2, ServingKeeps DEF GoesOnWell
<1>12. CASE Abandon(q)
  BY <1>12, AbandonKeeps
<1> QED
  BY <1>5, <1>6, <1>7, <1>8, <1>9, <1>10, <1>11, <1>12 DEF HandlerStep

-----------------------------------------------------------------------------
(* The crate.                                                               *)

LEMMA AskKeeps ==
  ASSUME HarnessInv, NEW s \in Seat, Ask(s)
  PROVE  HarnessInv'
<1> DEFINE r == [id |-> Id(s), client |-> TRUE, model |-> Asked(s), path |-> Path(s),
                 stage |-> "accepted", reply |-> Cut, by |-> NoRun]
<1>1. /\ pc = "running" /\ ~Settled(s) /\ UNCHANGED runnerVars
      /\ failures' = 0 /\ flight' = flight \cup {r}
      /\ UNCHANGED <<injection, dropped, registry, degraded, faults>>
  BY DEF Ask, MayAsk, Accept
<1>2. ProxyTypes /\ RunnerTypes /\ HeardTypes
  BY DEF HarnessInv
<1>3. heard[s] \in Seq(Event) /\ Len(heard[s]) \in Nat
  BY <1>2 DEF HeardTypes
<1>4. Id(s) \in Ids /\ Id(s).turn = turn /\ Id(s).attempt = attempt /\ Id(s).seat = s
      /\ Id(s).hop = Len(heard[s]) + 1
  BY <1>2, <1>3 DEF RunnerTypes, Id, Ids
<1>5. Asked(s) \in Model /\ Path(s) \in Paths
  <2>1. Cardinality(Failed(s)) \in Nat /\ Cardinality(Failed(s)) <= Len(ChainOf[s])
    BY <1>2, FS_CardinalityType DEF HeardTypes
  <2>2. Cardinality(Failed(s)) + 1 \in 1 .. Len(ChainOf[s])
    BY <1>1, <2>1, Chains DEF Settled
  <2> QED
    BY <2>2, Chains DEF Asked, Path, Paths
<1>6. /\ r \in Request /\ r.id = Id(s) /\ r.path = Path(s) /\ r.model = Asked(s)
      /\ r.stage = "accepted" /\ r.by = NoRun
  BY <1>4, <1>5 DEF Request, Stages, Replies, Rules
<1> HIDE DEF r
<1>7. ProxyTypes' /\ Ages /\ LatchInv' /\ BudgetInv'
  <2>1. ProxyTypes'
    BY <1>1, <1>2, <1>6 DEF ProxyTypes
  <2>2. LatchInv' /\ BudgetInv' /\ \A x \in Run, m \in Model : dropped[x][m] <= dropped'[x][m]
    BY <1>1, CountersKept
  <2> QED
    BY <1>1, <2>1, <2>2 DEF Ages
<1>8. UNCHANGED <<plan, turn, pc, attempt, heard, result>> /\ Current' = Current
  BY <1>1 DEF runnerVars, Current
<1>9. FlightIds'
  <2> SUFFICES ASSUME NEW q \in flight'
      PROVE /\ q.id.turn <= turn
            /\ q.id.turn = turn => q.id.attempt <= attempt
            /\ q.id.turn = turn /\ q.id.attempt = attempt => pc \notin {"arm", "start"}
            /\ q.id.turn = turn /\ q.id.attempt = attempt /\ pc = "running" =>
                 q.id.hop <= Len(heard[q.id.seat]) + 1
    BY <1>8 DEF FlightIds, OfThisAttempt
  <2>1. CASE q \in flight
    BY <2>1 DEF HarnessInv, FlightIds, OfThisAttempt
  <2>2. CASE q = r
    BY <2>2, <1>1, <1>2, <1>3, <1>4, <1>6 DEF RunnerTypes
  <2> QED
    BY <1>1, <2>1, <2>2
<1>10. PendingInv'
  <2> SUFFICES ASSUME NEW q \in flight', NEW t \in Seat, q.id = Id(t) PROVE Pending(q, t)'
    BY <1>8 DEF PendingInv, Id
  <2>1. CASE q \in flight
    <3>1. Pending(q, t) /\ q \in Request
      BY <1>1, <1>2, <2>1 DEF HarnessInv, PendingInv, ProxyTypes
    <3> QED
      BY <1>1, <1>7, <3>1, WaitingIsStable DEF HarnessInv
  <2>2. CASE q = r
    <3>1. t = s
      BY <2>2, <1>4, <1>6 DEF Id
    <3>2. /\ Settled(s)' <=> Settled(s)
          /\ Path(s)' = Path(s) /\ Asked(s)' = Asked(s)
      BY <1>8, SameHeard
    <3>3. Pending(q, s)'
      BY <2>2, <3>2, <1>1, <1>6 DEF Pending
    <3> QED
      BY <3>1, <3>3
  <2> QED
    BY <1>1, <2>1, <2>2
<1> QED
  BY <1>1, <1>7, <1>9, <1>10, AgingKeeps DEF HarnessInv

\* The same request, whoever waits for it.
Same(r, q) == Onward(r, q, q.stage, q.reply, q.by)

\* A connection that closes takes requests away, or leaves them without a client.
LEMMA HangUpIs ==
  ASSUME ProxyTypes, NEW gone, HangUp(gone)
  PROVE  /\ UNCHANGED <<injection, dropped, registry, degraded, failures>>
         /\ flight' \subseteq Request
         /\ \A r \in flight' : \E q \in flight : Same(r, q)
         /\ ProxyTypes'
<1>1. PICK left \in SUBSET flight :
        flight' = {q \in flight \ gone : q.client} \cup {[q EXCEPT !.client = FALSE] : q \in left}
  BY DEF HangUp
<1>2. \A q \in flight : q \in Request
  BY DEF ProxyTypes
<1>3. \A q \in Request : LET r == [q EXCEPT !.client = FALSE] IN Same(r, q)
  BY DEF Request, Same, Onward
<1>6. \A q \in Request : Same(q, q)
  BY DEF Same, Onward
<1>4. \A r \in flight' : r \in Request /\ \E q \in flight : Same(r, q)
  <2>1. \A r \in flight' : \E q \in flight : Same(r, q)
    BY <1>1, <1>2, <1>3, <1>6
  <2> QED
    BY <2>1 DEF Same, Onward
<1>5. UNCHANGED <<injection, dropped, registry, degraded, failures>>
  BY DEF HangUp
<1> QED
  BY <1>4, <1>5 DEF ProxyTypes

\* What the proxy has to have done before a seat is told `status`.
ToldWell(s, status, by) ==
  /\ status \in Status /\ ~degraded => Recorded(Id(s), Path(s), status) \in registry
  /\ by # NoRun => by = Current /\ Named(Path(s), Asked(s))
  /\ by # NoRun /\ Limited(Current) =>
       Cardinality(Made(s, Asked(s))) < dropped[Current][Asked(s)]
  /\ RuleOf[Current].kind = "fail" /\ Named(Path(s), Asked(s)) /\ ~degraded => status = 500

LEMMA HearingKeeps ==
  ASSUME HarnessInv, pc = "running", NEW s \in Seat, ~Settled(s),
         NEW status \in Nat, NEW by \in Rules, Comes(s, status, by),
         UNCHANGED <<plan, turn, pc, attempt, result>>,
         UNCHANGED <<injection, dropped, registry, degraded, failures>>, ProxyTypes',
         \A r \in flight' : \E q \in flight : Same(r, q),
         ToldWell(s, status, by)
  PROVE  HarnessInv'
<1> DEFINE h == [path |-> Path(s), model |-> Asked(s), status |-> status, by |-> by]
           n == Len(heard[s]) + 1
<1>0. HeardTypes /\ RunnerTypes /\ ProxyTypes
  BY DEF HarnessInv
<1>1. /\ h \in Event /\ HeardTypes'
      /\ n \in Nat /\ Len(heard[s]) \in Nat
      /\ Len(heard'[s]) = n /\ heard'[s][n] = h
      /\ \A i \in 1 .. Len(heard[s]) : heard'[s][i] = heard[s][i]
      /\ \A t \in Seat : t # s => heard'[t] = heard[t]
      /\ Heard(s)' = Heard(s) \cup {h}
  BY <1>0, HistoryGrows
<1>2. h.path = Path(s) /\ h.model = Asked(s) /\ h.status = status /\ h.by = by
  OBVIOUS
<1> HIDE DEF h
<1>3. Current' = Current /\ Current \in Run
  BY <1>0, CurrentRun DEF Current, HarnessInv
<1>4. \A path, model : Named(path, model)' <=> Named(path, model)
  BY <1>3 DEF Named
<1>5. \A t \in Seat : t # s =>
        /\ Settled(t)' <=> Settled(t)
        /\ Path(t)' = Path(t) /\ Asked(t)' = Asked(t) /\ Id(t)' = Id(t)
        /\ Heard(t)' = Heard(t)
        /\ \A m : Made(t, m)' = Made(t, m)
  <2> SUFFICES ASSUME NEW t \in Seat, t # s
      PROVE /\ Settled(t)' <=> Settled(t)
            /\ Path(t)' = Path(t) /\ Asked(t)' = Asked(t) /\ Id(t)' = Id(t)
            /\ Heard(t)' = Heard(t)
            /\ \A m : Made(t, m)' = Made(t, m)
    OBVIOUS
  <2>1. heard'[t] = heard[t]
    BY <1>1
  <2>2. Heard(t)' = Heard(t)
    BY <2>1 DEF Heard, ToSet
  <2>3. Failed(t)' = Failed(t) /\ (Verdict(t)' <=> Verdict(t))
    BY <2>2 DEF Failed, Verdict
  <2>4. Settled(t)' <=> Settled(t)
    BY <2>3 DEF Settled
  <2>5. Path(t)' = Path(t) /\ Asked(t)' = Asked(t) /\ Id(t)' = Id(t)
    BY <2>1, <2>3 DEF Path, Probing, Asked, Id
  <2>6. \A m : Made(t, m)' = Made(t, m)
    BY <2>1 DEF Made
  <2> QED
    BY <2>2, <2>4, <2>5, <2>6
<1>6. FlightIds'
  <2> SUFFICES ASSUME NEW r \in flight'
      PROVE /\ r.id.turn <= turn
            /\ r.id.turn = turn => r.id.attempt <= attempt
            /\ r.id.turn = turn /\ r.id.attempt = attempt => r.id.hop <= Len(heard'[r.id.seat]) + 1
    BY DEF FlightIds, OfThisAttempt
  <2>1. PICK q \in flight : r.id = q.id
    BY DEF Same, Onward
  <2>2. q.id.seat \in Seat /\ q.id.hop \in Nat
    BY <1>0 DEF ProxyTypes, Request, Ids
  <2>3. /\ q.id.turn <= turn
        /\ q.id.turn = turn => q.id.attempt <= attempt
        /\ q.id.turn = turn /\ q.id.attempt = attempt => q.id.hop <= Len(heard[q.id.seat]) + 1
    BY DEF HarnessInv, FlightIds, OfThisAttempt
  <2>4. CASE q.id.seat = s
    BY <1>1, <2>1, <2>2, <2>3, <2>4
  <2>5. CASE q.id.seat # s
    BY <1>1, <2>1, <2>2, <2>3, <2>5
  <2> QED
    BY <2>4, <2>5
<1>7. PendingInv'
  <2> SUFFICES ASSUME NEW r \in flight', NEW t \in Seat, r.id = Id(t)' PROVE Pending(r, t)'
    BY DEF PendingInv
  <2>1. PICK q \in flight : Same(r, q)
    OBVIOUS
  <2>2. t # s
    <3> SUFFICES ASSUME t = s PROVE FALSE
      OBVIOUS
    <3>1. r.id = [turn |-> turn, attempt |-> attempt, seat |-> s, hop |-> n + 1]
      BY <1>1 DEF Id
    <3>2. q.id = [turn |-> turn, attempt |-> attempt, seat |-> s, hop |-> n + 1]
      BY <2>1, <3>1 DEF Same, Onward
    <3>3. q.id.turn = turn /\ q.id.attempt = attempt /\ q.id.seat = s /\ q.id.hop = n + 1
      BY <3>2
    <3>4. q.id.hop <= n
      BY <3>3 DEF HarnessInv, FlightIds, OfThisAttempt
    <3> QED
      BY <1>1, <3>3, <3>4
  <2>3. q.id = Id(t)
    BY <1>5, <2>1, <2>2 DEF Same, Onward
  <2>4. Pending(q, t)
    BY <2>3 DEF HarnessInv, PendingInv
  <2> QED
    BY <1>3, <1>4, <1>5, <2>1, <2>2, <2>4 DEF Pending, Same, Onward
<1>8. MadeInv'
  <2>1. ASSUME NEW t \in Seat, NEW i \in 1 .. Len(heard'[t]), heard'[t][i].by # NoRun
        PROVE  heard'[t][i].by = Current /\ Named(heard'[t][i].path, heard'[t][i].model)
    <3>1. CASE t = s /\ i = n
      BY <2>1, <3>1, <1>1, <1>2 DEF ToldWell
    <3>2. CASE ~(t = s /\ i = n)
      <4>1. i \in 1 .. Len(heard[t]) /\ heard'[t][i] = heard[t][i]
        BY <3>2, <1>1
      <4> QED
        BY <2>1, <4>1 DEF HarnessInv, MadeInv
    <3> QED
      BY <3>1, <3>2
  <2>2. ASSUME NEW t \in Seat, NEW m \in Model, Limited(Current)
        PROVE  Cardinality(Made(t, m)') <= dropped[Current][m]
    <3>1. Cardinality(Made(t, m)) <= dropped[Current][m]
      BY <2>2 DEF HarnessInv, MadeInv
    <3>2. CASE t # s
      BY <1>5, <3>1, <3>2
    <3>3. CASE t = s /\ ~(by # NoRun /\ m = Asked(s))
      <4>1. Made(s, m)' = Made(s, m)
        BY <1>1, <1>2, <3>3 DEF Made
      <4> QED
        BY <3>1, <3>3, <4>1
    <3>4. CASE t = s /\ by # NoRun /\ m = Asked(s)
      <4>1. Made(s, m)' = Made(s, m) \cup {n}
        BY <1>1, <1>2, <3>4 DEF Made
      <4>2. Cardinality(Made(s, m)) < dropped[Current][m]
        BY <2>2, <3>4 DEF ToldWell
      <4>3. IsFiniteSet(Made(s, m)) /\ Cardinality(Made(s, m)) \in Nat
        BY <1>0, MadeIsFinite
      <4>8. Cardinality(Made(s, m) \cup {n}) \in {Cardinality(Made(s, m)), Cardinality(Made(s, m)) + 1}
        BY <4>3, FS_AddElement
      <4>4. Cardinality(Made(s, m) \cup {n}) <= Cardinality(Made(s, m)) + 1
        BY <4>3, <4>8
      <4>5. dropped[Current][m] \in Nat
        BY <1>0, <1>3 DEF ProxyTypes
      <4>6. Cardinality(Made(s, m) \cup {n}) \in Nat
        BY <4>3, FS_AddElement, FS_CardinalityType
      <4>7. Cardinality(Made(s, m)') <= dropped[Current][m]
        BY <4>1, <4>2, <4>3, <4>4, <4>5, <4>6
      <4> QED
        BY <3>4, <4>7
    <3> QED
      BY <3>2, <3>3, <3>4
  <2> QED
    BY <1>3, <1>4, <2>1, <2>2 DEF MadeInv
<1>9. WindowInv'
  <2>1. Clean' => ~degraded /\ Clean /\ Window' = registry /\ Window = registry
    BY DEF Clean, Window
  <2>2. \A t, i : Hop(t, i)' = Hop(t, i)
    BY DEF Hop
  <2>3. Hop(s, n) = Id(s)
    BY DEF Hop, Id
  <2> SUFFICES ASSUME ~degraded, Clean, NEW t \in Seat, NEW i \in Nat, i \in 1 .. Len(heard'[t])
      PROVE /\ heard'[t][i].status \in Status =>
                 Recorded(Hop(t, i), heard'[t][i].path, heard'[t][i].status) \in registry
            /\ RuleOf[Current].kind = "fail" /\ Named(heard'[t][i].path, heard'[t][i].model) =>
                 heard'[t][i].status = 500
    BY <1>3, <1>4, <2>1, <2>2 DEF WindowInv
  <2>4. CASE t = s /\ i = n
    BY <2>4, <2>3, <1>1, <1>2 DEF ToldWell
  <2>5. CASE ~(t = s /\ i = n)
    <3>1. i \in 1 .. Len(heard[t]) /\ heard'[t][i] = heard[t][i]
      BY <2>5, <1>1
    <3>2. Window = registry
      BY DEF Window
    <3> QED
      BY <3>1, <3>2 DEF HarnessInv, WindowInv
  <2> QED
    BY <2>4, <2>5
<1>10. PrimaryInv'
  <2> SUFFICES ASSUME NEW t \in Seat, \E x \in Heard(t)' : x.path = "completion"
               PROVE  \E x \in Heard(t)' : x.path = "completion" /\ x.model = ChainOf[t][1]
    BY DEF PrimaryInv
  <2>1. CASE \E x \in Heard(t) : x.path = "completion"
    <3>1. Heard(t) \subseteq Heard(t)'
      <4>1. CASE t = s
        BY <4>1, <1>1
      <4>2. CASE t # s
        BY <4>2, <1>5
      <4> QED
        BY <4>1, <4>2
    <3> QED
      BY <2>1, <3>1 DEF HarnessInv, PrimaryInv
  <2>2. CASE ~\E x \in Heard(t) : x.path = "completion"
    <3>1. t = s /\ h.path = "completion"
      BY <2>2, <1>1, <1>5
    <3>2. Failed(s) = {}
      BY <2>2, <3>1 DEF Failed
    <3>3. Asked(s) = ChainOf[s][1]
      <4>1. Cardinality(Failed(s)) = 0
        BY <3>2, FS_EmptySet
      <4> QED
        BY <4>1 DEF Asked
    <3> QED
      BY <3>1, <3>3, <1>1, <1>2
  <2> QED
    BY <2>1, <2>2
<1>11. ReportInv' /\ StartsEmpty' /\ RunnerTypes' /\ RuleInForce' /\ LatchInv' /\ BudgetInv'
  <2>1. ReportInv' /\ StartsEmpty'
    BY DEF HarnessInv, ReportInv, StartsEmpty
  <2>2. RunnerTypes' /\ LatchInv' /\ BudgetInv'
    BY DEF HarnessInv, RunnerTypes, LatchInv, BudgetInv
  <2>3. RuleInForce'
    BY <1>3 DEF HarnessInv, RuleInForce
  <2> QED
    BY <2>1, <2>2, <2>3
<1> QED
  BY <1>1, <1>6, <1>7, <1>8, <1>9, <1>10, <1>11 DEF HarnessInv

\* A request that is heard of is the one the seat waits for.
LEMMA HeardIsPending ==
  ASSUME HarnessInv, pc = "running", NEW s \in Seat, NEW q \in flight, q.id = Id(s)
  PROVE  /\ Pending(q, s) /\ ~Settled(s) /\ q.path = Path(s) /\ q.model = Asked(s)
         /\ q.reply \in Nat /\ q.by \in Rules
<1>1. Pending(q, s)
  BY DEF HarnessInv, PendingInv
<1>2. q.reply \in Replies /\ q.by \in Rules
  BY DEF HarnessInv, ProxyTypes, Request
<1>3. q.reply \in Nat
  BY <1>2, Constants DEF Replies
<1> QED
  BY <1>1, <1>2, <1>3 DEF Pending

LEMMA RefusedKeeps ==
  ASSUME HarnessInv, NEW s \in Seat, Refused(s)
  PROVE  HarnessInv'
<1>1. /\ pc = "running" /\ ~Settled(s) /\ ~Listening /\ Comes(s, Cut, NoRun)
      /\ UNCHANGED <<plan, turn, pc, attempt, result>>
      /\ UNCHANGED <<injection, dropped, registry, degraded, failures, flight>>
  BY DEF Refused, MayAsk, proxyVars
<1>2. degraded
  BY <1>1, Constants DEF HarnessInv, ProxyTypes, LatchInv, Listening
<1>3. ToldWell(s, Cut, NoRun)
  BY <1>2 DEF ToldWell
<1>4. ProxyTypes' /\ \A r \in flight' : \E q \in flight : Same(r, q)
  BY <1>1 DEF HarnessInv, ProxyTypes, Same, Onward
<1>5. Cut \in Nat /\ NoRun \in Rules
  BY Constants DEF Rules
<1> QED
  BY <1>1, <1>3, <1>4, <1>5, HearingKeeps

LEMMA HearKeeps ==
  ASSUME HarnessInv, NEW s \in Seat, Hear(s)
  PROVE  HarnessInv'
<1>1. PICK q \in At("replied") :
        /\ pc = "running" /\ q.id = Id(s)
        /\ Comes(s, q.reply, q.by)
        /\ HangUp({q})
        /\ UNCHANGED <<plan, turn, pc, attempt, result>>
  BY DEF Hear
<1>2. q \in flight /\ q.stage = "replied"
  BY DEF At
<1>3. /\ Pending(q, s) /\ ~Settled(s) /\ q.path = Path(s) /\ q.model = Asked(s)
      /\ q.reply \in Nat /\ q.by \in Rules
  BY <1>1, <1>2, HeardIsPending
<1>4. ToldWell(s, q.reply, q.by)
  BY <1>1, <1>2, <1>3 DEF Pending, ToldWell
<1>5. /\ UNCHANGED <<injection, dropped, registry, degraded, failures>> /\ ProxyTypes'
      /\ \A r \in flight' : \E x \in flight : Same(r, x)
  BY <1>1, HangUpIs DEF HarnessInv
<1> QED
  BY <1>1, <1>3, <1>4, <1>5, HearingKeeps

LEMMA BreaksKeeps ==
  ASSUME HarnessInv, NEW s \in Seat, Breaks(s)
  PROVE  HarnessInv'
<1>1. PICK q \in At("replied") :
        /\ pc = "running" /\ q.id = Id(s) /\ q.path = "completion" /\ q.reply = 200
        /\ HangUp({q})
        /\ Comes(s, Cut, NoRun)
        /\ UNCHANGED <<plan, turn, pc, attempt, result>>
  BY DEF Breaks
<1>2. q \in flight /\ q.stage = "replied"
  BY DEF At
<1>3. Pending(q, s) /\ ~Settled(s) /\ q.path = Path(s) /\ q.model = Asked(s)
  BY <1>1, <1>2, HeardIsPending
<1>4. Cut \in Nat /\ NoRun \in Rules /\ Cut \notin Status
  BY Constants DEF Rules
<1>5. ToldWell(s, Cut, NoRun)
  BY <1>1, <1>2, <1>3, <1>4 DEF Pending, ToldWell
<1>6. /\ UNCHANGED <<injection, dropped, registry, degraded, failures>> /\ ProxyTypes'
      /\ \A r \in flight' : \E x \in flight : Same(r, x)
  BY <1>1, HangUpIs DEF HarnessInv
<1> QED
  BY <1>1, <1>3, <1>4, <1>5, <1>6, HearingKeeps

LEMMA GivesUpKeeps ==
  ASSUME HarnessInv, NEW s \in Seat, GivesUp(s)
  PROVE  HarnessInv'
<1>1. PICK q \in At("forwarding") :
        /\ pc = "running" /\ q.id = Id(s)
        /\ HangUp({q})
        /\ Comes(s, Late, NoRun)
        /\ UNCHANGED <<plan, turn, pc, attempt, result>>
  BY DEF GivesUp
<1>2. q \in flight /\ q.stage = "forwarding"
  BY DEF At
<1>3. Pending(q, s) /\ ~Settled(s) /\ q.path = Path(s) /\ q.model = Asked(s)
  BY <1>1, <1>2, HeardIsPending
<1>4. Late \in Nat /\ NoRun \in Rules /\ Late \notin Status
  BY Constants DEF Rules
<1>5. ToldWell(s, Late, NoRun)
  BY <1>1, <1>2, <1>3, <1>4 DEF Pending, ToldWell
<1>6. /\ UNCHANGED <<injection, dropped, registry, degraded, failures>> /\ ProxyTypes'
      /\ \A r \in flight' : \E x \in flight : Same(r, x)
  BY <1>1, HangUpIs DEF HarnessInv
<1> QED
  BY <1>1, <1>3, <1>4, <1>5, <1>6, HearingKeeps

-----------------------------------------------------------------------------
(* The runner. Its steps leave what was heard alone, or begin with nothing. *)

\* With nobody waiting, a step keeps what the proxy is held to.
LEMMA NobodyWaits ==
  ASSUME HarnessInv, pc' # "running", ProxyTypes',
         UNCHANGED <<dropped, degraded, failures>>,
         \A r \in flight' : \E q \in flight : Same(r, q),
         turn' = turn, attempt' = attempt,
         pc' \in {"arm", "start"} => pc \in {"arm", "start"}
  PROVE  LatchInv' /\ BudgetInv' /\ PendingInv' /\ FlightIds'
<1>1. LatchInv' /\ BudgetInv' /\ PendingInv'
  BY DEF HarnessInv, LatchInv, BudgetInv, PendingInv
<1>2. \A r \in flight' : \E q \in flight : r.id = q.id
  BY DEF Same, Onward
<1>3. FlightIds'
  BY <1>2 DEF HarnessInv, FlightIds, OfThisAttempt
<1> QED
  BY <1>1, <1>3

\* What was heard is kept with the run it was heard in.
LEMMA HeardIsKept ==
  ASSUME HarnessInv, UNCHANGED <<heard, plan, turn>>, pc # "arm", dropped' = dropped
  PROVE  /\ HeardTypes' /\ MadeInv' /\ PrimaryInv'
         /\ \A s : (Settled(s)' <=> Settled(s)) /\ (Verdict(s)' <=> Verdict(s))
         /\ Current' = Current /\ \A path, model : Named(path, model)' <=> Named(path, model)
<1>1. /\ \A s : Settled(s)' <=> Settled(s)
      /\ \A s : Verdict(s)' <=> Verdict(s)
      /\ \A s : Failed(s)' = Failed(s) /\ Heard(s)' = Heard(s)
      /\ \A s, m : Made(s, m)' = Made(s, m)
  BY SameHeard
<1>2. Current' = Current
  BY DEF Current
<1>3. \A path, model : Named(path, model)' <=> Named(path, model)
  BY <1>2 DEF Named
<1>4. HeardTypes' /\ PrimaryInv'
  BY <1>1 DEF HarnessInv, HeardTypes, PrimaryInv
<1>5. MadeInv'
  BY <1>1, <1>2, <1>3 DEF HarnessInv, MadeInv
<1> QED
  BY <1>1, <1>2, <1>3, <1>4, <1>5

\* Nothing was heard yet.
LEMMA NothingHeard ==
  ASSUME heard' = [s \in Seat |-> <<>>], dropped' \in [Run -> [Model -> Nat]],
         pc' # "arm" => Current' \in Run
  PROVE  HeardTypes' /\ MadeInv' /\ WindowInv' /\ PrimaryInv' /\ StartsEmpty'
<1>1. \A s \in Seat : heard'[s] = <<>>
  OBVIOUS
<1>2. \A s \in Seat : Heard(s)' = {}
  BY <1>1 DEF Heard, ToSet
<1>3. ASSUME NEW s \in Seat
      PROVE  IsFiniteSet(Failed(s)') /\ Cardinality(Failed(s)') <= Len(ChainOf[s])
  <2>1. Failed(s)' = {}
    BY <1>2 DEF Failed
  <2> QED
    BY <2>1, FS_EmptySet, Chains
<1>4. HeardTypes'
  BY <1>3 DEF HeardTypes
<1>5. ASSUME NEW s \in Seat, NEW m \in Model, pc' # "arm"
      PROVE  Cardinality(Made(s, m)') <= dropped'[Current'][m]
  <2>1. Made(s, m)' = {}
    BY <1>1 DEF Made
  <2>2. dropped'[Current'][m] \in Nat
    BY <1>5
  <2> QED
    BY <2>1, <2>2, FS_EmptySet
<1>6. MadeInv'
  BY <1>1, <1>5 DEF MadeInv
<1>7. WindowInv' /\ PrimaryInv' /\ StartsEmpty'
  BY <1>1, <1>2 DEF WindowInv, PrimaryInv, StartsEmpty
<1> QED
  BY <1>4, <1>6, <1>7

LEMMA NoResultIs ==
  NoResult \in Result /\ ~NoResult.report /\ NoResult.outcome = "none" /\ NoResult.records = {}
BY DEF NoResult, Result, Outcome

LEMMA ArmKeeps ==
  ASSUME HarnessInv, Arm
  PROVE  HarnessInv'
<1>1. /\ pc = "arm" /\ pc' = "start" /\ turn <= Len(plan) /\ injection' = Current
      /\ UNCHANGED <<plan, turn, attempt, heard, result>>
      /\ UNCHANGED <<dropped, registry, degraded, failures, flight>>
  BY DEF Arm, SetInjection
<1>2. Current \in Run /\ Current' = Current
  BY <1>1 DEF HarnessInv, RunnerTypes, Current
<1>3. ProxyTypes' /\ RunnerTypes' /\ RuleInForce'
  BY <1>1, <1>2 DEF HarnessInv, ProxyTypes, RunnerTypes, RuleInForce, Rules
<1>4. heard' = [s \in Seat |-> <<>>]
  BY <1>1 DEF HarnessInv, HeardTypes, StartsEmpty
<1>5. HeardTypes' /\ MadeInv' /\ WindowInv' /\ PrimaryInv' /\ StartsEmpty'
  <2>1. dropped' \in [Run -> [Model -> Nat]]
    BY <1>3 DEF ProxyTypes
  <2> QED
    BY <1>2, <1>4, <2>1, NothingHeard
<1>6. \A r \in flight' : \E q \in flight : Same(r, q)
  BY <1>1 DEF HarnessInv, ProxyTypes, Same, Onward
<1>7. LatchInv' /\ BudgetInv' /\ PendingInv' /\ FlightIds'
  BY <1>1, <1>3, <1>6, NobodyWaits
<1>8. ReportInv'
  BY <1>1 DEF HarnessInv, ReportInv
<1> QED
  BY <1>3, <1>5, <1>7, <1>8 DEF HarnessInv

LEMMA StartKeeps ==
  ASSUME HarnessInv, Start
  PROVE  HarnessInv'
<1>1. /\ pc = "start" /\ pc' = "running" /\ registry' = {}
      /\ heard' = [s \in Seat |-> <<>>] /\ result' = NoResult
      /\ UNCHANGED <<plan, turn, attempt>>
      /\ UNCHANGED <<injection, dropped, degraded, failures, flight>>
  BY DEF Start, Mark
<1>2. Current \in Run /\ Current' = Current
  BY <1>1, CurrentRun DEF HarnessInv, Current
<1>3. ProxyTypes' /\ RunnerTypes' /\ RuleInForce'
  BY <1>1, <1>2, NoResultIs DEF HarnessInv, ProxyTypes, RunnerTypes, RuleInForce
<1>4. HeardTypes' /\ MadeInv' /\ WindowInv' /\ PrimaryInv' /\ StartsEmpty'
  <2>1. dropped' \in [Run -> [Model -> Nat]]
    BY <1>3 DEF ProxyTypes
  <2> QED
    BY <1>1, <1>2, <2>1, NothingHeard
<1>5. \A q \in flight : ~(q.id.turn = turn /\ q.id.attempt = attempt)
  BY <1>1 DEF HarnessInv, FlightIds, OfThisAttempt
<1>6. FlightIds'
  BY <1>1, <1>5 DEF HarnessInv, FlightIds, OfThisAttempt
<1>7. PendingInv'
  <2>1. \A s \in Seat : Id(s)'.turn = turn /\ Id(s)'.attempt = attempt
    BY <1>1 DEF Id
  <2> QED
    BY <1>1, <1>5, <2>1 DEF PendingInv
<1>8. LatchInv' /\ BudgetInv' /\ ReportInv'
  BY <1>1, NoResultIs DEF HarnessInv, LatchInv, BudgetInv, ReportInv
<1> QED
  BY <1>3, <1>4, <1>6, <1>7, <1>8 DEF HarnessInv

\* An attempt that ended without a result of the crate's.
LEMMA EmptyHandedKeeps ==
  ASSUME HarnessInv, pc \in {"start", "running", "returned"}, pc' = "attempted",
         result' \in Result, result'.outcome # "complete", ~result'.report,
         result'.records = {},
         UNCHANGED <<plan, turn, attempt, heard>>,
         UNCHANGED <<injection, dropped, registry, degraded, failures>>, ProxyTypes',
         \A r \in flight' : \E q \in flight : Same(r, q)
  PROVE  HarnessInv'
<1>2. /\ HeardTypes' /\ MadeInv' /\ PrimaryInv' /\ Current' = Current
  BY HeardIsKept
<1>3. RunnerTypes' /\ RuleInForce'
  BY <1>2 DEF HarnessInv, RunnerTypes, RuleInForce
<1>4. LatchInv' /\ BudgetInv' /\ PendingInv' /\ FlightIds'
  BY NobodyWaits
<1>5. WindowInv' /\ ReportInv' /\ StartsEmpty'
  BY DEF WindowInv, Clean, ReportInv, StartsEmpty
<1> QED
  BY <1>2, <1>3, <1>4, <1>5 DEF HarnessInv

LEMMA FlightIsKept ==
  ASSUME HarnessInv, flight' = flight
  PROVE  \A r \in flight' : \E q \in flight : Same(r, q)
BY DEF HarnessInv, ProxyTypes, Same, Onward

LEMMA ProxyIsKept ==
  ASSUME HarnessInv, UNCHANGED proxyVars
  PROVE  /\ UNCHANGED <<injection, dropped, registry, degraded, failures>> /\ ProxyTypes'
         /\ \A r \in flight' : \E q \in flight : Same(r, q)
<1>1. UNCHANGED <<injection, dropped, registry, degraded, failures, flight>>
  BY DEF proxyVars
<1> QED
  BY <1>1, FlightIsKept DEF HarnessInv, ProxyTypes

LEMMA EndsEmptyHanded ==
  ASSUME HarnessInv, BuildFails \/ HarnessPanics \/ TimesOut
  PROVE  HarnessInv'
<1>1. CASE BuildFails
  <2>1. /\ pc = "start" /\ pc' = "attempted" /\ UNCHANGED <<plan, turn, attempt, heard>>
        /\ UNCHANGED proxyVars
        /\ result' \in Result /\ result'.outcome # "complete" /\ ~result'.report
        /\ result'.records = {}
    BY <1>1 DEF BuildFails, NoResult, Result, Outcome
  <2> QED
    BY <2>1, ProxyIsKept, EmptyHandedKeeps
<1>2. CASE HarnessPanics
  <2>1. /\ pc \in {"start", "returned"} /\ pc' = "attempted"
        /\ UNCHANGED <<plan, turn, attempt, heard>> /\ UNCHANGED proxyVars
        /\ result' \in Result /\ result'.outcome # "complete" /\ ~result'.report
        /\ result'.records = {}
    BY <1>2 DEF HarnessPanics, NoResult, Result, Outcome
  <2> QED
    BY <2>1, ProxyIsKept, EmptyHandedKeeps
<1>3. CASE TimesOut
  <2>1. /\ pc = "running" /\ pc' = "attempted"
        /\ UNCHANGED <<plan, turn, attempt, heard>> /\ HangUp(flight)
        /\ result' \in Result /\ result'.outcome # "complete" /\ ~result'.report
        /\ result'.records = {}
    BY <1>3 DEF TimesOut, NoResult, Result, Outcome
  <2>2. /\ UNCHANGED <<injection, dropped, registry, degraded, failures>> /\ ProxyTypes'
        /\ \A r \in flight' : \E q \in flight : Same(r, q)
    BY <2>1, HangUpIs DEF HarnessInv
  <2> QED
    BY <2>1, <2>2, EmptyHandedKeeps
<1> QED
  BY <1>1, <1>2, <1>3

\* With a quorum of verdicts in hand, analyze returns only once every seat is settled.
LEMMA QuorumMeansSettled ==
  ASSUME HarnessInv, Returns, Cardinality(Verdicts) >= Quorum
  PROVE  (\A s \in Seat : Settled(s)) /\ \E s \in Seat : Verdict(s)
<1> DEFINE hopeful == {s \in Seat : Settled(s) => Verdict(s)}
<1>1. Quorum \in Nat /\ Quorum >= 1
  <2>1. IsFiniteSet(Seat)
    BY Constants
  <2>2. Cardinality(Seat) \in Nat
    BY <2>1, FS_CardinalityType
  <2> QED
    BY <2>2, HarnessAssumption
<1>2. /\ Verdicts \subseteq hopeful /\ hopeful \subseteq Seat
  BY DEF Verdicts
<1>3. /\ IsFiniteSet(hopeful) /\ IsFiniteSet(Verdicts)
      /\ Cardinality(Verdicts) <= Cardinality(hopeful)
      /\ Cardinality(hopeful) \in Nat /\ Cardinality(Verdicts) \in Nat
  <2>1. IsFiniteSet(hopeful)
    BY <1>2, Constants, FS_Subset
  <2> QED
    BY <2>1, <1>2, FS_Subset, FS_CardinalityType
<1>4. (\A s \in Seat : Settled(s)) \/ Cardinality(hopeful) < Quorum
  BY DEF Returns
<1> HIDE DEF hopeful
<1>5. \A s \in Seat : Settled(s)
  BY <1>1, <1>3, <1>4
<1>6. Verdicts # {}
  <2> SUFFICES ASSUME Verdicts = {} PROVE FALSE
    OBVIOUS
  <2>1. Cardinality(Verdicts) = 0
    BY FS_EmptySet
  <2> QED
    BY <1>1, <2>1
<1> QED
  BY <1>5, <1>6 DEF Verdicts

LEMMA ReturnedResult ==
  ASSUME NEW b \in BOOLEAN, NEW r,
         r = [NoResult EXCEPT !.outcome = "complete", !.report = b, !.error = ~b]
  PROVE  r \in Result /\ r.outcome = "complete" /\ (r.report => b)
<1>1. CASE b = TRUE
  <2>1. r = [NoResult EXCEPT !.outcome = "complete", !.report = TRUE, !.error = FALSE]
    BY <1>1
  <2> QED
    BY <1>1, <2>1 DEF NoResult, Result, Outcome
<1>2. CASE b = FALSE
  <2>1. r = [NoResult EXCEPT !.outcome = "complete", !.report = FALSE, !.error = TRUE]
    BY <1>2
  <2> QED
    BY <1>2, <2>1 DEF NoResult, Result, Outcome
<1> QED
  BY <1>1, <1>2

LEMMA ReturnsKeeps ==
  ASSUME HarnessInv, Returns
  PROVE  HarnessInv'
<1>1. /\ pc = "running" /\ pc' = "returned" /\ HangUp(flight)
      /\ UNCHANGED <<plan, turn, attempt, heard>>
  BY DEF Returns
<1>2. /\ result' \in Result /\ result'.outcome = "complete"
      /\ result'.report => Cardinality(Verdicts) >= Quorum
  <2> DEFINE enough == Cardinality(Verdicts) >= Quorum
  <2>1. enough \in BOOLEAN
    OBVIOUS
  <2>2. result' = [NoResult EXCEPT !.outcome = "complete", !.report = enough, !.error = ~enough]
    BY Zenon DEF Returns
  <2> HIDE DEF enough
  <2>3. result' \in Result /\ result'.outcome = "complete" /\ (result'.report => enough)
    BY <2>1, <2>2, ReturnedResult
  <2> QED
    BY <2>3 DEF enough
<1>3. /\ UNCHANGED <<injection, dropped, registry, degraded, failures>> /\ ProxyTypes'
      /\ \A r \in flight' : \E q \in flight : Same(r, q)
  BY <1>1, HangUpIs DEF HarnessInv
<1>4. /\ HeardTypes' /\ MadeInv' /\ PrimaryInv' /\ Current' = Current
      /\ \A s : (Settled(s)' <=> Settled(s)) /\ (Verdict(s)' <=> Verdict(s))
      /\ \A path, model : Named(path, model)' <=> Named(path, model)
  BY <1>1, <1>3, HeardIsKept
<1>5. RunnerTypes' /\ RuleInForce'
  BY <1>1, <1>2, <1>3, <1>4 DEF HarnessInv, RunnerTypes, RuleInForce
<1>6. LatchInv' /\ BudgetInv' /\ PendingInv' /\ FlightIds'
  BY <1>1, <1>3, NobodyWaits
<1>7. WindowInv'
  <2>1. (Clean' <=> Clean) /\ Window' = Window
    BY <1>1, <1>3 DEF Clean, Window
  <2>2. \A s, i : Hop(s, i)' = Hop(s, i)
    BY <1>1 DEF Hop
  <2> QED
    BY <1>1, <1>4, <2>1, <2>2 DEF HarnessInv, WindowInv
<1>8. ReportInv'
  BY <1>1, <1>2, <1>4, QuorumMeansSettled DEF ReportInv
<1>9. StartsEmpty'
  BY <1>1 DEF StartsEmpty
<1> QED
  BY <1>3, <1>4, <1>5, <1>6, <1>7, <1>8, <1>9 DEF HarnessInv

\* A step that only hands the window on.
LEMMA HandingOnKeeps ==
  ASSUME HarnessInv, UNCHANGED <<plan, turn, attempt, heard>>,
         UNCHANGED <<dropped, registry, degraded, failures, flight>>,
         injection' = IF pc' = "concluded" THEN NoRun ELSE injection,
         pc \in {"returned", "collected", "attempted"},
         pc' \in {"collected", "attempted", "concluded"},
         result' \in Result, result'.outcome = result.outcome, result'.report = result.report,
         Clean' => Clean, Clean' => Window' = Window,
         pc' = "collected" => result.outcome = "complete",
         result.outcome # "complete" => result'.records = result.records
  PROVE  HarnessInv'
<1>1. /\ HeardTypes' /\ MadeInv' /\ PrimaryInv' /\ Current' = Current
      /\ \A s : (Settled(s)' <=> Settled(s)) /\ (Verdict(s)' <=> Verdict(s))
      /\ \A path, model : Named(path, model)' <=> Named(path, model)
  BY HeardIsKept
<1>2. ProxyTypes'
  BY DEF HarnessInv, ProxyTypes, Rules
<1>3. RunnerTypes' /\ RuleInForce'
  BY <1>1 DEF HarnessInv, RunnerTypes, RuleInForce
<1>4. LatchInv' /\ BudgetInv' /\ PendingInv' /\ FlightIds'
  BY <1>2, FlightIsKept, NobodyWaits
<1>5. WindowInv'
  <2>1. \A s, i : Hop(s, i)' = Hop(s, i)
    BY DEF Hop
  <2> QED
    BY <1>1, <2>1 DEF HarnessInv, WindowInv
<1>6. ReportInv' /\ StartsEmpty'
  BY <1>1 DEF HarnessInv, ReportInv, StartsEmpty
<1> QED
  BY <1>1, <1>2, <1>3, <1>4, <1>5, <1>6 DEF HarnessInv

LEMMA HandsOn ==
  ASSUME HarnessInv, CollectRecords \/ ReadDegraded \/ Conclude
  PROVE  HarnessInv'
<1>1. result \in Result /\ registry \subseteq Record /\ degraded \in BOOLEAN
  BY DEF HarnessInv, RunnerTypes, ProxyTypes
<1>2. pc \in {"returned", "collected"} => result.outcome = "complete"
  BY DEF HarnessInv, ReportInv
<1>3. CASE CollectRecords
  <2>1. /\ pc = "returned" /\ pc' = "collected" /\ UNCHANGED <<plan, turn, attempt, heard>>
        /\ UNCHANGED <<injection, dropped, registry, degraded, failures, flight>>
        /\ result' = [result EXCEPT !.records = registry]
    BY <1>3 DEF CollectRecords, proxyVars
  <2>2. /\ result' \in Result /\ result'.outcome = result.outcome
        /\ result'.report = result.report /\ result'.records = registry
    BY <1>1, <2>1 DEF Result
  <2>3. (Clean' => Clean) /\ (Clean' => Window' = Window)
    BY <2>1, <2>2 DEF Clean, Window
  <2> QED
    BY <1>2, <2>1, <2>2, <2>3, HandingOnKeeps
<1>4. CASE ReadDegraded
  <2>1. /\ pc = "collected" /\ pc' = "attempted" /\ UNCHANGED <<plan, turn, attempt, heard>>
        /\ UNCHANGED <<injection, dropped, registry, degraded, failures, flight>>
        /\ result' = [result EXCEPT !.degraded = degraded]
    BY <1>4 DEF ReadDegraded, proxyVars
  <2>2. /\ result' \in Result /\ result'.outcome = result.outcome
        /\ result'.report = result.report /\ result'.records = result.records
        /\ result'.degraded = degraded
    BY <1>1, <2>1 DEF Result
  <2>3. (Clean' => Clean) /\ (Clean' => Window' = Window)
    BY <2>1, <2>2 DEF Clean, Window
  <2> QED
    BY <1>2, <2>1, <2>2, <2>3, HandingOnKeeps
<1>5. CASE Conclude
  <2>1. /\ pc = "attempted" /\ pc' = "concluded"
        /\ UNCHANGED <<plan, turn, attempt, heard, result>>
        /\ UNCHANGED <<dropped, registry, degraded, failures, flight>> /\ injection' = NoRun
    BY <1>5 DEF Conclude, SetInjection
  <2>3. (Clean' => Clean) /\ (Clean' => Window' = Window)
    BY <2>1 DEF Clean, Window
  <2> QED
    BY <1>1, <1>2, <2>1, <2>3, HandingOnKeeps
<1> QED
  BY <1>3, <1>4, <1>5

LEMMA RetryKeeps ==
  ASSUME HarnessInv, Retry
  PROVE  HarnessInv'
<1>1. /\ pc = "attempted" /\ pc' = "start" /\ attempt = 1 /\ attempt' = 2 /\ Inconclusive
      /\ UNCHANGED <<plan, turn, heard, result>> /\ UNCHANGED proxyVars
  BY DEF Retry
<1>2. /\ UNCHANGED <<injection, dropped, registry, degraded, failures, flight>> /\ ProxyTypes'
  BY <1>1, ProxyIsKept DEF proxyVars
<1>3. /\ HeardTypes' /\ MadeInv' /\ PrimaryInv' /\ Current' = Current
  BY <1>1, <1>2, HeardIsKept
<1>4. RunnerTypes' /\ RuleInForce'
  BY <1>1, <1>2, <1>3 DEF HarnessInv, RunnerTypes, RuleInForce
<1>5. FlightIds'
  <2>1. \A q \in flight : /\ q.id.turn \in Nat /\ q.id.attempt \in {1, 2}
                          /\ q.id.turn <= turn
                          /\ q.id.turn = turn => q.id.attempt <= 1
    BY <1>1 DEF HarnessInv, FlightIds, ProxyTypes, Request, Ids
  <2> QED
    BY <1>1, <1>2, <2>1 DEF FlightIds, OfThisAttempt
<1>6. LatchInv' /\ BudgetInv' /\ PendingInv'
  BY <1>1, <1>2 DEF HarnessInv, LatchInv, BudgetInv, PendingInv
<1>7. ReportInv'
  BY <1>1 DEF HarnessInv, ReportInv, Inconclusive
<1>8. WindowInv' /\ StartsEmpty'
  BY <1>1 DEF WindowInv, Clean, StartsEmpty
<1> QED
  BY <1>2, <1>3, <1>4, <1>5, <1>6, <1>7, <1>8 DEF HarnessInv

LEMMA NextRunKeeps ==
  ASSUME HarnessInv, NextRun
  PROVE  HarnessInv'
<1>1. /\ pc = "concluded" /\ pc' = "arm" /\ turn' = turn + 1 /\ attempt' = 1
      /\ heard' = [s \in Seat |-> <<>>] /\ result' = NoResult
      /\ UNCHANGED plan /\ UNCHANGED proxyVars
  BY DEF NextRun
<1>2. UNCHANGED <<injection, dropped, registry, degraded, failures, flight>> /\ ProxyTypes'
  BY <1>1, ProxyIsKept DEF proxyVars
<1>3. RunnerTypes' /\ RuleInForce'
  BY <1>1, <1>2, NoResultIs DEF HarnessInv, RunnerTypes, RuleInForce
<1>4. HeardTypes' /\ MadeInv' /\ WindowInv' /\ PrimaryInv' /\ StartsEmpty'
  <2>1. dropped' \in [Run -> [Model -> Nat]]
    BY <1>2 DEF ProxyTypes
  <2> QED
    BY <1>1, <2>1, NothingHeard
<1>5. FlightIds'
  <2>1. turn \in Nat /\ \A q \in flight : q.id.turn \in Nat /\ q.id.turn <= turn
    BY DEF HarnessInv, FlightIds, ProxyTypes, RunnerTypes, Request, Ids
  <2>2. \A q \in flight : q.id.turn <= turn + 1 /\ q.id.turn # turn + 1
    BY <2>1
  <2> QED
    BY <1>1, <1>2, <2>2 DEF FlightIds, OfThisAttempt
<1>6. LatchInv' /\ BudgetInv' /\ PendingInv' /\ ReportInv'
  BY <1>1, <1>2, NoResultIs DEF HarnessInv, LatchInv, BudgetInv, PendingInv, ReportInv
<1> QED
  BY <1>2, <1>3, <1>4, <1>5, <1>6 DEF HarnessInv

-----------------------------------------------------------------------------
(* The invariant, and what follows from it.                                  *)

LEMMA HarnessInitEstablishes ==
  ASSUME HarnessInit
  PROVE  HarnessInv
<1>1. /\ injection = NoRun /\ dropped = [r \in Run |-> [m \in Model |-> 0]] /\ registry = {}
      /\ degraded = FALSE /\ failures = 0 /\ flight = {}
  BY DEF HarnessInit, ProxyInit
<1>2. /\ plan \in Seq(Run) /\ turn = 1 /\ pc = "arm" /\ attempt = 1
      /\ heard = [s \in Seat |-> <<>>] /\ result = NoResult
  BY HarnessAssumption DEF HarnessInit
<1>3. ProxyTypes /\ RunnerTypes /\ RuleInForce
  <2>1. [r \in Run |-> [m \in Model |-> 0]] \in [Run -> [Model -> Nat]]
    OBVIOUS
  <2>2. ProxyTypes
    BY <1>1, <2>1 DEF ProxyTypes, Rules
  <2>3. RunnerTypes
    BY <1>2, NoResultIs DEF RunnerTypes
  <2>4. RuleInForce
    BY <1>1, <1>2 DEF RuleInForce
  <2> QED
    BY <2>2, <2>3, <2>4
<1>4. HeardTypes
  <2>1. heard \in [Seat -> Seq(Event)]
    BY <1>2
  <2>2. \A s \in Seat : Failed(s) = {}
    BY <1>2, HeardOf DEF Failed
  <2>3. ASSUME NEW s \in Seat
        PROVE  IsFiniteSet(Failed(s)) /\ Cardinality(Failed(s)) <= Len(ChainOf[s])
    <3>1. Failed(s) = {} /\ Len(ChainOf[s]) \in Nat
      BY <2>2, Chains
    <3>2. IsFiniteSet({}) /\ Cardinality({}) = 0
      BY FS_EmptySet
    <3> QED
      BY <3>1, <3>2
  <2> QED
    BY <2>1, <2>3 DEF HeardTypes
<1>5. LatchInv /\ FlightIds /\ PendingInv /\ MadeInv /\ WindowInv
  BY <1>1, <1>2 DEF LatchInv, FlightIds, PendingInv, MadeInv, WindowInv, Clean
<1>6. BudgetInv
  <2> SUFFICES ASSUME NEW r \in Run, NEW m \in Model, Limited(r)
               PROVE  dropped[r][m] <= RuleOf[r].budget
    BY DEF BudgetInv
  <2>1. dropped[r][m] = 0 /\ RuleOf[r].budget \in Nat
    BY <1>1, RuleKinds
  <2> QED
    BY <2>1
<1>7. PrimaryInv /\ ReportInv /\ StartsEmpty
  BY <1>2, HeardOf, NoResultIs DEF PrimaryInv, ReportInv, StartsEmpty
<1> QED
  BY <1>3, <1>4, <1>5, <1>6, <1>7 DEF HarnessInv

LEMMA HarnessStep ==
  ASSUME HarnessInv, [HarnessNext]_harnessVars
  PROVE  HarnessInv'
<1>1. CASE Proxy
  BY <1>1, AcceptFailsKeeps, HandlerStepKeeps DEF Proxy
<1>2. CASE Client
  BY <1>2, AskKeeps, RefusedKeeps, HearKeeps, BreaksKeeps, GivesUpKeeps DEF Client
<1>3. CASE RunnerStep
  <2>1. CASE Arm
    BY <2>1, ArmKeeps
  <2>2. CASE Start
    BY <2>2, StartKeeps
  <2>3. CASE BuildFails
    BY <2>3, EndsEmptyHanded
  <2>4. CASE Returns
    BY <2>4, ReturnsKeeps
  <2>5. CASE CollectRecords \/ ReadDegraded \/ Conclude
    BY <2>5, HandsOn
  <2>6. CASE Retry
    BY <2>6, RetryKeeps
  <2>7. CASE NextRun
    BY <2>7, NextRunKeeps
  <2> QED
    BY <1>3, <2>1, <2>2, <2>3, <2>4, <2>5, <2>6, <2>7 DEF RunnerStep
<1>4. CASE HarnessPanics \/ TimesOut
  BY <1>4, EndsEmptyHanded
<1>5. CASE UNCHANGED harnessVars
  <2>1. /\ UNCHANGED <<injection, dropped, registry, degraded, failures, flight>>
        /\ UNCHANGED <<plan, turn, pc, attempt, heard, result>>
    BY <1>5 DEF harnessVars, proxyVars, runnerVars
  <2>2. ProxyTypes'
    BY <2>1 DEF HarnessInv, ProxyTypes
  <2>3. /\ HeardTypes' /\ PrimaryInv' /\ Current' = Current
        /\ \A s : (Settled(s)' <=> Settled(s)) /\ (Verdict(s)' <=> Verdict(s))
        /\ \A path, model : Named(path, model)' <=> Named(path, model)
        /\ \A s : Id(s)' = Id(s) /\ Path(s)' = Path(s) /\ Asked(s)' = Asked(s)
        /\ \A s, m : Made(s, m)' = Made(s, m)
    <3>1. Current' = Current
      BY <2>1 DEF Current
    <3>2. \A s : Id(s)' = Id(s)
      BY <2>1 DEF Id
    <3> QED
      BY <2>1, <3>1, <3>2, SameHeard DEF HarnessInv, HeardTypes, PrimaryInv, Named
  <2>4. RunnerTypes' /\ RuleInForce' /\ LatchInv' /\ BudgetInv' /\ FlightIds'
    BY <2>1, <2>3
    DEF HarnessInv, RunnerTypes, RuleInForce, LatchInv, BudgetInv, FlightIds, OfThisAttempt
  <2>5. MadeInv' /\ ReportInv' /\ StartsEmpty'
    BY <2>1, <2>3 DEF HarnessInv, MadeInv, ReportInv, StartsEmpty
  <2>6. PendingInv'
    BY <2>1, <2>3 DEF HarnessInv, PendingInv, Pending
  <2>7. WindowInv'
    <3>1. (Clean' <=> Clean) /\ Window' = Window /\ \A s, i : Hop(s, i)' = Hop(s, i)
      BY <2>1 DEF Clean, Window, Hop
    <3> QED
      BY <2>1, <2>3, <3>1 DEF HarnessInv, WindowInv
  <2> QED
    BY <2>2, <2>3, <2>4, <2>5, <2>6, <2>7 DEF HarnessInv
<1> QED
  BY <1>1, <1>2, <1>3, <1>4, <1>5 DEF HarnessNext

\* The harness keeps its invariant, for any number of seats, runs, requests and faults.
THEOREM HarnessInvariant == HarnessSpec => []HarnessInv
<1>1. HarnessInit => HarnessInv
  BY HarnessInitEstablishes
<1>2. HarnessInv /\ [HarnessNext]_harnessVars => HarnessInv'
  BY HarnessStep
<1> QED
  BY <1>1, <1>2, PTL DEF HarnessSpec

\* A window taken of a proxy that is not degraded holds a record of every status the crate
\* was told (proxy.rs: one push, before the response).
THEOREM WindowsAreComplete == HarnessSpec => []CleanWindowIsComplete
<1>1. HarnessInv => CleanWindowIsComplete
  <2> SUFFICES ASSUME HarnessInv, Attempted("complete"), ~result.degraded,
                      NEW s \in Seat, NEW i \in 1 .. Len(heard[s]), heard[s][i].status \in Status
               PROVE  Recorded(Hop(s, i), heard[s][i].path, heard[s][i].status)
                        \in result.records
    BY DEF CleanWindowIsComplete, Recorded, Hop
  <2>1. Clean /\ Window = result.records
    BY DEF Attempted, Clean, Window
  <2>2. Len(heard[s]) \in Nat
    BY DEF HarnessInv, HeardTypes
  <2>3. i \in Nat
    BY <2>2
  <2> QED
    BY <2>1, <2>3 DEF HarnessInv, WindowInv
<1> QED
  BY <1>1, HarnessInvariant, PTL

\* What a concluded, complete and clean attempt tells of a status that a seat was told.
LEMMA ToldIsRecorded ==
  ASSUME HarnessInv, pc = "concluded", result.outcome = "complete", ~result.degraded,
         NEW s \in Seat, NEW h \in Heard(s), h.path = "completion"
  PROVE  /\ h.status \in Status => \E r \in Completions : r.status = h.status
         /\ RuleOf[Current].kind = "fail" /\ h.model \in RuleOf[Current].models =>
              h.status = 500
<1>1. Clean /\ Window = result.records
  BY DEF Clean, Window
<1>2. heard[s] \in Seq(Event)
  BY DEF HarnessInv, HeardTypes
<1>3. PICK i \in DOMAIN heard[s] : h = heard[s][i]
  BY HeardOf
<1>4. i \in Nat /\ i \in 1 .. Len(heard[s])
  BY <1>2, <1>3
<1>5. /\ h.status \in Status => Recorded(Hop(s, i), h.path, h.status) \in result.records
      /\ RuleOf[Current].kind = "fail" /\ Named(h.path, h.model) => h.status = 500
  BY <1>1, <1>3, <1>4 DEF HarnessInv, WindowInv
<1>6. h.status \in Status => \E r \in Completions : r.status = h.status
  BY <1>5 DEF Completions, Recorded
<1> QED
  BY <1>5, <1>6 DEF Named

\* With a report, some seat was told of a completion of the injected model: the one whose
\* primary it is.
LEMMA ReportMeansTold ==
  ASSUME HarnessInv, pc = "concluded", result.report, RuleOf[Current].kind = "fail"
  PROVE  ToldOfInjection
<1>1. Current \in Run
  BY CurrentRun DEF HarnessInv
<1>2. PICK s \in Seat : ChainOf[s][1] \in RuleOf[Current].models
  BY <1>1, HarnessAssumption
<1>3. Settled(s)
  BY DEF HarnessInv, ReportInv
<1>4. \E h \in Heard(s) : h.path = "completion"
  <2>1. CASE Verdict(s)
    BY <2>1 DEF Verdict
  <2>2. CASE Cardinality(Failed(s)) = Len(ChainOf[s])
    <3>1. Cardinality(Failed(s)) # 0
      BY <2>2, Chains
    <3>2. Failed(s) # {}
      BY <3>1, FS_EmptySet
    <3> QED
      BY <3>2 DEF Failed
  <2> QED
    BY <1>3, <2>1, <2>2 DEF Settled
<1>5. PICK h \in Heard(s) : h.path = "completion" /\ h.model = ChainOf[s][1]
  BY <1>4 DEF HarnessInv, PrimaryInv
<1> QED
  BY <1>2, <1>5 DEF ToldOfInjection

\* The row of a run that injects nothing is never red over a crate that works, whatever the
\* backend, the accept loop and the timeouts did and however the attempt ended; the row of
\* an injected failure is not once there is a report or a seat was told of the injection.
THEOREM RedRowsAreTheCrates == HarnessSpec => []RedIsTheCrates
<1>1. HarnessInv => RedIsTheCrates
  <2> SUFFICES ASSUME HarnessInv, pc = "concluded"
               PROVE  /\ RuleOf[Current].kind = "none" => NothingInjectedRow # "fail"
                      /\ RuleOf[Current].kind = "fail" /\ (result.report \/ ToldOfInjection)
                           => InjectedFailureRow # "fail"
    BY DEF RedIsTheCrates
  <2>1. result.report /\ ~result.degraded => Completions # {}
    <3> SUFFICES ASSUME result.report, ~result.degraded PROVE Completions # {}
      OBVIOUS
    <3>1. result.outcome = "complete" /\ \E s \in Seat : Verdict(s)
      BY DEF HarnessInv, ReportInv
    <3>2. PICK s \in Seat : Verdict(s)
      BY <3>1
    <3>3. PICK h \in Heard(s) : h.path = "completion" /\ h.status = 200
      BY <3>2 DEF Verdict
    <3>4. \E r \in Completions : r.status = 200
      BY <3>1, <3>3, ToldIsRecorded DEF Status
    <3> QED
      BY <3>4
  <2>2. NothingInjectedRow # "fail"
    <3> DEFINE row == IF ~result.report \/ result.degraded THEN "skip"
                      ELSE IF Completions = {} THEN "fail"
                      ELSE IF Any500 THEN "skip" ELSE "pass"
    <3>1. row # "fail"
      BY <2>1
    <3>2. NothingInjectedRow = Evaluated(row)
      BY DEF NothingInjectedRow
    <3> HIDE DEF row
    <3> QED
      BY <3>1, <3>2 DEF Evaluated
  <2>3. ASSUME RuleOf[Current].kind = "fail", result.report \/ ToldOfInjection
        PROVE  InjectedFailureRow # "fail"
    <3> DEFINE row == IF result.degraded \/ Completions = {} THEN "skip" ELSE Row(Any500)
    <3>1. row # "fail"
      <4>1. CASE result.degraded \/ Completions = {}
        BY <4>1
      <4>2. CASE ~result.degraded /\ Completions # {}
        <5>1. result.outcome = "complete"
          BY <4>2 DEF HarnessInv, ReportInv, Completions
        <5>2. PICK s \in Seat : \E h \in Heard(s) :
                h.path = "completion" /\ h.model \in RuleOf[Current].models
          BY <2>3, ReportMeansTold DEF ToldOfInjection
        <5>3. PICK h \in Heard(s) : h.path = "completion" /\ h.model \in RuleOf[Current].models
          BY <5>2
        <5>4. h.status = 500
          BY <2>3, <4>2, <5>1, <5>3, ToldIsRecorded
        <5>5. \E r \in Completions : r.status = 500
          BY <4>2, <5>1, <5>3, <5>4, ToldIsRecorded DEF Status
        <5> QED
          BY <4>2, <5>5 DEF Any500, Row
      <4> QED
        BY <4>1, <4>2
    <3>2. InjectedFailureRow = Evaluated(row)
      BY DEF InjectedFailureRow
    <3> HIDE DEF row
    <3> QED
      BY <3>1, <3>2 DEF Evaluated
  <2> QED
    BY <2>2, <2>3
<1> QED
  BY <1>1, HarnessInvariant, PTL

\* A failure of the proxy's making comes from the rule of the very run that was told of it,
\* to a completion of a model it names, within the budget for that model: also when requests
\* of earlier attempts and runs are still being served.
THEOREM InjectionIsConfined == HarnessSpec => []OnlyTheNamedModelFails
<1>1. HarnessInv => OnlyTheNamedModelFails
  <2> SUFFICES ASSUME HarnessInv, NEW s \in Seat
               PROVE  LET made == {i \in 1 .. Len(heard[s]) : heard[s][i].by # NoRun} IN
                        /\ \A i \in made :
                             /\ heard[s][i].by = Current
                             /\ heard[s][i].path = "completion"
                             /\ heard[s][i].model \in RuleOf[Current].models
                        /\ made # {} =>
                             \/ RuleOf[Current].kind = "fail"
                             \/ RuleOf[Current].budget = Always
                             \/ \A m \in Model :
                                  Cardinality({i \in made : heard[s][i].model = m})
                                    <= RuleOf[Current].budget
    BY DEF OnlyTheNamedModelFails
  <2> DEFINE made == {i \in 1 .. Len(heard[s]) : heard[s][i].by # NoRun}
  <2>1. CASE pc = "arm"
    <3>1. made = {}
      BY <2>1 DEF HarnessInv, StartsEmpty
    <3> QED
      BY <3>1
  <2>2. CASE pc # "arm"
    <3>1. Current \in Run
      BY <2>2, CurrentRun DEF HarnessInv
    <3>2. \A i \in made : heard[s][i].by = Current /\ Named(heard[s][i].path, heard[s][i].model)
      BY <2>2 DEF HarnessInv, MadeInv
    <3>3. \A i \in made : heard[s][i].path = "completion"
                          /\ heard[s][i].model \in RuleOf[Current].models
                          /\ RuleOf[Current].kind # "none"
      BY <3>2 DEF Named
    <3>4. ASSUME NEW m \in Model, Limited(Current)
          PROVE  Cardinality(Made(s, m)) <= RuleOf[Current].budget
      <4>1. Cardinality(Made(s, m)) <= dropped[Current][m]
        BY <2>2, <3>4 DEF HarnessInv, MadeInv
      <4>2. dropped[Current][m] <= RuleOf[Current].budget
        BY <3>1, <3>4 DEF HarnessInv, BudgetInv
      <4>3. dropped[Current][m] \in Nat /\ RuleOf[Current].budget \in Nat
        BY <3>1, <3>4, RuleKinds DEF HarnessInv, ProxyTypes
      <4>4. Cardinality(Made(s, m)) \in Nat
        BY MadeIsFinite DEF HarnessInv
      <4> QED
        BY <4>1, <4>2, <4>3, <4>4
    <3>5. made # {} => RuleOf[Current].kind = "fail" \/ RuleOf[Current].budget = Always
                       \/ Limited(Current)
      BY <3>1, <3>3, RuleKinds DEF Limited
    <3>6. \A m : {i \in made : heard[s][i].model = m} = Made(s, m)
      BY DEF Made
    <3> HIDE DEF made
    <3>7. \A m \in Model : Limited(Current) =>
            Cardinality({i \in made : heard[s][i].model = m}) <= RuleOf[Current].budget
      BY <3>4, <3>6
    <3> QED
      BY <3>2, <3>3, <3>5, <3>7 DEF made
  <2> QED
    BY <2>1, <2>2
<1> QED
  BY <1>1, HarnessInvariant, PTL
===============================================================================
