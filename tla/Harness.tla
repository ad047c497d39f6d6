-------------------------------- MODULE Harness --------------------------------
(***************************************************************************)
(* The smoke harness (src/smoke/src/runner.rs): its runs go one after the  *)
(* other through one SpyProxy. A run is attempted under a time cap, and    *)
(* once more when the first attempt was inconclusive; what the attempt     *)
(* returned, with the window of records taken of it, is all the scenarios' *)
(* rows are decided by.                                                    *)
(*                                                                         *)
(* The client is a crate that works: every seat probes its primary, then   *)
(* asks the models of its chain until one answers. A row that comes out    *)
(* red here accuses a crate that did nothing wrong.                        *)
(***************************************************************************)
EXTENDS SpyProxy, SequencesExt

CONSTANTS
  Seat,
  ChainOf,       \* seat |-> its primary and the fallbacks it may rotate to
  Quorum,        \* verdicts without which analyze returns an error
  Plans,         \* the runs of an invocation, in order
  BlipSeats      \* BLIP_SEATS: how many seats a drop rule with a budget cuts

\* A failure is injected for the model of one configured seat (stage_e1: `injected_seat`).
ASSUME HarnessAssumption ==
  /\ IsFiniteSet(Seat)
  /\ ChainOf \in [Seat -> Seq(Model) \ {<<>>}]
  /\ Quorum \in 1 .. Cardinality(Seat)
  /\ Plans \subseteq Seq(Run)
  /\ \A r \in Run : RuleOf[r].kind = "fail" => \E s \in Seat : ChainOf[s][1] \in RuleOf[r].models

VARIABLES
  plan,      \* the runs of this invocation
  turn,      \* the one that is executed
  pc,        \* where execute_one stands
  attempt,
  heard,     \* seat |-> what each request of this attempt came to
  result,    \* the `RunResult` of the last attempt
  capped     \* an attempt of this run reached the cap

runnerVars == <<plan, turn, pc, attempt, heard, result, capped>>
harnessVars == <<proxyVars, runnerVars>>

Late == 1        \* a client that stopped waiting heard no status either

NoResult == [outcome |-> "none", report |-> FALSE, error |-> FALSE,
             records |-> {}, degraded |-> FALSE]

HarnessInit ==
  /\ ProxyInit
  /\ plan \in Plans
  /\ turn = 1 /\ pc = "arm" /\ attempt = 1
  /\ heard = [s \in Seat |-> <<>>]
  /\ result = NoResult /\ capped = FALSE

-----------------------------------------------------------------------------
(* The crate of this attempt.                                               *)

Heard(s) == ToSet(heard[s])
Failed(s) == {h \in Heard(s) : h.path = "completion" /\ h.status # 200}
Verdict(s) == \E h \in Heard(s) : h.path = "completion" /\ h.status = 200
Settled(s) == Verdict(s) \/ Cardinality(Failed(s)) = Len(ChainOf[s])
Verdicts == {s \in Seat : Verdict(s)}

\* Which request a seat makes next; dispatch waits for every probe.
Probing(s) == heard[s] = <<>>
Path(s) == IF Probing(s) THEN "probe" ELSE "completion"
Asked(s) == ChainOf[s][Cardinality(Failed(s)) + 1]
Id(s) == [turn |-> turn, attempt |-> attempt, seat |-> s, hop |-> Len(heard[s]) + 1]

MayAsk(s) ==
  /\ pc = "running" /\ ~Settled(s)
  /\ \A q \in flight : q.id # Id(s)
  /\ ~Probing(s) => \A t \in Seat : ~Probing(t)

Comes(s, status, by) ==
  heard' = [heard EXCEPT ![s] = Append(@,
              [path |-> Path(s), model |-> Asked(s), status |-> status, by |-> by])]

Ask(s) ==
  /\ MayAsk(s)
  /\ Accept(Id(s), Asked(s), Path(s))
  /\ UNCHANGED runnerVars

\* Nobody listens any more.
Refused(s) ==
  /\ MayAsk(s) /\ ~Listening
  /\ Comes(s, Cut, NoRun)
  /\ UNCHANGED <<proxyVars, plan, turn, pc, attempt, result, capped>>

Hear(s) ==
  \E q \in At("replied") :
    /\ pc = "running" /\ q.id = Id(s)
    /\ Comes(s, q.reply, q.by)
    /\ HangUp({q}) /\ UNCHANGED faults
    /\ UNCHANGED <<plan, turn, pc, attempt, result, capped>>

\* A completion is streamed, and may break after its status was relayed and recorded.
Breaks(s) ==
  \E q \in At("replied") :
    /\ pc = "running" /\ q.id = Id(s)
    /\ q.path = "completion" /\ q.reply = 200
    /\ Fault
    /\ HangUp({q})
    /\ Comes(s, Cut, NoRun)
    /\ UNCHANGED <<plan, turn, pc, attempt, result, capped>>

\* The crate's own timeouts, which only a slow backend reaches; the request stays behind.
GivesUp(s) ==
  \E q \in At("forwarding") :
    /\ pc = "running" /\ q.id = Id(s)
    /\ Fault
    /\ HangUp({q})
    /\ Comes(s, Late, NoRun)
    /\ UNCHANGED <<plan, turn, pc, attempt, result, capped>>

-----------------------------------------------------------------------------
(* execute_one.                                                             *)

Current == plan[turn]

\* The rule is put in force once, before the first attempt.
Arm ==
  /\ pc = "arm" /\ turn <= Len(plan)
  /\ SetInjection(Current)
  /\ pc' = "start"
  /\ UNCHANGED <<plan, turn, attempt, heard, result, capped>>

\* run_once: the window opens before the crate is built.
Start ==
  /\ pc = "start"
  /\ Mark
  /\ heard' = [s \in Seat |-> <<>>]
  /\ result' = NoResult
  /\ pc' = "running"
  /\ UNCHANGED <<plan, turn, attempt, capped>>

\* cannot_test: our reason, in the field of the crate's error.
BuildFails ==
  /\ pc = "start"
  /\ result' = [NoResult EXCEPT !.outcome = "cannot_test", !.error = TRUE]
  /\ pc' = "attempted"
  /\ UNCHANGED <<proxyVars, plan, turn, attempt, heard, capped>>

\* analyze returns: every seat is settled, or so many failed that the quorum is lost.
Returns ==
  /\ pc = "running"
  /\ \/ \A s \in Seat : Settled(s)
     \/ Cardinality({s \in Seat : Settled(s) => Verdict(s)}) < Quorum
  /\ LET enough == Cardinality(Verdicts) >= Quorum IN
       result' = [NoResult EXCEPT !.outcome = "complete", !.report = enough, !.error = ~enough]
  /\ pc' = "returned"
  /\ HangUp(flight) /\ UNCHANGED faults
  /\ UNCHANGED <<plan, turn, attempt, heard, capped>>

CollectRecords ==
  /\ pc = "returned"
  /\ result' = [result EXCEPT !.records = registry]
  /\ pc' = "collected"
  /\ UNCHANGED <<proxyVars, plan, turn, attempt, heard, capped>>

ReadDegraded ==
  /\ pc = "collected"
  /\ result' = [result EXCEPT !.degraded = degraded]
  /\ pc' = "attempted"
  /\ UNCHANGED <<proxyVars, plan, turn, attempt, heard, capped>>

\* Mutant: the cap is looked at between two requests.
TimesOutBetweenRequests ==
  /\ pc = "running" /\ \A q \in flight : ~q.client
  /\ result' = [NoResult EXCEPT !.outcome = "timed_out"]
  /\ capped' = TRUE
  /\ pc' = "attempted"
  /\ HangUp(flight) /\ UNCHANGED faults
  /\ UNCHANGED <<plan, turn, attempt, heard>>

\* attempt: the future is dropped at the cap with everything it held. What it had asked
\* is still on the proxy's side of the wire.
TimesOut ==
  /\ pc = "running"
  /\ result' = [NoResult EXCEPT !.outcome = "timed_out"]
  /\ capped' = TRUE
  /\ pc' = "attempted"
  /\ HangUp(flight) /\ UNCHANGED faults
  /\ UNCHANGED <<plan, turn, attempt, heard>>

\* run_catching: a panic of the harness's own code, before or after the call of analyze.
HarnessPanics ==
  /\ pc \in {"start", "returned"}
  /\ result' = [NoResult EXCEPT !.outcome = "panicked"]
  /\ pc' = "attempted"
  /\ UNCHANGED <<proxyVars, plan, turn, attempt, heard, capped>>

Inconclusive == result.outcome \in {"timed_out", "panicked"}

\* One retry, under the rule as the first attempt left it.
Retry ==
  /\ pc = "attempted" /\ attempt = 1 /\ Inconclusive
  /\ attempt' = 2
  /\ pc' = "start"
  /\ UNCHANGED <<proxyVars, plan, turn, heard, result, capped>>

Conclude ==
  /\ pc = "attempted"
  /\ attempt = 2 \/ ~Inconclusive
  /\ SetInjection(NoRun)
  /\ pc' = "concluded"
  /\ UNCHANGED <<plan, turn, attempt, heard, result, capped>>

NextRun ==
  /\ pc = "concluded"
  /\ turn' = turn + 1 /\ attempt' = 1 /\ capped' = FALSE
  /\ heard' = [s \in Seat |-> <<>>] /\ result' = NoResult
  /\ pc' = "arm"
  /\ UNCHANGED <<proxyVars, plan>>

RunnerStep ==
  \/ Arm
  \/ Start
  \/ BuildFails
  \/ Returns
  \/ CollectRecords
  \/ ReadDegraded
  \/ Retry
  \/ Conclude
  \/ NextRun

Proxy ==
  /\ \/ AcceptFails
     \/ \E q \in flight : HandlerStep(q)
  /\ UNCHANGED runnerVars

Client == \E s \in Seat : Ask(s) \/ Refused(s) \/ Hear(s) \/ Breaks(s) \/ GivesUp(s)

HarnessNext == Proxy \/ Client \/ RunnerStep \/ HarnessPanics \/ TimesOut

\* The runner's task is polled and the cap's timer fires; nothing is owed by the backend,
\* the proxy or the crate.
HarnessFairness == WF_harnessVars(RunnerStep) /\ WF_harnessVars(TimesOut)

HarnessSpec == HarnessInit /\ [][HarnessNext]_harnessVars /\ HarnessFairness
-----------------------------------------------------------------------------
(* evaluate, and the rows it hands to the scenarios of three runs.          *)

Completions == {r \in result.records : r.path = "completion"}
Any500 == \E r \in Completions : r.status = 500

Row(passes) == IF passes THEN "pass" ELSE "fail"

\* What evaluate decides itself; the rest is left to the scenario.
Evaluated(scenario) ==
  CASE result.outcome = "timed_out"   -> "timeout"
    [] result.outcome = "cannot_test" -> "skip"
    [] OTHER                          -> scenario

\* S2: at least one completion reached the proxy, and none carried the injected status.
NothingInjectedRow ==
  Evaluated(IF ~result.report \/ result.degraded THEN "skip"
            ELSE IF Completions = {} THEN "fail"
            ELSE IF Any500 THEN "skip" ELSE "pass")

\* S4: the injected failure reached a completion request.
InjectedFailureRow ==
  Evaluated(IF result.degraded \/ Completions = {} THEN "skip" ELSE Row(Any500))

\* What made a seat leave its primary, when it had somewhere to go.
LeftOnTransport(s) ==
  /\ Len(ChainOf[s]) > 1
  /\ \E i \in 1 .. Len(heard[s]) :
       /\ heard[s][i] \in Failed(s) /\ heard[s][i].model = ChainOf[s][1]
       /\ heard[s][i].status # Late

\* S-R5a: every cut seat rotated away from its connection.
BlipRow ==
  Evaluated(IF ~result.report THEN "skip"
            ELSE Row(Cardinality({s \in Seat : LeftOnTransport(s)}) = BlipSeats))

-----------------------------------------------------------------------------
(* Properties.                                                              *)

Attempted(outcome) == pc = "attempted" /\ result.outcome = outcome

\* A row is decided by the window alone, so a window of a proxy that is not degraded holds
\* a record of every status the crate was told (proxy.rs: one push, before the response).
CleanWindowIsComplete ==
  Attempted("complete") /\ ~result.degraded =>
    \A s \in Seat : \A i \in 1 .. Len(heard[s]) :
      heard[s][i].status \in Status =>
        [id |-> [turn |-> turn, attempt |-> attempt, seat |-> s, hop |-> i],
         path |-> heard[s][i].path, status |-> heard[s][i].status] \in result.records

\* A seat was told what became of a completion of an injected model.
ToldOfInjection ==
  \E s \in Seat : \E h \in Heard(s) :
    h.path = "completion" /\ h.model \in RuleOf[Current].models

\* No wire row turns red over a crate that works, whatever the backend, the accept loop and
\* the timeouts did, with one exception: where a failure is injected, analyze may end without
\* a report before any seat was told of a completion of the injected model, and the records
\* of other completions make the row red (e1.rs: why_the_wire_cannot_answer looks for any).
RedIsTheCrates ==
  pc = "concluded" =>
    /\ RuleOf[Current].kind = "none" => NothingInjectedRow # "fail"
    /\ RuleOf[Current].kind = "fail" /\ (result.report \/ ToldOfInjection)
         => InjectedFailureRow # "fail"

\* A failure of the proxy's making that the crate was told came from the rule of this very
\* run, to a completion of a model it names, and no more often than its budget for the model
\* allows.
OnlyTheNamedModelFails ==
  \A s \in Seat :
    LET made == {i \in 1 .. Len(heard[s]) : heard[s][i].by # NoRun} IN
      /\ \A i \in made :
           /\ heard[s][i].by = Current
           /\ heard[s][i].path = "completion"
           /\ heard[s][i].model \in RuleOf[Current].models
      /\ made # {} =>
           \/ RuleOf[Current].kind = "fail"
           \/ RuleOf[Current].budget = Always
           \/ \A m \in Model :
                Cardinality({i \in made : heard[s][i].model = m}) <= RuleOf[Current].budget

\* Every run of the plan comes to a result, though the backend may never answer and the
\* accept loop may be gone: the cap is the harness's own (runner.rs: attempt).
EveryRunIsResolved == <>(turn = Len(plan) + 1)

\* config.rs: "Caps, not predictions: a run that reaches one reports a TIME failure, never
\* a verdict about the crate". Here its last attempt met no failure at all.
CapIsNoVerdict ==
  /\ pc = "concluded" /\ capped
  /\ RuleOf[Current].kind = "drop" /\ result.report
  /\ \A s \in Seat : Verdict(s) /\ \A h \in Heard(s) : h.status = 200
  => BlipRow # "fail"

\* run_once: the mark is "Taken BEFORE the run so `records` below holds THIS run's traffic
\* only"; no record of the window was made for an earlier run.
WindowIsOwn ==
  Attempted("complete") => \A r \in result.records : r.id.turn = turn
===============================================================================
