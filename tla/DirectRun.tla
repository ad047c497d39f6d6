------------------------------ MODULE DirectRun ------------------------------
(***************************************************************************)
(* One run without rotation: `Magi::dispatch_no_rotation`                  *)
(* (src/src/orchestrator.rs). The mages share nothing: each task runs      *)
(* `dispatch_one_agent` (opened up in SeatAttempts) and brings its own     *)
(* crate-defect record home, if it has one. The join loop awaits the       *)
(* handles in a fixed order and leaves at the first record it meets;       *)
(* leaving it drops `AbortGuard`.                                          *)
(***************************************************************************)
EXTENDS Integers, Sequences, FiniteSets

CONSTANTS
  Seat,       \* the mages
  JoinOrder,  \* the order the handles are awaited in
  MinAgents   \* the consensus engine's quorum

ASSUME DirectAssumption ==
  /\ IsFiniteSet(Seat)
  /\ JoinOrder \in Seq(Seat)
  /\ Len(JoinOrder) = Cardinality(Seat)
  /\ \A s \in Seat : \E i \in DOMAIN JoinOrder : JoinOrder[i] = s
  /\ MinAgents \in Nat \ {0}

VARIABLES
  task,       \* what each task is or ended as
  joined,     \* handles awaited so far
  successful, failed,
  outcome     \* what the call returned

vars == <<task, joined, successful, failed, outcome>>

\* A task that surfaced NoGeneration ends in "defect": a failure with a record.
Ending == {"ok", "failed", "defect", "panicked"}

Running      == [kind |-> "running"]
Report       == [kind |-> "report", agents |-> successful, failed |-> failed]
Insufficient == [kind |-> "insufficient"]
Cancelled    == [kind |-> "cancelled"]

CrateDefect(s, seen) ==
  [kind |-> "crate_defect", agent |-> s, joined_before_abort |-> seen \ {s}]

Init ==
  /\ task = [s \in Seat |-> "running"]
  /\ joined = 0
  /\ successful = {}
  /\ failed = {}
  /\ outcome = Running

TaskEnds(s, how) ==
  /\ task[s] = "running"
  /\ task' = [task EXCEPT ![s] = how]
  /\ UNCHANGED <<joined, successful, failed, outcome>>

\* The check inside the loop: a record ends the run at once.
Returns(s) ==
  IF task[s] = "defect" THEN outcome' = CrateDefect(s, successful \cup failed')
                        ELSE UNCHANGED outcome

\* Mutant: a panicked task is never awaited to its end.
JoinUnwrapped ==
  /\ outcome = Running /\ joined < Len(JoinOrder)
  /\ LET s == JoinOrder[joined + 1] IN
       /\ task[s] \in {"ok", "failed", "defect"}
       /\ successful' = IF task[s] = "ok" THEN successful \cup {s} ELSE successful
       /\ failed' = IF task[s] = "ok" THEN failed ELSE failed \cup {s}
       /\ Returns(s)
  /\ joined' = joined + 1
  /\ UNCHANGED task

\* One turn of the join loop. A panic is a JoinError: a failure, with its record lost.
Join ==
  /\ outcome = Running /\ joined < Len(JoinOrder)
  /\ LET s == JoinOrder[joined + 1] IN
       /\ task[s] # "running"
       /\ successful' = IF task[s] = "ok" THEN successful \cup {s} ELSE successful
       /\ failed' = IF task[s] = "ok" THEN failed ELSE failed \cup {s}
       /\ Returns(s)
  /\ joined' = joined + 1
  /\ UNCHANGED task

\* After the loop the quorum decides.
Finish ==
  /\ outcome = Running /\ joined = Len(JoinOrder)
  /\ outcome' = IF Cardinality(successful) < MinAgents THEN Insufficient ELSE Report
  /\ UNCHANGED <<task, joined, successful, failed>>

\* The caller drops the future.
Cancel ==
  /\ outcome = Running
  /\ outcome' = Cancelled
  /\ UNCHANGED <<task, joined, successful, failed>>

\* AbortGuard::drop.
AbortLeftOver(s) == outcome # Running /\ TaskEnds(s, "aborted")

Next ==
  \/ \E s \in Seat : (\E how \in Ending : TaskEnds(s, how)) \/ AbortLeftOver(s)
  \/ Join
  \/ Finish
  \/ Cancel

Spec == Init /\ [][Next]_vars

\* Attempts end by their timeouts and the runtime polls the joining task.
Fairness ==
  /\ \A s \in Seat : WF_vars(\E how \in Ending : TaskEnds(s, how))
  /\ WF_vars(Join \/ Finish)

FairSpec == Spec /\ Fairness

-----------------------------------------------------------------------------
(* Properties.                                                              *)

Kinds == {"running", "report", "insufficient", "cancelled", "crate_defect"}

\* The loop's variables keep their types, and what was joined is what was counted.
DirectTypeOK ==
  /\ task \in [Seat -> Ending \cup {"running", "aborted"}]
  /\ joined \in 0 .. Len(JoinOrder)
  /\ successful \cup failed = {JoinOrder[i] : i \in 1 .. joined}
  /\ successful \cap failed = {}
  /\ outcome.kind \in Kinds

\* A report or a refusal comes of a run in which no mage brought home a defect; a report
\* has its quorum of verdicts and accounts for every mage.
OutcomeIsHonest ==
  /\ outcome.kind \in {"report", "insufficient"} =>
       \A s \in Seat : task[s] \in {"ok", "failed", "panicked"}
  /\ outcome.kind = "report" =>
       /\ outcome.agents = {s \in Seat : task[s] = "ok"}
       /\ outcome.failed = Seat \ outcome.agents
       /\ Cardinality(outcome.agents) >= MinAgents

\* Which mage a defect is blamed on depends on the join order alone: it is the first that
\* has one, and exactly the mages joined before it are named.
FirstDefectIsBlamed ==
  outcome.kind = "crate_defect" =>
    LET before == {JoinOrder[i] : i \in 1 .. joined - 1} IN
      /\ outcome.agent = JoinOrder[joined]
      /\ task[outcome.agent] = "defect"
      /\ \A s \in before \ {outcome.agent} : task[s] \in {"ok", "failed", "panicked"}
      /\ outcome.joined_before_abort = before \ {outcome.agent}

\* The refinement mapping: a task that ended without a verdict has failed.
Promise == INSTANCE Ensemble WITH
  settled  <- [s \in Seat |-> CASE task[s] = "running" -> "pending"
                                [] task[s] = "ok" -> "ok"
                                [] OTHER -> "failed"],
  decision <- outcome.kind

\* The call without rotation only does what analyze promises, step by step.
KeepsPromise == Promise!Safety

\* And it gets there: no panic, defect or order of endings leaves the call undecided.
ImplementsEnsemble == Promise!Spec
===============================================================================
