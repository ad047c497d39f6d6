------------------------------- MODULE MagiRun --------------------------------
(***************************************************************************)
(* One run with rotation: `Magi::dispatch_with_rotation`                   *)
(* (src/src/orchestrator.rs). It spawns the mages of Rotation, awaits      *)
(* their handles in a fixed order and, after EVERY join, asks the registry *)
(* whether the run must stop. The crate-defect latch and the endpoint-down *)
(* latch are read in separate critical sections, so mages may step in      *)
(* between. Leaving the function drops `AbortGuard`, which aborts whatever *)
(* still runs; the caller may also drop the whole future.                  *)
(***************************************************************************)
EXTENDS Rotation

CONSTANTS
  JoinOrder,  \* the order the handles are awaited in
  MinAgents   \* the consensus engine's quorum

ASSUME RunAssumption ==
  /\ JoinOrder \in Seq(Seat)
  /\ Len(JoinOrder) = Cardinality(Seat)
  /\ \A s \in Seat : \E i \in DOMAIN JoinOrder : JoinOrder[i] = s
  /\ MinAgents \in Nat \ {0}

VARIABLES
  join,       \* where the join loop is
  joined,     \* handles awaited so far
  successful, \* mages joined with a verdict
  failed,     \* mages joined without one
  outcome     \* what the call returned

runVars == <<join, joined, successful, failed, outcome>>
allVars == <<vars, runVars>>

Running      == [kind |-> "running"]
Report       == [kind |-> "report", agents |-> successful, failed |-> failed]
Insufficient == [kind |-> "insufficient"]
Cancelled    == [kind |-> "cancelled"]
EndpointDown == [kind |-> "endpoint_down", lineages |-> connectionFailed]

\* Mutant: the mage to blame is also listed as a bystander.
CrateDefectOfAll == [kind |-> "crate_defect", agent |-> crateDefect,
                     joined_before_abort |-> successful \cup failed]
CrateDefect  == [kind |-> "crate_defect", agent |-> crateDefect,
                 joined_before_abort |-> (successful \cup failed) \ {crateDefect}]

RunInit ==
  /\ Init
  /\ join = "await"
  /\ joined = 0
  /\ successful = {}
  /\ failed = {}
  /\ outcome = Running

-----------------------------------------------------------------------------
(* The join loop.                                                           *)

At(place) == outcome = Running /\ join = place

\* Mutant: the failed mages count as pending.
QuorumOfTheUnheard ==
  Cardinality(successful) + (Cardinality(Seat) - Cardinality(successful)) >= MinAgents

\* quorum_reachable, with remaining_seats derived from what was joined.
QuorumReachable ==
  LET remaining == Cardinality(Seat) - Cardinality(successful \cup failed)
  IN  Cardinality(successful) + remaining >= MinAgents

\* What handle.await gives: a panic is a JoinError and counts as a failure.
Counts(s) ==
  /\ successful' = IF result[s] = "ok" THEN successful \cup {s} ELSE successful
  /\ failed' = IF result[s] = "ok" THEN failed ELSE failed \cup {s}

Join ==
  /\ At("await") /\ joined < Len(JoinOrder)
  /\ LET s == JoinOrder[joined + 1] IN pc[s] = "done" /\ Counts(s)
  /\ joined' = joined + 1
  /\ join' = "defect?"
  /\ UNCHANGED <<vars, outcome>>

\* Mutant: a defect is forgiven while the quorum stands.
ForgiveCrateDefect ==
  /\ At("defect?")
  /\ IF crateDefect # NoSeat /\ ~QuorumReachable
     THEN outcome' = CrateDefect /\ UNCHANGED join
     ELSE join' = "endpoint?" /\ UNCHANGED outcome
  /\ UNCHANGED <<vars, joined, successful, failed>>

\* resolve_crate_defect, the first read of resolve_run_abort.
ResolveCrateDefect ==
  /\ At("defect?")
  /\ IF crateDefect # NoSeat
     THEN outcome' = CrateDefect /\ UNCHANGED join
     ELSE join' = "endpoint?" /\ UNCHANGED outcome
  /\ UNCHANGED <<vars, joined, successful, failed>>

\* Mutant: an outage the run can survive is checked again instead of awaiting a handle.
RecheckEndpointDown ==
  /\ At("endpoint?")
  /\ join' = IF ~endpointDown THEN "await" ELSE IF QuorumReachable THEN "defect?" ELSE "lineages"
  /\ UNCHANGED <<vars, joined, successful, failed, outcome>>

\* resolve_endpoint_down: the latch is read every time, acted on without a quorum only.
ResolveEndpointDown ==
  /\ At("endpoint?")
  /\ join' = IF endpointDown /\ ~QuorumReachable THEN "lineages" ELSE "await"
  /\ UNCHANGED <<vars, joined, successful, failed, outcome>>

\* connection_failed_lineages, read in a critical section of its own.
AbortEndpointDown ==
  /\ At("lineages")
  /\ outcome' = EndpointDown
  /\ UNCHANGED <<vars, join, joined, successful, failed>>

\* After the loop: the quorum decides, and analyze goes on to the report.
Finish ==
  /\ At("await") /\ joined = Len(JoinOrder)
  /\ outcome' = IF Cardinality(successful) < MinAgents THEN Insufficient ELSE Report
  /\ UNCHANGED <<vars, join, joined, successful, failed>>

JoinStep ==
  Join \/ ResolveCrateDefect \/ ResolveEndpointDown \/ AbortEndpointDown \/ Finish

\* The caller drops the future of analyze, which waits at an await point.
Cancel ==
  /\ outcome = Running
  /\ outcome' = Cancelled
  /\ UNCHANGED <<vars, join, joined, successful, failed>>

-----------------------------------------------------------------------------
\* Mutant: only a dropped call aborts its mages, an early return forgets them.
AbortCancelled(s) == outcome = Cancelled /\ Abort(s) /\ UNCHANGED runVars

\* AbortGuard::drop has run: every handle is aborted, and a task ends at the next point
\* where it yields; until then it may still take steps.
AbortLeftOver(s) == outcome # Running /\ Abort(s) /\ UNCHANGED runVars

Mage(s) == (MageStep(s) \/ DetachedRelease(s)) /\ UNCHANGED runVars

RunNext ==
  \/ \E s \in Seat : Mage(s) \/ AbortLeftOver(s)
  \/ JoinStep
  \/ Cancel

\* What the runtime owes a run even if its providers never answer: it polls the joining
\* task and every spawned one, and carries out aborts.
RunFairness ==
  /\ \A s \in Seat : /\ WF_allVars(DetachedRelease(s) /\ UNCHANGED runVars)
                     /\ WF_allVars(AbortLeftOver(s))
  /\ WF_allVars(JoinStep)

\* What the timeouts around every call add to that: each mage goes on.
MagesGoOn == \A s \in Seat : WF_allVars(MageStep(s) /\ UNCHANGED runVars)

RunSpec == RunInit /\ [][RunNext]_allVars
FairRunSpec == RunSpec /\ RunFairness

-----------------------------------------------------------------------------
(* Properties.                                                              *)

Ended(s) == pc[s] = "done"
Verdicts == {s \in Seat : result[s] = "ok"}

\* The loop's variables keep their types, and what was joined is what was counted.
RunTypeOK ==
  /\ join \in {"await", "defect?", "endpoint?", "lineages"}
  /\ joined \in 0 .. Len(JoinOrder)
  /\ successful \cup failed = {JoinOrder[i] : i \in 1 .. joined}
  /\ successful \cap failed = {}
  /\ outcome.kind \in {"running", "report", "insufficient", "cancelled",
                       "endpoint_down", "crate_defect"}

\* A report is only made of a quorum of real verdicts, accounts for every mage, and never
\* hides a crate defect some mage ran into (resolve_crate_defect: "it aborts" whatever the
\* quorum), however late that mage latched it.
ReportIsComplete ==
  outcome.kind = "report" =>
    /\ outcome.agents = Verdicts
    /\ outcome.failed = Seat \ Verdicts
    /\ Cardinality(outcome.agents) >= MinAgents
    /\ crateDefect = NoSeat

\* InsufficientAgents belongs to a run nothing else explains: every mage was heard, too few
\* answered, and neither latch is set.
InsufficientIsLastResort ==
  outcome.kind = "insufficient" =>
    /\ \A s \in Seat : Ended(s)
    /\ Cardinality(Verdicts) < MinAgents
    /\ crateDefect = NoSeat
    /\ ~endpointDown

\* EndpointDown never abandons a run that could still have recovered: at that time fewer
\* mages than the quorum had not yet failed, counting those the loop had not joined; and it
\* names at least two lineages, all condemned.
OutageMeansNoQuorum ==
  outcome.kind = "endpoint_down" =>
    /\ Cardinality({s \in Seat : result[s] \notin {"failed", "panicked"}}) < MinAgents
    /\ outcome.lineages \subseteq runFailed
    /\ Cardinality(outcome.lineages) >= Threshold

\* The defect report blames the mage that latched, and names as joined before the abort
\* only other mages that had really ended.
DefectBlamesItsMage ==
  outcome.kind = "crate_defect" =>
    /\ outcome.agent \in Seat /\ outcome.agent = crateDefect
    /\ outcome.agent \notin outcome.joined_before_abort
    /\ \A s \in outcome.joined_before_abort :
         s \in Seat /\ Ended(s) /\ result[s] # "aborted"

\* resolve_run_abort (orchestrator.rs): "A defect of THIS crate is raised BEFORE
\* endpoint-down": whenever an outage is reported no defect is latched.
DefectOutranksOutage ==
  [][outcome = Running /\ outcome'.kind = "endpoint_down" => crateDefect = NoSeat]_allVars

\* No task outlives its run, however the call returned and though providers may hang:
\* AbortGuard reaps every mage and every slot is settled.
NothingOutlivesRun ==
  outcome # Running ~> (\A s \in Seat : Ended(s)) /\ detached = {}

\* The refinement mapping: an abort settles a mage without a verdict.
Promise == INSTANCE Ensemble WITH
  settled  <- [s \in Seat |-> CASE result[s] = "pending" -> "pending"
                                [] result[s] = "ok" -> "ok"
                                [] OTHER -> "failed"],
  decision <- outcome.kind

\* Step by step, a run only does what analyze promises.
KeepsPromise == Promise!Safety

\* And it gets there: with bounded attempts the run has the promise's fairness too.
ImplementsEnsemble == KeepsPromise /\ (MagesGoOn => Promise!Fairness)
===============================================================================
