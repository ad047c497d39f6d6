------------------------------- MODULE Ensemble -------------------------------
(***************************************************************************)
(* What one call of `Magi::analyze` promises, with nothing of how: every   *)
(* mage settles, the call is decided once, and each way of deciding it is  *)
(* tied to what the mages did. MagiRun is shown to implement it.           *)
(***************************************************************************)
EXTENDS Naturals, FiniteSets

CONSTANTS Seat, MinAgents

VARIABLES
  settled,  \* what each mage came to
  decision  \* how the call ended

vars == <<settled, decision>>

Fate     == {"pending", "ok", "failed"}
Decision == {"running", "report", "insufficient", "endpoint_down", "crate_defect", "cancelled"}

With(fate) == {s \in Seat : settled[s] = fate}

TypeOK == settled \in [Seat -> Fate] /\ decision \in Decision

Init ==
  /\ settled = [s \in Seat |-> "pending"]
  /\ decision = "running"

\* A mage settles once, also after the call was decided: what is left is cancelled.
Settle(s, fate) ==
  /\ settled[s] = "pending"
  /\ settled' = [settled EXCEPT ![s] = fate]
  /\ UNCHANGED decision

Decide(how) ==
  /\ decision = "running"
  /\ decision' = how
  /\ UNCHANGED settled

\* A report needs every mage settled and a quorum of verdicts.
Report == With("pending") = {} /\ Cardinality(With("ok")) >= MinAgents /\ Decide("report")

\* The plain refusal is the last resort of a run nothing else explains.
Refuse == With("pending") = {} /\ Cardinality(With("ok")) < MinAgents /\ Decide("insufficient")

\* An outage is declared early, but only once the quorum is out of reach.
DeclareOutage ==
  /\ Cardinality(Seat \ With("failed")) < MinAgents
  /\ Decide("endpoint_down")

\* A defect of the crate ends the run whatever the others do, after a mage failed on it.
DeclareDefect == With("failed") # {} /\ Decide("crate_defect")

\* The caller drops the future.
Cancel == Decide("cancelled")

Next ==
  \/ \E s \in Seat, fate \in {"ok", "failed"} : Settle(s, fate)
  \/ Report
  \/ Refuse
  \/ DeclareOutage
  \/ DeclareDefect
  \/ Cancel

Fairness ==
  /\ \A s \in Seat : WF_vars(\E fate \in {"ok", "failed"} : Settle(s, fate))
  /\ WF_vars(Report \/ Refuse)

Safety == Init /\ [][Next]_vars
Spec == Safety /\ Fairness
===============================================================================
