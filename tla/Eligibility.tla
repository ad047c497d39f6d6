------------------------------ MODULE Eligibility ------------------------------
(***************************************************************************)
(* What a rotating run reports of its pool before any mage is dispatched:  *)
(* `pool_eligibility_snapshot` (src/src/rotation.rs), taken by             *)
(* `dispatch_with_rotation` (src/src/orchestrator.rs).                     *)
(*                                                                         *)
(* The snapshot restates the filter of RotationPolicy::next_model in a     *)
(* second place, without its short circuit. The module puts it beside the  *)
(* run of Rotation: the restatement is compared with the filter in every   *)
(* state, and what was forecast at dispatch with what the mages then did.  *)
(***************************************************************************)
EXTENDS Rotation

VARIABLE snapshot   \* pool_eligibility: mage |-> candidate |-> causes

Budget     == "rotation_budget_exhausted"
Held       == "lineage_held_by_another_mage"
FailedHere == "lineage_failed_for_this_mage"
Condemned  == "lineage_condemned_run_wide"
Used       == "model_already_used_by_this_mage"
Collision  == "digest_collision"
TooSmall   == "window_below_coarse_estimate"
Unmeasured == "window_unmeasured_under_strict_guard"

\* SeatProgress: what is stated of a seat. `NotStated` models are the
\* configured one; a live seat has used at least that.
NotStated == {}
Fresh == [failedLineages |-> {}, used |-> NotStated, collisions |-> {}, rotationsDone |-> 0]
Live(s, collisions) ==
  [failedLineages |-> failedLineages[s], used |-> used[s], collisions |-> collisions,
   rotationsDone |-> rotationsDone[s]]

If(holds, why) == IF holds THEN {why} ELSE {}

\* Mutant: one condition of the filter was not carried over.
CausesUncondemned(seats, condemned, progress, s, c) ==
  If(progress.rotationsDone >= MaxRotations, Budget)
    \cup If(\E t \in DOMAIN seats \ {s} : seats[t].lineage = c.lineage, Held)
    \cup If(c.lineage \in progress.failedLineages, FailedHere)
    \cup If(c.model \in progress.used, Used)
    \cup If(c.model \in progress.collisions, Collision)
    \cup If(capabilities[c.model].window = "small", TooSmall)
    \cup If(capabilities[c.model].window = "unmeasured" /\ Strict, Unmeasured)
\* Mutant: the window is read at the strict guard only.
CausesUnsized(seats, condemned, progress, s, c) ==
  If(progress.rotationsDone >= MaxRotations, Budget)
    \cup If(\E t \in DOMAIN seats \ {s} : seats[t].lineage = c.lineage, Held)
    \cup If(c.lineage \in progress.failedLineages, FailedHere)
    \cup If(c.lineage \in condemned, Condemned)
    \cup If(c.model \in progress.used, Used)
    \cup If(capabilities[c.model].window = "unmeasured" /\ Strict, Unmeasured)

\* Every condition that rules candidate `c` out for mage `s`, not only the first.
Causes(seats, condemned, progress, s, c) ==
  If(progress.rotationsDone >= MaxRotations, Budget)
    \cup If(\E t \in DOMAIN seats \ {s} : seats[t].lineage = c.lineage, Held)
    \cup If(c.lineage \in progress.failedLineages, FailedHere)
    \cup If(c.lineage \in condemned, Condemned)
    \cup If(IF progress.used = NotStated THEN c.model = seats[s].model
                                        ELSE c.model \in progress.used, Used)
    \cup If(c.model \in progress.collisions, Collision)
    \cup If(capabilities[c.model].window = "small", TooSmall)
    \cup If(capabilities[c.model].window = "unmeasured" /\ Strict, Unmeasured)

\* The snapshot is taken once, before dispatch, with nothing condemned and fresh seats.
EligibilityInit ==
  /\ Init
  /\ snapshot = [s \in DOMAIN Primary |-> [i \in DOMAIN Pool |->
                   Causes(Primary, {}, Fresh, s, Pool[i])]]

EligibilityNext == Next /\ UNCHANGED snapshot
\* Rotation's FairSpec, with the report that was made of it at dispatch.
EligibilitySpec ==
  /\ EligibilityInit
  /\ [][EligibilityNext]_<<vars, snapshot>>
  /\ Fairness
-----------------------------------------------------------------------------
(* Properties.                                                              *)

\* "the function models the whole candidate filter": for a seat at work, whatever it has
\* turned down for its digest so far, a candidate is without a cause exactly when
\* next_model could propose it. The two places state the seven conditions apart.
SnapshotIsTheFilter ==
  \A s \in DOMAIN active, D \in SUBSET {Pool[i].model : i \in DOMAIN Pool} :
    {i \in DOMAIN Pool : Causes(active, runFailed, Live(s, D), s, Pool[i]) = {}}
      = {i \in Proposable(s) : Pool[i].model \notin D}

\* Causes that are facts of the configuration and the prompt, and outlive the moment they
\* were read.
Lasting(causes) == causes \cap {Used, TooSmall, Unmeasured}

\* A seat that ends without a hop while the report listed candidates it could have used
\* lost each of them to something that happened since: another mage holds the lineage, it
\* failed or was condemned, or its weights are proven to be a live mage's.
LossIsExplained ==
  [][\A s \in Seat, i \in DOMAIN Pool :
       (/\ pc[s] = "claim" /\ pc'[s] = "release"
        /\ rotationsDone[s] < MaxRotations
        /\ Lasting(snapshot[s][i]) = {} /\ Pool[i].model \notin used[s])
       => \/ Pool[i].lineage \in LineagesInPlay(s) \cup failedLineages[s] \cup runFailed
          \/ Collides(s, Pool[i])]_vars
===============================================================================
