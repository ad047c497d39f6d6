------------------------------- MODULE Rotation -------------------------------
(***************************************************************************)
(* The mages of one run and the state they share: `LineageRegistry`        *)
(* (src/src/rotation.rs) and the per-mage loop                             *)
(* `dispatch_one_agent_rotating` (src/src/orchestrator.rs).                *)
(*                                                                         *)
(* Every mage is a tokio task. The tasks share one registry behind one     *)
(* mutex that is never held across an await, so each critical section is   *)
(* one action and everything between two of them belongs to one mage. A    *)
(* model attempt (`attempt_model`) touches nothing shared and is one       *)
(* action too; its calls and retries are opened up in SeatAttempts.        *)
(***************************************************************************)
EXTENDS Integers, Sequences, FiniteSets

CONSTANTS
  Seat,          \* the mages of the run (Melchior, Balthasar, Caspar)
  Lineage,       \* declared model families
  Model,         \* model names
  Digest,        \* weight digests a probe can resolve
  NoDigest,      \* the digest of a model no probe resolved (`None`)
  NoSeat,        \* the empty crate-defect latch (`None`)
  Primary,       \* [Seat -> Entry]: what each mage starts on
  Pool,          \* the fallback pool, in declaration order
  MaxRotations,  \* the pool's per-mage rotation cap
  Strict,        \* strict_context_guard
  Capabilities   \* the preflight results a run may start from

Entry == [lineage : Lineage, model : Model]

\* What the run's prompt makes of a measured window: at least `min_window_tokens`,
\* below it, or no measurement at all.
Window == {"fits", "small", "unmeasured"}
Capability == [digest : Digest \cup {NoDigest}, window : Window]

ASSUME RotationAssumption ==
  /\ IsFiniteSet(Seat)
  /\ NoSeat \notin Seat
  /\ NoDigest \notin Digest
  /\ Primary \in [Seat -> Entry]
  /\ Pool \in Seq(Entry)
  /\ MaxRotations \in Nat
  /\ Strict \in BOOLEAN
  /\ Capabilities \subseteq [Model -> Capability]

VARIABLES
  capabilities,     \* preflight result of this run, immutable once taken
  \* RegistryInner, behind the mutex
  active,           \* mage |-> entry it holds
  runFailed,        \* lineages condemned run-wide
  connectionFailed, \* lineages that lost their connection
  endpointDown,     \* endpoint_down_signalled
  crateDefect,      \* the mage whose crate-defect record is latched, or NoSeat
  \* the locals of dispatch_one_agent_rotating and AgentRotationState
  pc,               \* where each mage is
  current,          \* current_provider / current_lineage
  failedLineages,   \* lineages this mage failed by itself
  used,             \* models this mage has run
  rotationsDone,
  chain,            \* the RotationEvents of each mage
  cause,            \* class of the failure being handled
  degenerate,       \* degenerate_pool
  result,           \* how the task ended
  detached          \* mages whose slot a spawned task still has to release

registry == <<active, runFailed, connectionFailed, endpointDown, crateDefect>>
locals   == <<current, failedLineages, used, rotationsDone, chain, degenerate>>
vars     == <<capabilities, registry, pc, locals, cause, result, detached>>

-----------------------------------------------------------------------------
(* The stateless policy: RotationPolicy::next_model and its helpers.        *)

\* The classes of ModelOutcome the loop tells apart. MageLocal stands for the four
\* arms that blame the answer (Schema, MageLocal, OversizedResponse, ExternalFailure);
\* a transport failure carries its `connection` flag. `Unexpected` is unreachable:
\* every extraction cause maps to a schema error.
MageLocal  == "mage_local"
Transport  == "transport"
Connection == "connection"
Failure    == {MageLocal, Transport, Connection}
Outcome    == Failure \cup {"success", "crate_defect"}

Event == [from : Lineage, to : Lineage, kind : Failure]

\* window_ok: a measured window must hold the prompt; an unmeasured one passes
\* unless the guard is strict.
WindowOk(m) ==
  \/ capabilities[m].window = "fits"
  \/ capabilities[m].window = "unmeasured" /\ ~Strict

Others(s) == DOMAIN active \ {s}

LineagesInPlay(s) == {active[t].lineage : t \in Others(s)}

\* Mutant: weights compared by model name.
CollidesByName(s, c) == \E t \in Others(s) : active[t].model = c.model

\* digest_collision with the candidate at index 0: proven only when both digests resolved.
Collides(s, c) ==
  /\ capabilities[c.model].digest # NoDigest
  /\ \E t \in Others(s) : capabilities[active[t].model].digest = capabilities[c.model].digest

\* Mutants: one rejection of next_model forgotten.
AdmitsInPlay(s, c) ==
  /\ c.lineage \notin failedLineages[s] \cup runFailed
  /\ c.model \notin used[s]
  /\ WindowOk(c.model)
AdmitsCondemned(s, c) ==
  /\ c.lineage \notin LineagesInPlay(s) \cup failedLineages[s]
  /\ c.model \notin used[s]
  /\ WindowOk(c.model)

\* Conditions 1 to 4 and 6 of next_model; condition 5 is the collision above.
Admits(s, c) ==
  /\ c.lineage \notin LineagesInPlay(s)
  /\ c.lineage \notin failedLineages[s]
  /\ c.lineage \notin runFailed
  /\ c.model \notin used[s]
  /\ WindowOk(c.model)

\* The candidates the re-propose loop of claim_next ever looks at, and those it can take.
Proposable(s) ==
  {i \in DOMAIN Pool : rotationsDone[s] < MaxRotations /\ Admits(s, Pool[i])}
Claimable(s) == {i \in Proposable(s) : ~Collides(s, Pool[i])}

FirstOf(S) == CHOOSE i \in S : \A j \in S : i <= j

\* The exhausted pass of claim_next: the pool has several entries and every one of
\* them was turned down for a proven collision. The count is kept by model name.
DegeneratePool(s) ==
  /\ Len(Pool) > 1
  /\ Cardinality({Pool[i].model : i \in Proposable(s)}) = Len(Pool)

-----------------------------------------------------------------------------
Init ==
  /\ capabilities \in Capabilities
  /\ active = Primary
  /\ runFailed = {}
  /\ connectionFailed = {}
  /\ endpointDown = FALSE
  /\ crateDefect = NoSeat
  /\ pc = [s \in Seat |-> "attempt"]
  /\ current = Primary
  /\ failedLineages = [s \in Seat |-> {}]
  /\ used = [s \in Seat |-> {Primary[s].model}]
  /\ rotationsDone = [s \in Seat |-> 0]
  /\ chain = [s \in Seat |-> <<>>]
  /\ cause = [s \in Seat |-> MageLocal]
  /\ degenerate = [s \in Seat |-> FALSE]
  /\ result = [s \in Seat |-> "pending"]
  /\ detached = {}

GoTo(s, from, to) == pc[s] = from /\ pc' = [pc EXCEPT ![s] = to]
Insert(s, e) == [t \in DOMAIN active \cup {s} |-> IF t = s THEN e ELSE active[t]]

Without(s) == [t \in DOMAIN active \ {s} |-> active[t]]

-----------------------------------------------------------------------------
(* The attempt and its outcomes.                                            *)

\* ModelOutcome::Success: the guard is disarmed, so the mage keeps its lineage.
AttemptSucceeds(s) ==
  /\ GoTo(s, "attempt", "done")
  /\ result' = [result EXCEPT ![s] = "ok"]
  /\ UNCHANGED <<capabilities, registry, locals, cause, detached>>

\* The four mage-local arms: this mage gives the lineage up, nobody else does.
AttemptFailsLocally(s) ==
  /\ GoTo(s, "attempt", "claim")
  /\ failedLineages' = [failedLineages EXCEPT ![s] = @ \cup {current[s].lineage}]
  /\ cause' = [cause EXCEPT ![s] = MageLocal]
  /\ UNCHANGED <<capabilities, registry, current, used, rotationsDone, chain,
                 degenerate, result, detached>>

AttemptFailsInTransport(s, kind) ==
  /\ GoTo(s, "attempt", "register")
  /\ cause' = [cause EXCEPT ![s] = kind]
  /\ UNCHANGED <<capabilities, registry, locals, result, detached>>

AttemptShowsCrateDefect(s) ==
  /\ GoTo(s, "attempt", "release_defect")
  /\ UNCHANGED <<capabilities, registry, locals, cause, result, detached>>

Attempt(s, outcome) ==
  \/ outcome = "success" /\ AttemptSucceeds(s)
  \/ outcome = MageLocal /\ AttemptFailsLocally(s)
  \/ outcome \in {Transport, Connection} /\ AttemptFailsInTransport(s, outcome)
  \/ outcome = "crate_defect" /\ AttemptShowsCrateDefect(s)

-----------------------------------------------------------------------------
(* The critical sections.                                                   *)

\* ENDPOINT_DOWN_LINEAGE_THRESHOLD
Threshold == 2

\* The lineages that lost their connection once this failure is counted.
ConnectionLost(s) ==
  IF cause[s] = Connection THEN connectionFailed \cup {current[s].lineage} ELSE connectionFailed

SignalsEndpointDown(s) ==
  cause[s] = Connection /\ Cardinality(ConnectionLost(s)) >= Threshold

\* register_transport_failure: condemn run-wide; a lost connection also counts towards
\* the endpoint-down latch, which is only ever set.
RegisterTransportFailure(s) ==
  /\ GoTo(s, "register", "claim")
  /\ runFailed' = runFailed \cup {current[s].lineage}
  /\ connectionFailed' = ConnectionLost(s)
  /\ endpointDown' = (endpointDown \/ SignalsEndpointDown(s))
  /\ UNCHANGED <<capabilities, active, crateDefect, locals, cause, result, detached>>

\* claim_next returning Some, and the bookkeeping of the loop that follows it.
ClaimsNext(s) ==
  /\ Claimable(s) # {}
  /\ GoTo(s, "claim", "attempt")
  /\ LET next == Pool[FirstOf(Claimable(s))] IN
       /\ active' = Insert(s, next)
       /\ rotationsDone' = [rotationsDone EXCEPT ![s] = @ + 1]
       /\ chain' = [chain EXCEPT ![s] = Append(@, [from |-> current[s].lineage,
                                                   to |-> next.lineage,
                                                   kind |-> cause[s]])]
       /\ current' = [current EXCEPT ![s] = next]
       /\ used' = [used EXCEPT ![s] = @ \cup {next.model}]
  /\ UNCHANGED <<capabilities, runFailed, connectionFailed, endpointDown, crateDefect,
                 failedLineages, cause, degenerate, result, detached>>

\* Mutant: an exhausted pool is proposed again and again.
Reproposes(s) == pc[s] = "claim" /\ Claimable(s) = {} /\ UNCHANGED vars

\* claim_next returning None: the registry is left intact.
FindsNoCandidate(s) ==
  /\ Claimable(s) = {}
  /\ GoTo(s, "claim", "release")
  /\ degenerate' = [degenerate EXCEPT ![s] = @ \/ DegeneratePool(s)]
  /\ UNCHANGED <<capabilities, registry, current, failedLineages, used, rotationsDone,
                 chain, cause, result, detached>>

\* release after an exhausted pool: the mage ends with no_fitting_candidate.
ReleaseExhausted(s) ==
  /\ GoTo(s, "release", "done")
  /\ active' = Without(s)
  /\ result' = [result EXCEPT ![s] = "failed"]
  /\ UNCHANGED <<capabilities, runFailed, connectionFailed, endpointDown, crateDefect,
                 locals, cause, detached>>

\* A crate defect gives the slot back first and latches in a second critical section.
ReleaseDefective(s) ==
  /\ GoTo(s, "release_defect", "latch")
  /\ active' = Without(s)
  /\ UNCHANGED <<capabilities, runFailed, connectionFailed, endpointDown, crateDefect,
                 locals, cause, result, detached>>

LatchCrateDefect(s) ==
  /\ GoTo(s, "latch", "done")
  /\ crateDefect' = IF crateDefect = NoSeat THEN s ELSE crateDefect
  /\ result' = [result EXCEPT ![s] = "failed"]
  /\ UNCHANGED <<capabilities, active, runFailed, connectionFailed, endpointDown,
                 locals, cause, detached>>

-----------------------------------------------------------------------------
(* Abnormal exits: AgentSlotGuard::drop.                                    *)

\* Mutant: a contended release is given up.
DropUncontended(s, released) ==
  /\ UNCHANGED detached
  /\ active' = Without(s) \/ UNCHANGED active

\* The guard gives the slot back unless the task already did. try_lock fails when some
\* other task is inside the mutex: a detached task then releases the slot later.
DropGuard(s, released) ==
  \/ released /\ UNCHANGED <<active, detached>>
  \/ ~released /\ active' = Without(s) /\ UNCHANGED detached
  \/ ~released /\ detached' = detached \cup {s} /\ UNCHANGED active

Ends(s, how) ==
  /\ pc' = [pc EXCEPT ![s] = "done"]
  /\ result' = [result EXCEPT ![s] = how]
  /\ DropGuard(s, pc[s] = "latch")
  /\ UNCHANGED <<capabilities, runFailed, connectionFailed, endpointDown, crateDefect,
                 locals, cause>>

\* A provider is the caller's code and may panic while it answers.
Panic(s) == pc[s] = "attempt" /\ Ends(s, "panicked")

\* The task is aborted at an await point: the run was decided or dropped.
Abort(s) == pc[s] # "done" /\ Ends(s, "aborted")

DetachedRelease(s) ==
  /\ s \in detached
  /\ active' = Without(s)
  /\ detached' = detached \ {s}
  /\ UNCHANGED <<capabilities, runFailed, connectionFailed, endpointDown, crateDefect,
                 pc, locals, cause, result>>

-----------------------------------------------------------------------------
\* What a mage does by itself, whoever else runs.
MageStep(s) ==
  \/ \E outcome \in Outcome : Attempt(s, outcome)
  \/ RegisterTransportFailure(s)
  \/ ClaimsNext(s)
  \/ FindsNoCandidate(s)
  \/ ReleaseExhausted(s)
  \/ ReleaseDefective(s)
  \/ LatchCrateDefect(s)
  \/ Panic(s)

Next == \E s \in Seat : MageStep(s) \/ Abort(s) \/ DetachedRelease(s)

\* The runtime polls every task again after it was woken, and an attempt ends because
\* each call is wrapped in tokio::time::timeout. Aborts are never owed.
Fairness == \A s \in Seat : WF_vars(MageStep(s)) /\ WF_vars(DetachedRelease(s))

Spec == Init /\ [][Next]_vars
-----------------------------------------------------------------------------
(* Properties.                                                              *)

Pc     == {"attempt", "register", "claim", "release", "release_defect", "latch", "done"}
Result == {"pending", "ok", "failed", "panicked", "aborted"}

\* Every variable keeps the type its Rust counterpart has.
TypeOK ==
  /\ capabilities \in [Model -> Capability]
  /\ DOMAIN active \subseteq Seat
  /\ active \in [DOMAIN active -> Entry]
  /\ runFailed \subseteq Lineage
  /\ connectionFailed \subseteq Lineage
  /\ endpointDown \in BOOLEAN
  /\ crateDefect \in Seat \cup {NoSeat}
  /\ pc \in [Seat -> Pc]
  /\ current \in [Seat -> Entry]
  /\ failedLineages \in [Seat -> SUBSET Lineage]
  /\ used \in [Seat -> SUBSET Model]
  /\ rotationsDone \in [Seat -> Nat]
  /\ chain \in [Seat -> Seq(Event)]
  /\ cause \in [Seat -> Failure]
  /\ degenerate \in [Seat -> BOOLEAN]
  /\ result \in [Seat -> Result]
  /\ detached \subseteq Seat

\* Lineage (rotation.rs): "two live mages never share a lineage". build() lets two
\* primaries share one, so what the registry owes is that a ROTATION never brings two
\* mages together: those who share have both stayed on their primaries.
RotationKeepsDiversity ==
  \A s, t \in DOMAIN active :
    s # t /\ active[s].lineage = active[t].lineage
      => rotationsDone[s] = 0 /\ rotationsDone[t] = 0

\* The digest check of claim_next: a rotation never puts a mage on weights that are
\* proven to be another live mage's.
NoProvenCollapse ==
  \A s, t \in DOMAIN active :
    /\ s # t
    /\ capabilities[active[s].model].digest # NoDigest
    /\ capabilities[active[s].model].digest = capabilities[active[t].model].digest
    => rotationsDone[s] = 0 /\ rotationsDone[t] = 0

\* register_transport_failure decides the endpoint-down latch in the critical section
\* that condemns: the latch is set exactly when two distinct lineages lost their
\* connection, and a lineage that lost its connection is condemned.
LatchIsExact ==
  /\ connectionFailed \subseteq runFailed
  /\ endpointDown <=> Cardinality(connectionFailed) >= Threshold

\* A mage's chain starts at its primary, every hop leaves the lineage the last one
\* reached, it ends where the mage is, it never exceeds the cap, and the mage never
\* comes back to a lineage it left, whatever made it leave.
NeverReturns ==
  \A s \in Seat :
    /\ Len(chain[s]) = rotationsDone[s] /\ rotationsDone[s] <= MaxRotations
    /\ \A i \in DOMAIN chain[s] :
         /\ chain[s][i].from = IF i = 1 THEN Primary[s].lineage ELSE chain[s][i - 1].to
         /\ \A j \in i .. Len(chain[s]) : chain[s][j].to # chain[s][i].from
    /\ current[s].lineage = IF chain[s] = <<>> THEN Primary[s].lineage
                                               ELSE chain[s][Len(chain[s])].to

\* AgentSlotGuard and the explicit releases: a mage at work holds exactly the entry it
\* runs, a valid verdict keeps it, and any other end gives it back, at once or through
\* the detached task.
SlotFollowsMage ==
  /\ \A s \in DOMAIN active : active[s] = current[s]
  /\ \A s \in Seat :
       /\ pc[s] \notin {"latch", "done"} => s \in DOMAIN active \ detached
       /\ result[s] = "ok" => s \in DOMAIN active \ detached
       /\ result[s] \in {"failed", "panicked", "aborted"} =>
            s \notin DOMAIN active \/ s \in detached

\* Once a lineage is condemned no further mage arrives on it: claim_next reads the
\* condemned set and commits in one critical section.
NobodyArrivesOnCondemned ==
  [][\A l \in runFailed :
       {s \in Seat : current'[s].lineage = l} \subseteq {s \in Seat : current[s].lineage = l}]_vars

\* Slot cleanup runs on every exit: in the end the registry holds the successful mages only.
SlotsSettle == <>[](DOMAIN active = {s \in Seat : result[s] = "ok"})
===============================================================================
