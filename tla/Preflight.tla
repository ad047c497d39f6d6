------------------------------- MODULE Preflight -------------------------------
(***************************************************************************)
(* The capability probes that run before a rotating analysis:              *)
(* `run_preflight_within` (src/src/rotation.rs), fed by                    *)
(* `collect_probe_targets` (src/src/orchestrator.rs).                      *)
(*                                                                         *)
(* One tokio task per probe, all spawned at once and serialised by a       *)
(* semaphore. A task asks for the window and for the digest at the same    *)
(* time; the two share one deadline and expire each by itself. The caller  *)
(* joins the tasks in the order they end and keys the answers by model.    *)
(* A unit of time is abstract; timers that are due and tasks that can take *)
(* a permit run before the clock moves on.                                 *)
(***************************************************************************)
EXTENDS Integers, Sequences, FiniteSets

CONSTANTS
  Task,      \* one per (model, probe) pair: primaries' probes, then candidates'
  Model,     \* model names
  ModelOf,   \* the model each probe is filed under
  NoTask,    \* nobody measured it (`None`)
  Permits,   \* MAX_PREFLIGHT_CONCURRENCY
  Budgets,   \* the budgets a caller may pass
  Latest     \* the last instant the clock can represent

ASSUME PreflightAssumption ==
  /\ IsFiniteSet(Task)
  /\ NoTask \notin Task
  /\ ModelOf \in [Task -> Model]
  /\ Permits \in Nat \ {0}
  /\ Budgets \subseteq Nat
  /\ Latest \in Nat

VARIABLES
  now,
  budget,        \* the per-candidate budget of this call
  phase,         \* where each task is
  since,         \* when it took its permit
  deadline,      \* the deadline both halves share
  half,          \* task |-> half |-> what became of the call
  permits,       \* permits left in the semaphore
  ended,         \* the tasks that ended, in that order
  joined,        \* how many of them the caller has joined
  capabilities   \* model |-> who measured its window and its digest

taskVars == <<phase, since, deadline, half, permits>>
vars     == <<now, budget, taskVars, ended, joined, capabilities>>

Half   == {"window", "digest"}
\* A value, or an answer that measures nothing (`Ok(None)` and `Err` alike).
Answer == {"measured", "nothing"}
Call   == Answer \cup {"pending", "late"}
Phase  == {"queued", "probing", "finished", "panicked", "aborted"}

-----------------------------------------------------------------------------
Init ==
  /\ now = 0
  /\ budget \in Budgets
  /\ phase = [t \in Task |-> "queued"]
  /\ since = [t \in Task |-> 0]
  /\ deadline = [t \in Task |-> 0]
  /\ half = [t \in Task |-> [h \in Half |-> "pending"]]
  /\ permits = Permits
  /\ ended = <<>>
  /\ joined = 0
  /\ capabilities = <<>>

InPhase(p) == {t \in Task : phase[t] = p}
Pending(t) == {h \in Half : half[t][h] = "pending"}
Overdue(t) == phase[t] = "probing" /\ Pending(t) # {} /\ deadline[t] <= now
Dropped    == InPhase("aborted") # {}

\* `checked_add`: a budget beyond the clock expires at once.
Deadline == IF now + budget <= Latest THEN now + budget ELSE now

TakePermit(t) ==
  /\ phase[t] = "queued"
  /\ permits > 0
  /\ permits' = permits - 1
  /\ phase' = [phase EXCEPT ![t] = "probing"]
  /\ since' = [since EXCEPT ![t] = now]
  /\ deadline' = [deadline EXCEPT ![t] = Deadline]
  /\ UNCHANGED <<now, budget, half, ended, joined, capabilities>>

Resolve(t, h, call) ==
  /\ phase[t] = "probing"
  /\ half[t][h] = "pending"
  /\ half' = [half EXCEPT ![t][h] = call]
  /\ UNCHANGED <<now, budget, phase, since, deadline, permits, ended, joined, capabilities>>

\* timeout_at polls the call before the timer: an answer that is there at the
\* deadline still counts.
ProbeAnswers(t, h, answer) == Resolve(t, h, answer)

Expire(t, h) == Overdue(t) /\ Resolve(t, h, "late")

Ends(t, how) ==
  /\ phase[t] = "probing"
  /\ phase' = [phase EXCEPT ![t] = how]
  /\ ended' = Append(ended, t)
  /\ UNCHANGED <<now, budget, since, deadline, half, joined, capabilities>>

\* Both halves resolved: the task returns and its permit goes back.
Finish(t) ==
  /\ Pending(t) = {}
  /\ Ends(t, "finished")
  /\ permits' = permits + 1

\* Mutant: a task that panics keeps its permit.
PanicKeepsPermit(t) == Pending(t) # {} /\ Ends(t, "panicked") /\ UNCHANGED permits

\* A probe is the caller's code: a panic in it ends its task, unwinding drops the permit.
Panic(t) ==
  /\ Pending(t) # {}
  /\ Ends(t, "panicked")
  /\ permits' = permits + 1

\* Mutant: timeout(join!(..)), one timer around both calls.
MeasuredTogether(t) ==
  [h \in Half |-> IF half[t][h] = "measured" /\ \A g \in Half : half[t][g] # "late"
                  THEN t ELSE NoTask]

\* What a finished task hands over.
Measured(t) == [h \in Half |-> IF half[t][h] = "measured" THEN t ELSE NoTask]

Insert(t) ==
  [m \in DOMAIN capabilities \cup {ModelOf[t]} |->
     IF m = ModelOf[t] THEN Measured(t) ELSE capabilities[m]]

\* join_next, in the order the tasks ended; a panicked task is skipped.
JoinNext ==
  /\ ~Dropped
  /\ joined < Len(ended)
  /\ joined' = joined + 1
  /\ LET t == ended[joined + 1] IN
       capabilities' = IF phase[t] = "finished" THEN Insert(t) ELSE capabilities
  /\ UNCHANGED <<now, budget, taskVars, ended>>

\* join_next returned None: every task was joined.
Returned == joined = Cardinality(Task)

\* The caller's future is dropped: the JoinSet aborts what still runs, permits included.
CallerDrops ==
  /\ InPhase("queued") \cup InPhase("probing") # {}
  /\ phase' = [t \in Task |-> IF phase[t] \in {"queued", "probing"} THEN "aborted" ELSE phase[t]]
  /\ permits' = permits + Cardinality(InPhase("probing"))
  /\ UNCHANGED <<now, budget, since, deadline, half, ended, joined, capabilities>>

\* Time passes while some probe is awaited, after everything due at this instant.
Tick ==
  /\ InPhase("probing") # {}
  /\ \A t \in InPhase("probing") : Pending(t) # {} /\ ~Overdue(t)
  /\ InPhase("queued") = {} \/ permits = 0
  /\ now' = now + 1
  /\ UNCHANGED <<budget, taskVars, ended, joined, capabilities>>

TaskStep(t) == TakePermit(t) \/ Finish(t) \/ \E h \in Half : Expire(t, h)

Next ==
  \/ \E t \in Task :
       \/ TaskStep(t)
       \/ Panic(t)
       \/ \E h \in Half, answer \in Answer : ProbeAnswers(t, h, answer)
  \/ JoinNext
  \/ CallerDrops
  \/ Tick

\* The runtime runs what is ready and its clock moves. No probe owes an answer.
Fairness ==
  /\ \A t \in Task : WF_vars(TaskStep(t))
  /\ WF_vars(JoinNext)
  /\ WF_vars(Tick)

Spec == Init /\ [][Next]_vars
FairSpec == Spec /\ Fairness
-----------------------------------------------------------------------------
(* Properties.                                                              *)

\* Every variable keeps the type its Rust counterpart has.
TypeOK ==
  /\ now \in Nat
  /\ budget \in Budgets
  /\ phase \in [Task -> Phase]
  /\ since \in [Task -> Nat]
  /\ deadline \in [Task -> Nat]
  /\ half \in [Task -> [Half -> Call]]
  /\ permits \in Nat
  /\ ended \in Seq(Task)
  /\ joined \in 0 .. Len(ended)
  /\ DOMAIN capabilities \subseteq Model
  /\ capabilities \in [DOMAIN capabilities -> [Half -> Task \cup {NoTask}]]

\* The semaphore bounds the probes in flight, and every way a task can end (answer,
\* deadline, panic, abort) gives its permit back exactly once.
PermitsAreConserved == permits + Cardinality(InPhase("probing")) = Permits

\* run_preflight_within: "a deadline taken before queuing would hand a queued candidate
\* whatever was left". A half is called late only after its task had the whole budget
\* to itself, unless the clock cannot represent the sum.
FullBudget ==
  \A t \in Task, h \in Half :
    half[t][h] = "late" => now >= since[t] + budget \/ since[t] + budget > Latest

\* "last-writer-wins": the map holds, for every model, what the last of its probes to
\* end measured. A panicked probe neither adds nor erases an entry, a half that answered
\* is kept even when its sibling never does, and no entry mixes two probes.
Answered(m) == {i \in 1 .. joined : ModelOf[ended[i]] = m /\ phase[ended[i]] = "finished"}
LastProbeWins ==
  /\ DOMAIN capabilities = {m \in Model : Answered(m) # {}}
  /\ \A m \in DOMAIN capabilities : \E i \in Answered(m) :
       /\ \A j \in Answered(m) : j <= i
       /\ \A h \in Half :
            capabilities[m][h] = IF half[ended[i]][h] = "measured" THEN ended[i] ELSE NoTask

\* A probe that never answers or panics never holds the analysis up: the preflight
\* returns, unless its caller goes away.
PreflightReturns == <>(Returned \/ Dropped)
===============================================================================
