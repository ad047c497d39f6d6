----------------------------- MODULE SeatAttempts -----------------------------
(***************************************************************************)
(* What one mage does between two looks at the registry: the calls of      *)
(* `attempt_model` (src/src/orchestrator.rs), each under the per-agent     *)
(* timeout, with its corrective retry, on one model after another. With    *)
(* MaxRotations = 0 it is `dispatch_one_agent`, the call without rotation, *)
(* which runs the same machine on the configured model only.               *)
(*                                                                         *)
(* Rotation keeps of an attempt no more than its outcome; here are the     *)
(* calls behind it, the telemetry they leave and the time they take.       *)
(***************************************************************************)
EXTENDS Integers, Sequences, FiniteSets, SequencesExt

CONSTANTS
  MaxRotations,  \* how many models may follow the first
  Timeout,       \* MagiConfig::timeout, round every call
  CallTimes,     \* how long a call that returns may take
  Causes,        \* ExtractionFailureCause
  Errors         \* the provider errors considered

\* ProviderError, all twelve variants.
ProviderError ==
  {"http", "network", "timeout", "auth", "process", "nested_session", "retry_abandoned",
   "external", "contract", "too_large", "empty", "no_generation"}

ASSUME AttemptAssumption ==
  /\ MaxRotations \in Nat
  /\ Timeout \in Nat
  /\ CallTimes \subseteq 0 .. Timeout
  /\ Errors \subseteq ProviderError

\* What a call under its timeout comes to: a verdict that passed every check, an answer
\* that was rejected for a cause, a provider error, or nothing in time.
Valid      == [kind |-> "valid"]
Elapsed    == [kind |-> "elapsed"]
Rejected   == {[kind |-> "rejected", cause |-> c] : c \in Causes}
Failed     == {[kind |-> "error", error |-> e] : e \in Errors}
Reply      == {Valid, Elapsed} \cup Rejected \cup Failed

VARIABLES
  retryEnabled,  \* retry_on_schema_error, fixed by the configuration
  stage,         \* "first", "second", "rotate" or "done"
  model,         \* rotations_done: the model that runs
  elapsed,       \* time spent in calls
  calls,         \* every call made: its model and its reply
  failures,      \* extraction_failures
  records,       \* completions: the model of each record
  retried,       \* was_retried
  outcome        \* the ModelOutcome of the last attempt

seatVars == <<retryEnabled, stage, model, elapsed, calls, failures, records, retried, outcome>>

-----------------------------------------------------------------------------
(* The classifiers.                                                         *)

IsMageLocal(e) == e \in {"external", "contract", "too_large", "empty"}

\* provider_err_outcome with is_connection.
OutcomeOf(e) ==
  CASE e = "network"       -> "connection"
    [] e = "no_generation" -> "crate_defect"
    [] IsMageLocal(e)      -> "mage_local"
    [] OTHER               -> "transport"

\* What ends an attempt, from the reply of its last call.
OutcomeOfReply(r) ==
  CASE r.kind = "valid"    -> "success"
    [] r.kind = "elapsed"  -> "transport"
    [] r.kind = "rejected" -> "mage_local"
    [] r.kind = "error"    -> OutcomeOf(r.error)

-----------------------------------------------------------------------------
SeatInit ==
  /\ retryEnabled \in BOOLEAN
  /\ stage = "first"
  /\ model = 0
  /\ elapsed = 0
  /\ calls = <<>>
  /\ failures = <<>>
  /\ records = <<>>
  /\ retried = FALSE
  /\ outcome = "none"

\* record_attempt: every call but one that generated nothing.
Record(r) ==
  records' = IF r.kind = "error" /\ r.error = "no_generation" THEN records
             ELSE Append(records, model)

\* A timed call of the running model, recorded before anything is decided.
Call(r, took) ==
  /\ r = Elapsed => took = Timeout
  /\ calls' = Append(calls, [model |-> model, reply |-> r])
  /\ elapsed' = elapsed + took
  /\ Record(r)

\* Mutant: the attempt is counted along the whole chain.
FiledInChain(r, attempt) ==
  failures' = IF r.kind = "rejected"
              THEN Append(failures, [model |-> model, attempt |-> Len(failures) + 1,
                                     cause |-> r.cause])
              ELSE failures

\* An extraction failure is filed under the model that answered and its attempt.
Filed(r, attempt) ==
  failures' = IF r.kind = "rejected"
              THEN Append(failures, [model |-> model, attempt |-> attempt, cause |-> r.cause])
              ELSE failures

\* The attempt is over: a verdict and a defect of ours end the mage, all else rotates.
Concludes(r) ==
  /\ outcome' = OutcomeOfReply(r)
  /\ stage' = IF OutcomeOfReply(r) \in {"success", "crate_defect"} THEN "done" ELSE "rotate"

\* The first call on a model. Every rejection is a Validation or Deserialization error, so
\* it is followed by the corrective retry unless that is disabled.
FirstCall(r, took) ==
  /\ stage = "first"
  /\ Call(r, took)
  /\ Filed(r, 1)
  /\ IF r.kind = "rejected" /\ retryEnabled
     THEN stage' = "second" /\ retried' = TRUE /\ UNCHANGED outcome
     ELSE Concludes(r) /\ UNCHANGED retried
  /\ UNCHANGED <<retryEnabled, model>>

\* The corrective retry, on the same model.
SecondCall(r, took) ==
  /\ stage = "second"
  /\ Call(r, took)
  /\ Filed(r, 2)
  /\ Concludes(r)
  /\ UNCHANGED <<retryEnabled, model, retried>>

\* Mutant: the cap admits one rotation too many.
RotatesPastCap ==
  /\ stage = "rotate" /\ model <= MaxRotations
  /\ model' = model + 1
  /\ stage' = "first"
  /\ UNCHANGED <<retryEnabled, elapsed, calls, failures, records, retried, outcome>>

\* claim_next found a candidate; which one, and whether there is one, is Rotation's.
Rotates ==
  /\ stage = "rotate" /\ model < MaxRotations
  /\ model' = model + 1
  /\ stage' = "first"
  /\ UNCHANGED <<retryEnabled, elapsed, calls, failures, records, retried, outcome>>

FindsNoCandidate ==
  /\ stage = "rotate"
  /\ stage' = "done"
  /\ UNCHANGED <<retryEnabled, model, elapsed, calls, failures, records, retried, outcome>>

SeatNext ==
  \/ \E r \in Reply, took \in CallTimes \cup {Timeout} : FirstCall(r, took) \/ SecondCall(r, took)
  \/ Rotates
  \/ FindsNoCandidate

SeatSpec == SeatInit /\ [][SeatNext]_seatVars

-----------------------------------------------------------------------------
(* Properties.                                                              *)

Rejections == {i \in DOMAIN calls : calls[i].reply.kind = "rejected"}
SameModel(i) == {j \in DOMAIN calls : calls[j].model = calls[i].model}

\* How many places of S are at i or before.
UpTo(S, i) == Cardinality(S \cap (1 .. i))

\* The extraction failures are the rejected calls, in order, each under the model that
\* gave the answer and with an attempt number that starts again for each model.
FailuresTellTheCalls ==
  /\ Len(failures) = UpTo(Rejections, Len(calls))
  /\ \A i \in Rejections :
       failures[UpTo(Rejections, i)] = [model |-> calls[i].model,
                                        attempt |-> UpTo(SameModel(i), i),
                                        cause |-> calls[i].reply.cause]

\* The completion records are all calls in order, save one that generated nothing, which
\* can only be the last.
RecordsTellTheCalls ==
  LET models == [i \in DOMAIN calls |-> calls[i].model] IN
    \/ records = models
    \/ outcome = "crate_defect" /\ records = Front(models)

RetriedIsTrue ==
  stage # "second" =>
    (retried <=> \E i \in 2 .. Len(calls) : calls[i].model = calls[i - 1].model)

\* A report's telemetry tells what was called, over a chain of models and in spite of the
\* calls that failed: extraction_failures (E23c), completions and retried_agents agree
\* with the calls and so with each other.
TelemetryTellsTheCalls == FailuresTellTheCalls /\ RecordsTellTheCalls /\ RetriedIsTrue

\* worst_case_per_seat: timeout * calls_per_model * (1 + max_rotations) bounds what a mage
\* can spend, whatever its calls come to.
WorstCase == Timeout * (IF retryEnabled THEN 2 ELSE 1) * (MaxRotations + 1)
SpendsWithinWorstCase == elapsed <= WorstCase

===============================================================================
