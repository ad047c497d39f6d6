------------------------------- MODULE SpyProxy -------------------------------
(***************************************************************************)
(* The smoke harness's proxy (src/smoke/src/proxy.rs): it stands between   *)
(* the crate and the backend, records every exchange and injects failures. *)
(* One task accepts connections and one task serves each of them; what     *)
(* they share is the injection rule, the registry of records and one       *)
(* latch, `degraded`, that nothing ever clears.                            *)
(*                                                                         *)
(* A request is kept in `flight` while its handler runs and its response   *)
(* is on the way; `stage` says what the handler does next. It is a         *)
(* connection of its own: none is kept alive for the next. Bodies are      *)
(* reduced to the model they name, targets to completion or probe, and     *)
(* a status to the ones some reader tells apart.                           *)
(***************************************************************************)
EXTENDS Integers, Sequences, FiniteSets

CONSTANTS
  Run,                 \* the runs a harness executes (`RunId`)
  NoRun,               \* nobody's rule (`None`)
  Model,
  RuleOf,              \* run |-> the injection of its `RunSpec`
  Always,              \* a drop budget of u32::MAX
  MaxAcceptFailures,   \* MAX_CONSECUTIVE_ACCEPT_FAILURES
  Backend,             \* the statuses the backend answers with
  MaxFaults,           \* (bound) on `faults`
  MaxOrphans           \* (bound) on handlers that outlive their client

\* `Option<Injection>`; a ReplayBody is a FailModel whose status and body are captured ones.
Rule ==
  [kind : {"none"}]
    \cup [kind : {"fail"}, models : SUBSET Model]
    \cup [kind : {"drop"}, models : SUBSET Model, budget : Nat \cup {Always}]

ASSUME ProxyAssumption ==
  /\ NoRun \notin Run
  /\ RuleOf \in [Run -> Rule]
  /\ MaxAcceptFailures \in Nat \ {0}
  /\ Backend \subseteq {200, 500}
  /\ MaxFaults \in Nat /\ MaxOrphans \in Nat

VARIABLES
  injection,   \* the run whose rule is in force
  dropped,     \* run |-> model |-> connections its rule has cut
  registry,    \* what was recorded since the mark in use; nobody looks further back
  degraded,    \* the latch
  failures,    \* consecutive failures of accept()
  flight,      \* the requests being served
  faults       \* (bound) how often something outside failed: a connection, a body, the backend

proxyVars == <<injection, dropped, registry, degraded, failures, flight, faults>>

\* What a client can hear: a status, or its connection closed without one.
Status == {200, 500, 502}
Cut    == 0

ProxyInit ==
  /\ injection = NoRun
  /\ dropped = [r \in Run |-> [m \in Model |-> 0]]
  /\ registry = {}
  /\ degraded = FALSE
  /\ failures = 0
  /\ flight = {}
  /\ faults = 0

At(stage) == {q \in flight : q.stage = stage}

\* The handler of q goes on at `stage`, and what it will answer is `reply`.
Serves(q, stage, reply, by) ==
  flight' = (flight \ {q}) \cup
    {r \in {[q EXCEPT !.stage = stage, !.reply = reply, !.by = by]} : stage = "replied" => r.client}

Moves(q, stage, reply) == Serves(q, stage, reply, q.by)

Fault  == faults < MaxFaults /\ faults' = faults + 1

-----------------------------------------------------------------------------
(* The accept loop.                                                         *)

\* The loop gives up at the threshold, and the listener goes with it.
Listening == failures < MaxAcceptFailures

AcceptFails ==
  /\ Listening
  /\ Fault
  /\ failures' = failures + 1
  /\ degraded' = TRUE
  /\ UNCHANGED <<injection, dropped, registry, flight>>

Accept(id, model, path) ==
  /\ Listening
  /\ failures' = 0
  /\ flight' = flight \cup
       {[id |-> id, client |-> TRUE, model |-> model, path |-> path,
         stage |-> "accepted", reply |-> Cut, by |-> NoRun]}
  /\ UNCHANGED <<injection, dropped, registry, degraded, faults>>

-----------------------------------------------------------------------------
(* One handler. The rule and the registry are locked for one step each, never across *)
(* an await.                                                                         *)

\* Mutant: an unreadable request does not degrade the proxy.
BodyUnreadableQuietly(q) ==
  /\ q \in At("accepted")
  /\ Fault
  /\ Moves(q, "replied", 500)
  /\ UNCHANGED <<injection, dropped, registry, degraded, failures>>

\* The request could not be read: nothing is forwarded and nothing recorded.
BodyUnreadable(q) ==
  /\ q \in At("accepted")
  /\ Fault
  /\ degraded' = TRUE
  /\ Moves(q, "replied", 500)
  /\ UNCHANGED <<injection, dropped, registry, failures>>

\* Mutant: any request naming the model is answered, probes included.
InForceAnywhere(q) ==
  /\ injection # NoRun
  /\ RuleOf[injection].kind # "none"
  /\ q.model \in RuleOf[injection].models

\* injected_response: a rule is about completions that name one of its models.
InForce(q) ==
  /\ q.path = "completion"
  /\ injection # NoRun
  /\ RuleOf[injection].kind # "none"
  /\ q.model \in RuleOf[injection].models

\* claims_drop: the budget is spent by one atomic update.
ClaimsDrop(q) ==
  LET budget == RuleOf[injection].budget IN
    budget = Always \/ dropped[injection][q.model] < budget

StandIn(q) ==
  /\ q \in At("accepted")
  /\ InForce(q)
  /\ RuleOf[injection].kind = "fail"
  /\ Serves(q, "answered", 500, injection)
  /\ UNCHANGED <<injection, dropped, registry, degraded, failures, faults>>

\* The connection is closed without a status line, and no record is pushed.
DropConnection(q) ==
  /\ q \in At("accepted")
  /\ InForce(q)
  /\ RuleOf[injection].kind = "drop"
  /\ ClaimsDrop(q)
  /\ dropped' = IF RuleOf[injection].budget = Always THEN dropped
                ELSE [dropped EXCEPT ![injection][q.model] = @ + 1]
  /\ Serves(q, "replied", Cut, injection)
  /\ UNCHANGED <<injection, registry, degraded, failures, faults>>

Forward(q) ==
  /\ q \in At("accepted")
  /\ InForce(q) => RuleOf[injection].kind = "drop" /\ ~ClaimsDrop(q)
  /\ Moves(q, "forwarding", Cut)
  /\ UNCHANGED <<injection, dropped, registry, degraded, failures, faults>>

\* The backend answered, or could not be reached: that is a 502 of the proxy's.
BackendAnswers(q, status) ==
  /\ q \in At("forwarding")
  /\ IF status = 200 THEN UNCHANGED faults ELSE Fault
  /\ Moves(q, "answered", status)
  /\ UNCHANGED <<injection, dropped, registry, degraded, failures>>

\* forward_buffered returned no body: what is recorded is the status that is relayed.
ProbeBodyUnreadable(q) ==
  /\ q \in At("forwarding")
  /\ q.path = "probe"
  /\ Fault
  /\ degraded' = TRUE
  /\ Moves(q, "answered", 502)
  /\ UNCHANGED <<injection, dropped, registry, failures>>

\* Mutant: the response leaves before its record is pushed.
AnswerBeforePush(q) ==
  \/ /\ q \in At("answered")
     /\ Moves(q, "replied", q.reply)
     /\ UNCHANGED <<injection, dropped, registry, degraded, failures, faults>>
  \/ /\ q \in At("replied")
     /\ registry' = registry \cup {[id |-> q.id, path |-> q.path, status |-> q.reply]}
     /\ flight' = flight \ {q}
     /\ UNCHANGED <<injection, dropped, degraded, failures, faults>>

\* One push per request, after its answer exists and before it is returned.
Push(q) ==
  /\ q \in At("answered")
  /\ registry' = registry \cup {[id |-> q.id, path |-> q.path, status |-> q.reply]}
  /\ Moves(q, "replied", q.reply)
  /\ UNCHANGED <<injection, dropped, degraded, failures, faults>>

\* The clients of these requests close their connections: a response on its way is lost, a
\* handler may go on for a while (MaxOrphans of them, the others being dropped at once).
HangUp(gone) ==
  LET orphans == {q \in flight : (~q.client \/ q \in gone) /\ q.stage # "replied"} IN
    \E left \in SUBSET orphans :
      /\ Cardinality(left) <= MaxOrphans
      /\ flight' = {q \in flight \ gone : q.client} \cup {[q EXCEPT !.client = FALSE] : q \in left}
  /\ UNCHANGED <<injection, dropped, registry, degraded, failures>>

\* hyper notices that the client is gone and drops the handler, wherever it stands.
Abandon(q) ==
  /\ q \in flight /\ ~q.client
  /\ flight' = flight \ {q}
  /\ UNCHANGED <<injection, dropped, registry, degraded, failures, faults>>

\* What the handler of q does next.
HandlerStep(q) ==
  \/ BodyUnreadable(q)
  \/ StandIn(q)
  \/ DropConnection(q)
  \/ Forward(q)
  \/ \E status \in Backend \cup {502} : BackendAnswers(q, status)
  \/ ProbeBodyUnreadable(q)
  \/ Push(q)
  \/ Abandon(q)

-----------------------------------------------------------------------------
(* What the runner calls.                                                   *)

SetInjection(run) ==
  /\ injection' = run
  /\ UNCHANGED <<dropped, registry, degraded, failures, flight, faults>>

\* A new mark: records_since(mark) is what is pushed from here on.
Mark ==
  /\ registry' = {}
  /\ UNCHANGED <<injection, dropped, degraded, failures, flight, faults>>
===============================================================================
