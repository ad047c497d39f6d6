-------------------------------- MODULE Retry --------------------------------
(***************************************************************************)
(* One call of `RetryProvider::complete` (src/src/provider.rs) with the    *)
(* helpers of src/src/backoff.rs: a chain of calls to the inner provider   *)
(* bounded by a retry count, a smaller count for some classes, a time      *)
(* budget read between attempts, and the timeout the caller puts round     *)
(* the whole. Time is counted in seconds; only calls and sleeps take any.  *)
(***************************************************************************)
EXTENDS Integers, Sequences

CONSTANTS
  MaxRetries, LimitedMaxRetries,  \* retries, and retries of the limited classes
  LimitedClasses, FlatClasses,    \* limited_retry_classes, flat_classes
  BaseDelay, Cap,                 \* our own backoff and its ceiling
  RetryAfterCap, Jitter,          \* retry_after_cap and RETRY_AFTER_JITTER
  Budget,                         \* operation_budget
  ClientTimeout,                  \* the inner client's total timeout
  AgentTimeouts,                  \* the values of MagiConfig::timeout, round the whole chain
  CallTimes,                      \* how long a call may take
  Waits,                          \* the waits the random source may draw
  Garbage,                        \* a header segment that is no number
  Headers                         \* the Retry-After headers a server may send

\* RetryClass, as far as the loop tells the classes apart; `other` stands for those that
\* are neither retryable nor mage-local.
Class == {"timeout", "network", "http", "external", "contract", "too_large", "empty", "other"}

\* `transient` is what the class leaves open: an http status in TRANSIENT_STATUSES, a
\* retryable external kind, an unreadable body.
Error == [class : Class, transient : BOOLEAN, header : Headers]

\* Errors that can exist: only an http error carries headers.
Failures == {e \in Error : e.class # "http" => e.header = <<>>}

ASSUME RetryAssumption ==
  /\ MaxRetries \in Nat /\ LimitedMaxRetries \in Nat
  /\ LimitedClasses \subseteq Class /\ FlatClasses \subseteq Class
  /\ BaseDelay \in Nat /\ Cap \in Nat /\ RetryAfterCap \in Nat /\ Jitter \in Nat
  /\ Budget \in Nat /\ ClientTimeout \in Nat /\ AgentTimeouts \subseteq Nat
  /\ CallTimes \subseteq 0 .. ClientTimeout
  /\ Waits \subseteq Nat
  /\ Garbage \notin Nat
  /\ Headers \subseteq Seq(Seq(Nat \cup {Garbage}))

VARIABLES
  deadline,   \* the caller's timeout, fixed while the chain runs
  phase,      \* "check", "call", "sleep" or "done"
  attempt,    \* the loop's counter
  now,        \* time since `started`
  errors,     \* what the attempts so far failed with; the last is last_error
  wake,       \* when the sleep ends
  notBefore,  \* when the server asked to be called again, 0 if it did not
  result

vars == <<deadline, phase, attempt, now, errors, wake, notBefore, result>>

-----------------------------------------------------------------------------
(* The classifiers.                                                         *)

IsRetryable(e) ==
  \/ e.class \in {"timeout", "network"}
  \/ e.class \in {"http", "external", "contract"} /\ e.transient

IsMageLocal(e) == e.class \in {"external", "contract", "too_large", "empty"}

\* parse_retry_after. A value is a list of comma-separated segments; it means a number
\* when every segment is that number.
Readable(value) == value # <<>> /\ value[1] # Garbage /\ \A k \in DOMAIN value : value[k] = value[1]

Absent         == [kind |-> "absent"]
Honor(n)       == [kind |-> "honor", asked |-> n]
TooLong        == [kind |-> "too_long"]
Unintelligible == [kind |-> "unintelligible"]

First(I) == CHOOSE i \in I : \A j \in I : i <= j

\* The first readable value decides.
RetryAfter(values) ==
  LET readable == {i \in DOMAIN values : Readable(values[i])}
      n == values[First(readable)][1]
  IN  IF RetryAfterCap = 0 \/ values = <<>> THEN Absent
      ELSE IF readable = {} THEN Unintelligible
      ELSE IF n = 0 THEN Absent
      ELSE IF n > RetryAfterCap THEN TooLong
      ELSE Honor(n)

\* next_backoff with full jitter: what the formula may yield, capped.
Backoffs(k, e) ==
  {w \in Waits : /\ w <= Cap
                 /\ w <= BaseDelay * (IF e.class \in FlatClasses THEN 1
                                      ELSE 2 ^ (IF k < 31 THEN k ELSE 31))}

\* Mutant: the jitter of an honoured header may shorten the wait.
HonoredEarly(asked) == {asked - w : w \in {v \in Waits : v <= Jitter /\ v <= asked}}

\* next_backoff of an honoured header: never less than asked, at most Jitter more.
HonoredWaits(asked) == {asked + w : w \in {v \in Waits : v <= Jitter}}

\* Mutant: the cap is resolved once, by the class that opened the chain.
LimitOfFirst(e) ==
  LET first == IF errors = <<>> THEN e ELSE errors[1] IN
  IF first.class \in LimitedClasses THEN LimitedMaxRetries ELSE MaxRetries

\* The attempt cap that governs is the one of the error that just happened.
Limit(e) == IF e.class \in LimitedClasses THEN LimitedMaxRetries ELSE MaxRetries

-----------------------------------------------------------------------------
NoResult      == [kind |-> "pending"]
Answer        == [kind |-> "answer"]
Failed(e)     == [kind |-> "failed", error |-> e]
Abandoned(e)  == [kind |-> "abandoned", hidden |-> e]
Cut           == [kind |-> "cut"]

\* Mutant: every abandonment is wrapped.
AbandonAll(e) == Abandoned(e)

\* abandon: a mage-local error leaves unwrapped, every other as RetryAbandoned.
Abandon(e) == IF IsMageLocal(e) THEN Failed(e) ELSE Abandoned(e)

Init ==
  /\ deadline \in AgentTimeouts
  /\ phase = "call"
  /\ attempt = 0
  /\ now = 0
  /\ errors = <<>>
  /\ wake = 0
  /\ notBefore = 0
  /\ result = NoResult

Return(r) == phase' = "done" /\ result' = r

\* The check at the top of every attempt but the first.
CheckBudget ==
  /\ phase = "check"
  /\ IF now >= Budget
     THEN Return(Abandon(errors[Len(errors)]))
     ELSE phase' = "call" /\ UNCHANGED result
  /\ UNCHANGED <<deadline, attempt, now, errors, wake, notBefore>>

\* The loop goes on with an error only when it is retryable and a retry is left.
MayRetry(e) == IsRetryable(e) /\ attempt # MaxRetries

Interpreted(e) == RetryAfter(e.header)

GivesUp(e) ==
  /\ ~MayRetry(e)
  /\ Return(Failed(e))
  /\ UNCHANGED <<wake, notBefore>>

\* A Retry-After that cannot be honoured ends the chain, whatever the class's cap.
AbandonsByHeader(e) ==
  /\ MayRetry(e)
  /\ Interpreted(e).kind \in {"too_long", "unintelligible"}
  /\ Return(Abandon(e))
  /\ UNCHANGED <<wake, notBefore>>

StopsAtCap(e) ==
  /\ MayRetry(e)
  /\ Interpreted(e).kind \in {"absent", "honor"}
  /\ attempt >= Limit(e)
  /\ Return(Failed(e))
  /\ UNCHANGED <<wake, notBefore>>

\* The loop's own backoff.
BacksOff(e) ==
  /\ MayRetry(e)
  /\ Interpreted(e).kind = "absent"
  /\ attempt < Limit(e)
  /\ \E w \in Backoffs(attempt, e) : wake' = now' + w
  /\ notBefore' = 0
  /\ phase' = "sleep"
  /\ UNCHANGED result

\* The wait the server asked for, less the `age` of its headers.
Honors(e, age) ==
  /\ MayRetry(e)
  /\ Interpreted(e).kind = "honor"
  /\ attempt < Limit(e)
  /\ LET asked == Interpreted(e).asked
         left  == IF asked > age THEN asked - age ELSE 0
     IN  /\ \E w \in HonoredWaits(left) : wake' = now' + w
         /\ notBefore' = now' - age + asked
  /\ phase' = "sleep"
  /\ UNCHANGED result

\* What the loop does with an error that arrived `age` after its headers.
Handle(e, age) ==
  GivesUp(e) \/ AbandonsByHeader(e) \/ StopsAtCap(e) \/ BacksOff(e) \/ Honors(e, age)

\* The inner call returns after `took`, unless the caller's timeout cuts it.
InnerFails(e, took, age) ==
  /\ phase = "call"
  /\ now + took <= deadline
  /\ now' = now + took
  /\ errors' = Append(errors, e)
  /\ Handle(e, age)
  /\ UNCHANGED <<deadline, attempt>>

InnerAnswers(took) ==
  /\ phase = "call"
  /\ now + took <= deadline
  /\ now' = now + took
  /\ Return(Answer)
  /\ UNCHANGED <<deadline, attempt, errors, wake, notBefore>>

\* The sleep is over and the loop goes on.
Wake ==
  /\ phase = "sleep"
  /\ wake <= deadline
  /\ now' = wake
  /\ attempt' = attempt + 1
  /\ phase' = "check"
  /\ UNCHANGED <<deadline, errors, wake, notBefore, result>>

\* tokio::time::timeout of the caller drops the chain in a call or in a sleep.
CutShort ==
  /\ \/ phase = "call" /\ \E took \in CallTimes : now + took > deadline
     \/ phase = "sleep" /\ wake > deadline
  /\ now' = deadline
  /\ Return(Cut)
  /\ UNCHANGED <<deadline, attempt, errors, wake, notBefore>>

InnerReturns ==
  \E took \in CallTimes :
    \/ InnerAnswers(took)
    \/ \E e \in Failures, age \in 0 .. took : InnerFails(e, took, age)

Next == CheckBudget \/ InnerReturns \/ Wake \/ CutShort

Spec == Init /\ [][Next]_vars
-----------------------------------------------------------------------------
(* Properties.                                                              *)

Outcomes ==
  {NoResult, Answer, Cut} \cup {Failed(e) : e \in Failures} \cup {Abandoned(e) : e \in Failures}

\* The loop's variables keep their types; a failure in flight has always been recorded, so
\* `abandon` is never called without its original error.
TypeOK ==
  /\ deadline \in AgentTimeouts
  /\ phase \in {"check", "call", "sleep", "done"}
  /\ attempt \in 0 .. MaxRetries
  /\ now \in Nat /\ wake \in Nat /\ notBefore \in Int
  /\ errors \in Seq(Failures)
  /\ phase \in {"check", "sleep"} => errors # <<>>
  /\ result \in Outcomes
  /\ phase = "done" <=> result # NoResult

\* Every call but the first was earned: the error before it was retryable, came no later
\* than the cap of ITS class allows, and its Retry-After was absent or honoured, so a
\* chain that opens with an unlimited class cannot carry a limited one past its cap.
Earned(i) ==
  /\ IsRetryable(errors[i])
  /\ i <= MaxRetries
  /\ errors[i].class \in LimitedClasses => i <= LimitedMaxRetries
  /\ RetryAfter(errors[i].header).kind \in {"absent", "honor"}

RetriesAreEarned ==
  /\ Len(errors) <= MaxRetries + 1
  /\ \A i \in DOMAIN errors : i < Len(errors) \/ phase \in {"sleep", "check", "call"} => Earned(i)

\* "We never wait less than requested" (next_backoff): no call starts before the moment
\* the server asked for, counted from when its headers arrived.
NeverTooEarly == phase = "call" => now >= notBefore

\* The longest wait there is.
MaxWait == IF Cap > RetryAfterCap + Jitter THEN Cap ELSE RetryAfterCap + Jitter

\* What a chain can cost: the budget is only read between attempts, so a call that starts
\* within it and the wait after that call both run in full.
TotalBounded ==
  /\ now <= Budget + ClientTimeout + MaxWait
  /\ now <= deadline

\* The bound RetryConfig documents: "operation_budget + max(client_timeout,
\* retry_after_cap + jitter)".
DocumentedBound ==
  now <= Budget + (IF ClientTimeout > RetryAfterCap + Jitter THEN ClientTimeout
                   ELSE RetryAfterCap + Jitter)

\* abandon: no exit of the chain turns a failure that concerns one mage into an
\* abandonment, which condemns the lineage for all; and a failure leaves as it came.
ScopeIsKept ==
  /\ result.kind = "abandoned" => ~IsMageLocal(result.hidden)
  /\ result.kind \in {"failed", "abandoned"} /\ errors # <<>> =>
       (IF result.kind = "failed" THEN result.error ELSE result.hidden) = errors[Len(errors)]

\* The floor documented at operation_budget: at or above it, a hang (a class with flat
\* backoff) is never denied its second attempt by the budget.
Floor == ClientTimeout + BaseDelay + 1

SecondAttemptRuns ==
  /\ Budget >= Floor
  /\ result.kind = "abandoned" /\ Len(errors) = 1
  /\ errors[1].class \in FlatClasses
  => RetryAfter(errors[1].header).kind # "absent"

\* The layering rule of RetryConfig: with (1 + limited_max_retries) * client_timeout and
\* the backoffs within the caller's timeout, a chain that met limited classes only is cut
\* neither in a call nor in a sleep.
LimitedChainFits ==
  /\ LimitedClasses \subseteq FlatClasses
  /\ deadline >= (1 + LimitedMaxRetries) * ClientTimeout + LimitedMaxRetries * BaseDelay
  /\ \A i \in DOMAIN errors :
       errors[i].class \in LimitedClasses /\ RetryAfter(errors[i].header).kind = "absent"
  => result.kind # "cut"
===============================================================================
