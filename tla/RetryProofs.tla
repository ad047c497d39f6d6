----------------------------- MODULE RetryProofs -----------------------------
(***************************************************************************)
(* Proofs about Retry, for every retry count, budget, timeout, delay and   *)
(* header.                                                                 *)
(***************************************************************************)
EXTENDS Retry, SequenceTheorems, WellFoundedInduction, TLAPS

-----------------------------------------------------------------------------
(* The header.                                                              *)

NatLess == {ss \in Nat \X Nat : ss[1] < ss[2]}

LEMMA NatLessWellFounded == IsWellFoundedOn(NatLess, Nat)
<1>1. OpToRel(<, Nat) = NatLess
  BY Zenon DEF OpToRel, NatLess
<1> QED
  BY <1>1, NatLessThanWellFounded

\* A non-empty set of positions has a first.
LEMMA FirstExists ==
  ASSUME NEW I \in SUBSET Nat, I # {}
  PROVE  First(I) \in I
<1>1. PICK i \in I : \A j \in I : <<j, i>> \notin NatLess
  BY NatLessWellFounded, WFMin
<1>2. ASSUME NEW j \in I PROVE i <= j
  <2>1. ASSUME j < i PROVE FALSE
    <3>1. <<j, i>> \in Nat \X Nat /\ <<j, i>>[1] < <<j, i>>[2]
      BY <2>1
    <3>2. <<j, i>> \in NatLess
      BY <3>1, Zenon DEF NatLess
    <3> QED
      BY <3>2, <1>1
  <2> QED
    BY <2>1
<1> QED
  BY <1>2 DEF First

\* A header is absent, too long, unintelligible, or honoured and then within the cap.
LEMMA HeaderIsInterpreted ==
  ASSUME NEW values \in Headers
  PROVE  /\ RetryAfter(values).kind \in {"absent", "honor", "too_long", "unintelligible"}
         /\ RetryAfter(values).kind = "honor" =>
              RetryAfter(values).asked \in Nat /\ RetryAfter(values).asked <= RetryAfterCap
<1> DEFINE readable == {i \in DOMAIN values : Readable(values[i])}
           n == values[First(readable)][1]
<1>1. RetryAfter(values) = IF RetryAfterCap = 0 \/ values = <<>> THEN Absent
                           ELSE IF readable = {} THEN Unintelligible
                           ELSE IF n = 0 THEN Absent
                           ELSE IF n > RetryAfterCap THEN TooLong
                           ELSE Honor(n)
  BY DEF RetryAfter
<1>2. CASE readable = {} \/ RetryAfterCap = 0 \/ values = <<>>
  BY <1>1, <1>2 DEF Absent, Unintelligible
<1>3. CASE readable # {}
  <2>1. values \in Seq(Seq(Nat \cup {Garbage}))
    BY RetryAssumption
  <2>2. readable \in SUBSET Nat
    BY <2>1
  <2>3. First(readable) \in readable
    BY <1>3, <2>2, FirstExists
  <2>4. values[First(readable)] \in Seq(Nat \cup {Garbage}) /\ Readable(values[First(readable)])
    BY <2>1, <2>3
  <2>5. n \in Nat
    BY <2>4 DEF Readable
  <2> QED
    BY <1>1, <2>5, RetryAssumption DEF Absent, Unintelligible, TooLong, Honor
<1> QED
  BY <1>2, <1>3

\* Our own backoff never exceeds the cap, and a flat class never waits longer than the base.
LEMMA BackoffIsCapped ==
  ASSUME NEW k \in Nat, NEW e, NEW w \in Backoffs(k, e)
  PROVE  w \in Nat /\ w <= Cap /\ (e.class \in FlatClasses => w <= BaseDelay)
BY RetryAssumption DEF Backoffs

\* "We never wait less than requested", and at most the jitter more.
LEMMA HonoredWaitIsBounded ==
  ASSUME NEW asked \in Nat, NEW w \in HonoredWaits(asked)
  PROVE  w \in Nat /\ asked <= w /\ w <= asked + Jitter
<1>1. PICK v \in Waits : v <= Jitter /\ w = asked + v
  BY DEF HonoredWaits
<1>2. v \in Nat
  BY RetryAssumption
<1> QED
  BY <1>1, <1>2, RetryAssumption

LEMMA MaxWaitBounds ==
  /\ MaxWait \in Nat
  /\ Cap <= MaxWait
  /\ RetryAfterCap + Jitter <= MaxWait
BY RetryAssumption DEF MaxWait

-----------------------------------------------------------------------------
(* The inductive invariant.                                                 *)

\* The loop has recorded one error for each attempt that is over.
Counted ==
  /\ phase \in {"call", "check"} => Len(errors) = attempt
  /\ phase = "sleep" => Len(errors) = attempt + 1 /\ attempt < MaxRetries
  /\ phase = "done" => Len(errors) \in {attempt, attempt + 1}
  /\ phase = "call" /\ attempt = 0 => now = 0

\* Where the clock can be in each phase.
Timed ==
  /\ now <= deadline
  /\ phase = "call" => now <= Budget /\ notBefore <= now
  /\ phase = "sleep" => /\ now <= Budget + ClientTimeout
                        /\ now <= wake /\ notBefore <= wake
                        /\ wake <= Budget + ClientTimeout + MaxWait
  /\ phase = "check" => notBefore <= now
  /\ now <= Budget + ClientTimeout + MaxWait

\* After one failure of a flat class without a Retry-After, the chain is within the floor.
Hung == /\ Len(errors) = 1
        /\ errors[1].class \in FlatClasses
        /\ RetryAfter(errors[1].header).kind = "absent"

Floored ==
  Hung => /\ phase = "sleep" => wake <= ClientTimeout + BaseDelay
          /\ phase = "check" => now <= ClientTimeout + BaseDelay
          /\ result.kind = "abandoned" => Budget < Floor

RetryInv == TypeOK /\ Counted /\ Timed /\ RetriesAreEarned /\ ScopeIsKept /\ Floored

Kinds == {"pending", "answer", "cut", "failed", "abandoned"}

LEMMA ResultKinds ==
  /\ NoResult.kind = "pending" /\ Answer.kind = "answer" /\ Cut.kind = "cut"
  /\ \A e : /\ Failed(e).kind = "failed" /\ Failed(e).error = e /\ Failed(e) # NoResult
            /\ Abandoned(e).kind = "abandoned" /\ Abandoned(e).hidden = e
            /\ Abandoned(e) # NoResult
  /\ Answer # NoResult /\ Cut # NoResult
<1>1. /\ NoResult.kind = "pending" /\ Answer.kind = "answer" /\ Cut.kind = "cut"
  BY DEF NoResult, Answer, Cut
<1>2. ASSUME NEW e
      PROVE /\ Failed(e).kind = "failed" /\ Failed(e).error = e
            /\ Abandoned(e).kind = "abandoned" /\ Abandoned(e).hidden = e
  BY DEF Failed, Abandoned
<1> QED
  BY <1>1, <1>2

\* However an error leaves the chain, it leaves as itself and in its own scope.
LEMMA AbandonKeepsScope ==
  ASSUME NEW e \in Failures
  PROVE  /\ Abandon(e) \in Outcomes /\ Abandon(e) # NoResult
         /\ Abandon(e).kind = "abandoned" => ~IsMageLocal(e) /\ Abandon(e).hidden = e
         /\ Abandon(e).kind # "abandoned" => Abandon(e).kind = "failed" /\ Abandon(e).error = e
<1>1. CASE IsMageLocal(e)
  <2>1. Abandon(e) = Failed(e)
    BY <1>1 DEF Abandon
  <2>2. Failed(e) \in Outcomes
    BY DEF Outcomes
  <2> QED
    BY <2>1, <2>2, ResultKinds
<1>2. CASE ~IsMageLocal(e)
  <2>1. Abandon(e) = Abandoned(e)
    BY <1>2 DEF Abandon
  <2>2. Abandoned(e) \in Outcomes
    BY DEF Outcomes
  <2> QED
    BY <1>2, <2>1, <2>2, ResultKinds
<1> QED
  BY <1>1, <1>2

LEMMA RetryStarts == Init => RetryInv
<1> SUFFICES ASSUME Init PROVE RetryInv
  OBVIOUS
<1> USE RetryAssumption DEF Init
<1>1. NoResult \in Outcomes
  BY DEF Outcomes
<1>2. TypeOK
  BY <1>1 DEF TypeOK
<1>3. Counted
  BY DEF Counted
<1>4. Timed
  BY MaxWaitBounds DEF Timed
<1>5. RetriesAreEarned
  BY DEF RetriesAreEarned
<1>6. ScopeIsKept
  BY ResultKinds DEF ScopeIsKept
<1>7. Floored
  BY ResultKinds DEF Floored, Hung
<1> QED
  BY <1>2, <1>3, <1>4, <1>5, <1>6, <1>7 DEF RetryInv

-----------------------------------------------------------------------------
(* The steps.                                                               *)

\* What is known when an inner call has failed and the loop has not decided yet.
LEMMA RecordedError ==
  ASSUME RetryInv, NEW e \in Failures, errors' = Append(errors, e), phase = "call"
  PROVE  /\ errors' \in Seq(Failures)
         /\ Len(errors') = attempt + 1
         /\ errors'[Len(errors')] = e
         /\ errors' # <<>>
         /\ \A i \in DOMAIN errors : errors'[i] = errors[i]
         /\ \A i \in DOMAIN errors' : i \in DOMAIN errors \/ i = attempt + 1
         /\ errors'[attempt + 1] = e
<1>1. errors \in Seq(Failures) /\ Len(errors) = attempt /\ attempt \in Nat
  BY RetryAssumption DEF RetryInv, TypeOK, Counted
<1> QED
  BY <1>1

\* A failure that ends the chain.
LEMMA FailureEnds ==
  ASSUME RetryInv, phase = "call", NEW e \in Failures,
         NEW took \in CallTimes, now + took <= deadline, now' = now + took,
         errors' = Append(errors, e), UNCHANGED <<deadline, attempt, wake, notBefore>>,
         NEW r, Return(r), r \in {Failed(e), Abandon(e)},
         r = Failed(e) \/ RetryAfter(e.header).kind # "absent"
  PROVE  RetryInv'
<1> USE RetryAssumption
<1>1. /\ errors' \in Seq(Failures) /\ Len(errors') = attempt + 1
      /\ errors'[Len(errors')] = e /\ errors' # <<>>
      /\ \A i \in DOMAIN errors : errors'[i] = errors[i]
      /\ \A i \in DOMAIN errors' : i \in DOMAIN errors \/ i = attempt + 1
      /\ errors'[attempt + 1] = e
  BY RecordedError
<1>2. /\ r \in Outcomes /\ r # NoResult
      /\ r.kind = "abandoned" => r # Failed(e) /\ ~IsMageLocal(e) /\ r.hidden = e
      /\ r.kind # "abandoned" => r.kind = "failed" /\ r.error = e
  BY AbandonKeepsScope, ResultKinds DEF Outcomes
<1>3. /\ deadline \in AgentTimeouts /\ now \in Nat /\ attempt \in 0 .. MaxRetries /\ took \in 0 .. ClientTimeout
      /\ wake \in Nat /\ notBefore \in Int /\ errors \in Seq(Failures)
      /\ Len(errors) = attempt /\ now <= Budget
  BY DEF RetryInv, TypeOK, Counted, Timed
<1>4. phase' = "done" /\ result' = r
  BY DEF Return
<1>5. TypeOK'
  BY <1>1, <1>2, <1>3, <1>4 DEF TypeOK
<1>6. Counted'
  BY <1>1, <1>3, <1>4 DEF Counted
<1>7. Timed'
  BY <1>3, <1>4, MaxWaitBounds DEF Timed
<1>8. RetriesAreEarned'
  <2>1. Len(errors') <= MaxRetries + 1
    BY <1>1, <1>3
  <2>2. ASSUME NEW i \in DOMAIN errors', i < Len(errors') PROVE Earned(i)'
    <3>1. i \in DOMAIN errors /\ errors'[i] = errors[i]
      BY <1>1, <1>3, <2>2
    <3>2. Earned(i)
      BY <3>1 DEF RetryInv, RetriesAreEarned
    <3> QED
      BY <3>1, <3>2 DEF Earned
  <2> QED
    BY <2>1, <2>2, <1>4 DEF RetriesAreEarned
<1>9. ScopeIsKept'
  BY <1>1, <1>2, <1>4 DEF ScopeIsKept
<1>10. Floored'
  <2>1. SUFFICES ASSUME Hung', result'.kind = "abandoned" PROVE FALSE
    BY <1>4 DEF Floored
  <2>2. errors'[1] = e /\ RetryAfter(e.header).kind = "absent"
    BY <1>1, <2>1 DEF Hung
  <2> QED
    BY <1>2, <1>4, <2>1, <2>2
<1> QED
  BY <1>5, <1>6, <1>7, <1>8, <1>9, <1>10 DEF RetryInv

\* A failure that is waited out, for `w` after a header that asks for `asked` or not at all.
LEMMA FailureIsWaitedOut ==
  ASSUME RetryInv, phase = "call", NEW e \in Failures,
         NEW took \in CallTimes, now + took <= deadline, now' = now + took,
         errors' = Append(errors, e), UNCHANGED <<deadline, attempt, result>>,
         phase' = "sleep", MayRetry(e), attempt < Limit(e),
         RetryAfter(e.header).kind \in {"absent", "honor"},
         NEW w \in Nat, w <= MaxWait, wake' = now' + w, notBefore' \in Int, notBefore' <= wake',
         attempt = 0 /\ e.class \in FlatClasses /\ RetryAfter(e.header).kind = "absent"
           => w <= BaseDelay
  PROVE  RetryInv'
<1> USE RetryAssumption
<1>1. /\ errors' \in Seq(Failures) /\ Len(errors') = attempt + 1
      /\ errors'[Len(errors')] = e /\ errors' # <<>>
      /\ \A i \in DOMAIN errors : errors'[i] = errors[i]
      /\ \A i \in DOMAIN errors' : i \in DOMAIN errors \/ i = attempt + 1
      /\ errors'[attempt + 1] = e
  BY RecordedError
<1>3. /\ deadline \in AgentTimeouts /\ now \in Nat /\ attempt \in 0 .. MaxRetries /\ took \in 0 .. ClientTimeout
      /\ wake \in Nat /\ notBefore \in Int /\ errors \in Seq(Failures)
      /\ Len(errors) = attempt /\ now <= Budget /\ result = NoResult
  BY DEF RetryInv, TypeOK, Counted, Timed
<1>4. attempt < MaxRetries
  BY <1>3 DEF MayRetry
<1>5. TypeOK'
  BY <1>1, <1>3, MaxWaitBounds DEF TypeOK, Outcomes
<1>6. Counted'
  BY <1>1, <1>3, <1>4 DEF Counted
<1>7. Timed'
  BY <1>3, MaxWaitBounds DEF Timed
<1>8. RetriesAreEarned'
  <2>1. Len(errors') <= MaxRetries + 1
    BY <1>1, <1>3
  <2>2. ASSUME NEW i \in DOMAIN errors' PROVE Earned(i)'
    <3>1. CASE i \in DOMAIN errors
      <4>1. errors'[i] = errors[i]
        BY <1>1, <3>1
      <4>2. Earned(i)
        BY <3>1 DEF RetryInv, RetriesAreEarned
      <4> QED
        BY <4>1, <4>2 DEF Earned
    <3>2. CASE i = attempt + 1
      <4>1. errors'[i] = e
        BY <1>1, <3>2
      <4>2. IsRetryable(e) /\ i <= MaxRetries
        BY <1>3, <1>4, <3>2 DEF MayRetry
      <4>3. e.class \in LimitedClasses => i <= LimitedMaxRetries
        BY <1>3, <3>2 DEF Limit
      <4> QED
        BY <4>1, <4>2, <4>3 DEF Earned
    <3> QED
      BY <1>1, <3>1, <3>2
  <2> QED
    BY <2>1, <2>2 DEF RetriesAreEarned
<1>9. ScopeIsKept'
  BY <1>3, ResultKinds DEF ScopeIsKept
<1>10. Floored'
  <2>1. SUFFICES ASSUME Hung' PROVE wake' <= ClientTimeout + BaseDelay
    BY <1>3, ResultKinds DEF Floored
  <2>2. attempt = 0 /\ errors'[1] = e
    BY <1>1, <1>3, <2>1 DEF Hung
  <2>3. e.class \in FlatClasses /\ RetryAfter(e.header).kind = "absent"
    BY <2>1, <2>2 DEF Hung
  <2>4. w <= BaseDelay
    BY <2>2, <2>3
  <2>5. now = 0
    BY <2>2 DEF RetryInv, Counted
  <2> QED
    BY <1>3, <2>4, <2>5
<1> QED
  BY <1>5, <1>6, <1>7, <1>8, <1>9, <1>10 DEF RetryInv

LEMMA InnerFailsKeepsInv ==
  ASSUME RetryInv, NEW took \in CallTimes, NEW e \in Failures, NEW age \in 0 .. took,
         InnerFails(e, took, age)
  PROVE  RetryInv'
<1> USE RetryAssumption
<1>1. /\ phase = "call" /\ now + took <= deadline /\ now' = now + took
      /\ errors' = Append(errors, e) /\ UNCHANGED <<deadline, attempt>> /\ Handle(e, age)
  BY DEF InnerFails
<1>2. e.header \in Headers /\ now \in Nat /\ attempt \in Nat /\ took \in 0 .. ClientTimeout
  BY DEF Failures, Error, RetryInv, TypeOK
<1>3. CASE GivesUp(e)
  <2>1. Return(Failed(e)) /\ UNCHANGED <<deadline, attempt, wake, notBefore>>
    BY <1>1, <1>3 DEF GivesUp
  <2> QED
    BY <1>1, <2>1, FailureEnds
<1>4. CASE AbandonsByHeader(e)
  <2>1. /\ Return(Abandon(e)) /\ UNCHANGED <<deadline, attempt, wake, notBefore>>
        /\ RetryAfter(e.header).kind # "absent"
    BY <1>1, <1>4 DEF AbandonsByHeader, Interpreted
  <2> QED
    BY <1>1, <2>1, FailureEnds
<1>5. CASE StopsAtCap(e)
  <2>1. Return(Failed(e)) /\ UNCHANGED <<deadline, attempt, wake, notBefore>>
    BY <1>1, <1>5 DEF StopsAtCap
  <2> QED
    BY <1>1, <2>1, FailureEnds
<1>6. CASE BacksOff(e)
  <2>1. PICK w \in Backoffs(attempt, e) : wake' = now' + w
    BY <1>6 DEF BacksOff
  <2>2. w \in Nat /\ w <= Cap /\ (e.class \in FlatClasses => w <= BaseDelay)
    BY <1>2, <2>1, BackoffIsCapped
  <2>3. /\ MayRetry(e) /\ attempt < Limit(e) /\ RetryAfter(e.header).kind \in {"absent", "honor"}
        /\ notBefore' = 0 /\ phase' = "sleep" /\ UNCHANGED <<deadline, attempt, result>>
    BY <1>1, <1>6 DEF BacksOff, Interpreted
  <2>4. w <= MaxWait /\ notBefore' \in Int /\ notBefore' <= wake'
    BY <1>1, <1>2, <2>1, <2>2, <2>3, MaxWaitBounds
  <2> QED
    BY <1>1, <2>1, <2>2, <2>3, <2>4, FailureIsWaitedOut
<1>7. CASE Honors(e, age)
  <2> DEFINE asked == RetryAfter(e.header).asked
             left == IF asked > age THEN asked - age ELSE 0
  <2>1. PICK w \in HonoredWaits(left) : wake' = now' + w
    BY <1>7 DEF Honors, Interpreted
  <2>2. /\ MayRetry(e) /\ attempt < Limit(e) /\ RetryAfter(e.header).kind = "honor"
        /\ notBefore' = now' - age + asked /\ phase' = "sleep" /\ UNCHANGED <<deadline, attempt, result>>
    BY <1>1, <1>7 DEF Honors, Interpreted
  <2>3. asked \in Nat /\ asked <= RetryAfterCap /\ age \in Nat
    BY <1>2, <2>2, HeaderIsInterpreted
  <2>4. left \in Nat /\ left <= RetryAfterCap /\ asked - age <= left
    BY <2>3
  <2> HIDE DEF left
  <2>5. w \in Nat /\ left <= w /\ w <= left + Jitter
    BY <2>1, <2>4, HonoredWaitIsBounded
  <2> HIDE DEF asked
  <2>6. w <= MaxWait /\ notBefore' \in Int /\ notBefore' <= wake'
    BY <1>1, <1>2, <2>1, <2>2, <2>3, <2>4, <2>5, MaxWaitBounds
  <2> QED
    BY <1>1, <2>1, <2>2, <2>5, <2>6, FailureIsWaitedOut
<1> QED
  BY <1>1, <1>3, <1>4, <1>5, <1>6, <1>7 DEF Handle

LEMMA InnerAnswersKeepsInv ==
  ASSUME RetryInv, NEW took \in CallTimes, InnerAnswers(took)
  PROVE  RetryInv'
<1> USE RetryAssumption
<1>1. /\ phase = "call" /\ now + took <= deadline /\ now' = now + took /\ took \in 0 .. ClientTimeout
      /\ phase' = "done" /\ result' = Answer /\ UNCHANGED <<deadline, attempt, errors, wake, notBefore>>
  BY DEF InnerAnswers, Return
<1>2. TypeOK /\ Counted /\ Timed /\ RetriesAreEarned
  BY DEF RetryInv
<1>3. TypeOK'
  BY <1>1, <1>2, ResultKinds DEF TypeOK, Outcomes
<1>4. Counted'
  BY <1>1, <1>2 DEF Counted, TypeOK
<1>5. Timed'
  BY <1>1, <1>2, MaxWaitBounds DEF Timed, TypeOK
<1>6. RetriesAreEarned'
  BY <1>1, <1>2 DEF RetriesAreEarned, Earned
<1>7. ScopeIsKept' /\ Floored'
  BY <1>1, ResultKinds DEF ScopeIsKept, Floored, Hung
<1> QED
  BY <1>3, <1>4, <1>5, <1>6, <1>7 DEF RetryInv

LEMMA CutShortKeepsInv ==
  ASSUME RetryInv, CutShort
  PROVE  RetryInv'
<1> USE RetryAssumption
<1>1. /\ phase \in {"call", "sleep"} /\ now' = deadline
      /\ phase' = "done" /\ result' = Cut /\ UNCHANGED <<deadline, attempt, errors, wake, notBefore>>
  BY DEF CutShort, Return
<1>2. TypeOK /\ Counted /\ Timed /\ RetriesAreEarned
  BY DEF RetryInv
<1>3. TypeOK'
  BY <1>1, <1>2, ResultKinds DEF TypeOK, Outcomes
<1>4. Counted'
  BY <1>1, <1>2 DEF Counted, TypeOK
<1>5. Timed'
  <2>1. deadline <= Budget + ClientTimeout + MaxWait
    <3>1. CASE phase = "call"
      <4>1. PICK took \in CallTimes : now + took > deadline
        BY <3>1 DEF CutShort
      <4> QED
        BY <1>2, <3>1, <4>1, MaxWaitBounds DEF Timed, TypeOK
    <3>2. CASE phase = "sleep"
      BY <1>2, <3>2, MaxWaitBounds DEF Timed, TypeOK, CutShort
    <3> QED
      BY <1>1, <3>1, <3>2
  <2> QED
    BY <1>1, <1>2, <2>1 DEF Timed, TypeOK
<1>6. RetriesAreEarned'
  BY <1>1, <1>2 DEF RetriesAreEarned, Earned
<1>7. ScopeIsKept' /\ Floored'
  BY <1>1, ResultKinds DEF ScopeIsKept, Floored, Hung
<1> QED
  BY <1>3, <1>4, <1>5, <1>6, <1>7 DEF RetryInv

LEMMA WakeKeepsInv ==
  ASSUME RetryInv, Wake
  PROVE  RetryInv'
<1> USE RetryAssumption
<1>1. /\ phase = "sleep" /\ wake <= deadline /\ now' = wake /\ attempt' = attempt + 1
      /\ phase' = "check" /\ UNCHANGED <<deadline, errors, wake, notBefore, result>>
  BY DEF Wake
<1>2. TypeOK /\ Counted /\ Timed /\ RetriesAreEarned /\ ScopeIsKept /\ Floored
  BY DEF RetryInv
<1>3. result = NoResult
  BY <1>1, <1>2 DEF TypeOK
<1>4. TypeOK'
  BY <1>1, <1>2 DEF TypeOK, Counted
<1>5. Counted'
  BY <1>1, <1>2 DEF Counted
<1>6. Timed'
  BY <1>1, <1>2 DEF Timed
<1>7. RetriesAreEarned'
  BY <1>1, <1>2 DEF RetriesAreEarned, Earned
<1>8. ScopeIsKept'
  BY <1>1, <1>3, ResultKinds DEF ScopeIsKept
<1>9. Floored'
  BY <1>1, <1>2, <1>3, ResultKinds DEF Floored, Hung
<1> QED
  BY <1>4, <1>5, <1>6, <1>7, <1>8, <1>9 DEF RetryInv

LEMMA CheckBudgetKeepsInv ==
  ASSUME RetryInv, CheckBudget
  PROVE  RetryInv'
<1> USE RetryAssumption
<1> DEFINE e == errors[Len(errors)]
<1>1. /\ phase = "check" /\ UNCHANGED <<deadline, attempt, now, errors, wake, notBefore>>
  BY DEF CheckBudget
<1>2. TypeOK /\ Counted /\ Timed /\ RetriesAreEarned /\ ScopeIsKept /\ Floored
  BY DEF RetryInv
<1>3. errors # <<>> /\ errors \in Seq(Failures) /\ e \in Failures /\ result = NoResult
  BY <1>1, <1>2 DEF TypeOK
<1>4. CASE now >= Budget
  <2>1. phase' = "done" /\ result' = Abandon(e)
    BY <1>4 DEF CheckBudget, Return
  <2>2. /\ Abandon(e) \in Outcomes /\ Abandon(e) # NoResult
        /\ Abandon(e).kind = "abandoned" => ~IsMageLocal(e) /\ Abandon(e).hidden = e
        /\ Abandon(e).kind # "abandoned" => Abandon(e).kind = "failed" /\ Abandon(e).error = e
    BY <1>3, AbandonKeepsScope
  <2>3. TypeOK'
    BY <1>1, <1>2, <2>1, <2>2 DEF TypeOK
  <2>4. Counted'
    BY <1>1, <1>2, <2>1 DEF Counted, TypeOK
  <2>5. Timed'
    BY <1>1, <1>2, <2>1 DEF Timed
  <2>6. RetriesAreEarned'
    BY <1>1, <1>2, <2>1 DEF RetriesAreEarned, Earned
  <2>7. ScopeIsKept'
    BY <1>1, <2>1, <2>2 DEF ScopeIsKept
  <2>8. Floored'
    <3>1. SUFFICES ASSUME Hung PROVE Budget < Floor
      BY <1>1, <2>1 DEF Floored, Hung
    <3>2. now <= ClientTimeout + BaseDelay
      BY <1>1, <1>2, <3>1 DEF Floored
    <3> QED
      BY <1>2, <1>4, <3>2 DEF Floor, TypeOK
  <2> QED
    BY <2>3, <2>4, <2>5, <2>6, <2>7, <2>8 DEF RetryInv
<1>5. CASE ~(now >= Budget)
  <2>1. phase' = "call" /\ result' = result
    BY <1>5 DEF CheckBudget
  <2>2. TypeOK'
    BY <1>1, <1>2, <1>3, <2>1, ResultKinds DEF TypeOK
  <2>3. Counted'
    BY <1>1, <1>2, <1>3, <2>1 DEF Counted
  <2>4. Timed'
    BY <1>1, <1>2, <1>5, <2>1 DEF Timed, TypeOK
  <2>5. RetriesAreEarned'
    BY <1>1, <1>2, <2>1 DEF RetriesAreEarned, Earned
  <2>6. ScopeIsKept' /\ Floored'
    BY <1>1, <1>3, <2>1, ResultKinds DEF ScopeIsKept, Floored, Hung
  <2> QED
    BY <2>2, <2>3, <2>4, <2>5, <2>6 DEF RetryInv
<1> QED
  BY <1>4, <1>5

-----------------------------------------------------------------------------
(* The theorems.                                                            *)

\* The invariant holds in every reachable state.
THEOREM RetryInvariant == Spec => []RetryInv
<1>1. ASSUME RetryInv, [Next]_vars PROVE RetryInv'
  <2>1. CASE CheckBudget
    BY <1>1, <2>1, CheckBudgetKeepsInv
  <2>2. CASE InnerReturns
    BY <1>1, <2>2, InnerAnswersKeepsInv, InnerFailsKeepsInv DEF InnerReturns
  <2>3. CASE Wake
    BY <1>1, <2>3, WakeKeepsInv
  <2>4. CASE CutShort
    BY <1>1, <2>4, CutShortKeepsInv
  <2>5. CASE UNCHANGED vars
    BY <1>1, <2>5 DEF vars, RetryInv, TypeOK, Counted, Timed, RetriesAreEarned, Earned,
                      ScopeIsKept, Floored, Hung
  <2> QED
    BY <1>1, <2>1, <2>2, <2>3, <2>4, <2>5 DEF Next
<1> QED
  BY <1>1, RetryStarts, PTL DEF Spec

\* The loop's variables keep their types and a failure in flight is on record (TypeOK).
THEOREM RetryTypeCorrect == Spec => []TypeOK
<1>1. RetryInv => TypeOK
  BY DEF RetryInv
<1> QED
  BY <1>1, RetryInvariant, PTL

\* Each retry was allowed by the error before it, for any caps and any limited classes.
THEOREM EveryRetryIsEarned == Spec => []RetriesAreEarned
<1>1. RetryInv => RetriesAreEarned
  BY DEF RetryInv
<1> QED
  BY <1>1, RetryInvariant, PTL

\* No call precedes the moment the server asked for, whatever the header's age and jitter.
THEOREM NeverCallsTooEarly == Spec => []NeverTooEarly
<1>1. RetryInv => NeverTooEarly
  BY RetryAssumption DEF RetryInv, Timed, NeverTooEarly, TypeOK
<1> QED
  BY <1>1, RetryInvariant, PTL

\* The time one chain can take, for any configuration.
THEOREM ChainIsBounded == Spec => []TotalBounded
<1>1. RetryInv => TotalBounded
  BY DEF RetryInv, Timed, TotalBounded
<1> QED
  BY <1>1, RetryInvariant, PTL

\* A mage-local failure is never hidden in an abandonment.
THEOREM ScopeSurvives == Spec => []ScopeIsKept
<1>1. RetryInv => ScopeIsKept
  BY DEF RetryInv
<1> QED
  BY <1>1, RetryInvariant, PTL

\* A budget at the documented floor never denies a hang its second attempt.
THEOREM FloorIsEnough == Spec => []SecondAttemptRuns
<1>1. RetryInv => SecondAttemptRuns
  BY RetryAssumption DEF RetryInv, Floored, Hung, SecondAttemptRuns, Floor
<1> QED
  BY <1>1, RetryInvariant, PTL

-----------------------------------------------------------------------------
(* The layering rule.                                                       *)

\* What n calls and the flat backoffs after them can cost.
Allowance(n) == n * (ClientTimeout + BaseDelay)

LEMMA AllowanceGrows ==
  ASSUME NEW n \in Nat
  PROVE  /\ Allowance(n) \in Nat
         /\ Allowance(n + 1) = Allowance(n) + ClientTimeout + BaseDelay
BY RetryAssumption DEF Allowance

\* What the rule asks of the agent's timeout.
Room == (1 + LimitedMaxRetries) * ClientTimeout + LimitedMaxRetries * BaseDelay

\* The last call fits where the last retry does.
LEMMA AllowanceFits ==
  ASSUME NEW n \in Nat, n <= LimitedMaxRetries
  PROVE  Room \in Nat /\ Allowance(n) + ClientTimeout <= Room
<1> USE RetryAssumption
<1>1. PICK k \in Nat : LimitedMaxRetries = n + k
  <2>1. LimitedMaxRetries - n \in Nat /\ LimitedMaxRetries = n + (LimitedMaxRetries - n)
    OBVIOUS
  <2> QED
    BY <2>1
<1>2. Room = Allowance(n) + ClientTimeout + (k * ClientTimeout + k * BaseDelay)
  BY <1>1 DEF Allowance, Room
<1>3. k * ClientTimeout \in Nat /\ k * BaseDelay \in Nat
  BY <1>1
<1>4. Allowance(n) \in Nat
  BY AllowanceGrows
<1> QED
  BY <1>2, <1>3, <1>4

LimitedOnly ==
  \A i \in DOMAIN errors :
    errors[i].class \in LimitedClasses /\ RetryAfter(errors[i].header).kind = "absent"

LayeringRule ==
  /\ LimitedClasses \subseteq FlatClasses
  /\ deadline >= Room

\* Under the rule, a chain that met limited classes only is within its allowance.
Layered ==
  LayeringRule /\ LimitedOnly =>
    /\ phase \in {"call", "check", "sleep"} => Len(errors) <= LimitedMaxRetries
    /\ phase \in {"call", "check"} => now <= Allowance(Len(errors))
    /\ phase = "sleep" => wake <= Allowance(Len(errors))
    /\ result.kind # "cut"

LEMMA FailureStaysLayered ==
  ASSUME RetryInv, Layered, NEW took \in CallTimes, NEW e \in Failures, NEW age \in 0 .. took,
         InnerFails(e, took, age)
  PROVE  Layered'
<1> USE RetryAssumption
<1>1. /\ phase = "call" /\ now' = now + took /\ errors' = Append(errors, e)
      /\ UNCHANGED <<deadline, attempt>> /\ Handle(e, age)
  BY DEF InnerFails
<1>2. /\ errors \in Seq(Failures) /\ Len(errors) = attempt /\ attempt \in Nat /\ now \in Nat
      /\ took \in 0 .. ClientTimeout
  BY <1>1 DEF RetryInv, TypeOK, Counted
<1>3. /\ errors' \in Seq(Failures) /\ Len(errors') = attempt + 1
      /\ errors'[attempt + 1] = e
      /\ \A i \in DOMAIN errors : i \in DOMAIN errors' /\ errors'[i] = errors[i]
      /\ attempt + 1 \in DOMAIN errors'
  BY <1>1, <1>2
<1>4. SUFFICES ASSUME LayeringRule', LimitedOnly'
               PROVE  /\ phase' \in {"call", "check", "sleep"} => Len(errors') <= LimitedMaxRetries
                      /\ phase' \in {"call", "check"} => now' <= Allowance(Len(errors'))
                      /\ phase' = "sleep" => wake' <= Allowance(Len(errors'))
                      /\ result'.kind # "cut"
  BY DEF Layered
<1>5. LayeringRule
  BY <1>1, <1>4 DEF LayeringRule
<1>6. LimitedOnly
  BY <1>3, <1>4 DEF LimitedOnly
<1>7. e.class \in LimitedClasses /\ e.class \in FlatClasses /\ RetryAfter(e.header).kind = "absent"
  BY <1>3, <1>4, <1>5 DEF LimitedOnly, LayeringRule
<1>8. now <= Allowance(attempt) /\ result.kind # "cut"
  BY <1>1, <1>2, <1>5, <1>6 DEF Layered
<1>9. CASE GivesUp(e) \/ AbandonsByHeader(e) \/ StopsAtCap(e)
  <2>1. phase' = "done" /\ result' \in {Failed(e), Abandon(e)}
    BY <1>9 DEF GivesUp, AbandonsByHeader, StopsAtCap, Return
  <2>2. result'.kind \in {"failed", "abandoned"}
    BY <2>1, ResultKinds, AbandonKeepsScope
  <2> QED
    BY <2>1, <2>2
<1>10. CASE BacksOff(e)
  <2>1. PICK w \in Backoffs(attempt, e) : wake' = now' + w
    BY <1>10 DEF BacksOff
  <2>2. w \in Nat /\ w <= BaseDelay
    BY <1>2, <1>7, <2>1, BackoffIsCapped
  <2>3. phase' = "sleep" /\ UNCHANGED result /\ attempt < LimitedMaxRetries
    BY <1>7, <1>10 DEF BacksOff, Limit
  <2>4. wake' <= Allowance(attempt) + ClientTimeout + BaseDelay
    <3>1. Allowance(attempt) \in Nat
      BY <1>2, AllowanceGrows
    <3>2. wake' = now + took + w
      BY <1>1, <2>1
    <3> QED
      BY <1>2, <1>8, <2>2, <3>1, <3>2
  <2>5. wake' <= Allowance(Len(errors'))
    BY <1>2, <1>3, <2>4, AllowanceGrows
  <2> QED
    BY <1>2, <1>3, <1>8, <2>3, <2>5
<1>11. CASE Honors(e, age)
  BY <1>7, <1>11 DEF Honors, Interpreted
<1> QED
  BY <1>1, <1>9, <1>10, <1>11 DEF Handle

LEMMA CutIsUnlayered ==
  ASSUME RetryInv, Layered, CutShort
  PROVE  Layered'
<1> USE RetryAssumption
<1>1. SUFFICES ASSUME LayeringRule', LimitedOnly' PROVE FALSE
  BY DEF Layered
<1>2. LayeringRule /\ LimitedOnly
  BY <1>1 DEF CutShort, LayeringRule, LimitedOnly
<1>3. /\ errors \in Seq(Failures) /\ Len(errors) \in Nat /\ now \in Nat /\ wake \in Nat
      /\ deadline \in Nat
  BY DEF RetryInv, TypeOK
<1>4. phase \in {"call", "sleep"} => Len(errors) <= LimitedMaxRetries
  BY <1>2 DEF Layered
<1>5. PICK n \in Nat : n = Len(errors)
  BY <1>3
<1>6. Allowance(n) \in Nat
  BY AllowanceGrows
<1>7. ASSUME phase \in {"call", "sleep"} PROVE Allowance(n) + ClientTimeout <= deadline
  <2>1. n <= LimitedMaxRetries
    BY <1>4, <1>5, <1>7
  <2>2. Room \in Nat /\ Allowance(n) + ClientTimeout <= Room
    BY <2>1, AllowanceFits
  <2> QED
    BY <1>2, <1>3, <1>6, <2>2 DEF LayeringRule
<1>8. CASE phase = "call" /\ \E took \in CallTimes : now + took > deadline
  <2>1. PICK took \in CallTimes : now + took > deadline
    BY <1>8
  <2>2. now <= Allowance(n) /\ took \in 0 .. ClientTimeout
    BY <1>2, <1>5, <1>8 DEF Layered
  <2> QED
    BY <1>3, <1>6, <1>7, <1>8, <2>1, <2>2
<1>9. CASE phase = "sleep" /\ wake > deadline
  <2>1. wake <= Allowance(n)
    BY <1>2, <1>5, <1>9 DEF Layered
  <2> QED
    BY <1>3, <1>6, <1>7, <1>9, <2>1
<1> QED
  BY <1>8, <1>9 DEF CutShort

\* RetryConfig's layering rule holds: given the room it asks for under the agent's
\* timeout, a chain of limited classes (hangs) always ends by itself, however long its
\* calls take and whatever the budget (LimitedChainFits).
THEOREM LayeringIsEnough == Spec => []LimitedChainFits
<1> USE RetryAssumption
<1>1. Init => Layered
  <2>1. ASSUME Init PROVE Layered
    BY <2>1, AllowanceGrows, ResultKinds DEF Init, Layered
  <2> QED
    BY <2>1
<1>2. ASSUME RetryInv, Layered, [Next]_vars PROVE Layered'
  <2>1. CASE CheckBudget
    <3>1. phase = "check" /\ UNCHANGED <<deadline, now, errors>>
      BY <2>1 DEF CheckBudget
    <3>2. errors # <<>> /\ errors[Len(errors)] \in Failures
      BY <1>2, <3>1 DEF RetryInv, TypeOK
    <3>3. \/ phase' = "call" /\ UNCHANGED result
          \/ phase' = "done" /\ result' = Abandon(errors[Len(errors)])
      BY <2>1 DEF CheckBudget, Return
    <3>4. Abandon(errors[Len(errors)]).kind # "cut"
      BY <3>2, AbandonKeepsScope
    <3> QED
      BY <1>2, <3>1, <3>3, <3>4 DEF Layered, LayeringRule, LimitedOnly
  <2>2. CASE InnerReturns
    <3>1. ASSUME NEW took \in CallTimes, InnerAnswers(took) PROVE Layered'
      BY <3>1, ResultKinds DEF InnerAnswers, Return, Layered
    <3> QED
      BY <1>2, <2>2, <3>1, FailureStaysLayered DEF InnerReturns
  <2>3. CASE Wake
    BY <1>2, <2>3 DEF Wake, Layered, LayeringRule, LimitedOnly
  <2>4. CASE CutShort
    BY <1>2, <2>4, CutIsUnlayered
  <2>5. CASE UNCHANGED vars
    BY <1>2, <2>5 DEF vars, Layered, LayeringRule, LimitedOnly
  <2> QED
    BY <1>2, <2>1, <2>2, <2>3, <2>4, <2>5 DEF Next
<1>3. Layered => LimitedChainFits
  BY DEF Layered, LayeringRule, Room, LimitedOnly, LimitedChainFits
<1> QED
  BY <1>1, <1>2, <1>3, RetryInvariant, PTL DEF Spec
===============================================================================
