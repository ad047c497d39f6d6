------------------------------- MODULE MagiProofs -------------------------------
(***************************************************************************)
(* Proofs about a Magi's life: what its builder made of the calls chained  *)
(* on it, and what the entry of an analysis promises, for every number of  *)
(* calls, every chain and every size of a machine word.                    *)
(***************************************************************************)
EXTENDS Builder, Analyze, SequenceTheorems, TLAPS

\* A probe stands beside the provider it came with.
ProbesInv ==
  \A a \in DOMAIN probes : a \in DOMAIN providers /\ probes[a] = providers[a]

\* register_seat writes the maps of one seat together, or clears its probe.
LEMMA RegisteringKeeps ==
  ASSUME ProbesInv, NEW a, NEW p, NEW l, NEW probe,
         RegisterSeat(a, p, l, probe), probe = None \/ probe = Some(p)
  PROVE  ProbesInv'
<1>1. providers' = Put(providers, a, p)
  BY DEF RegisterSeat
<1>4. /\ DOMAIN providers' = DOMAIN providers \cup {a} /\ providers'[a] = p
      /\ \A x \in DOMAIN providers : x # a => providers'[x] = providers[x]
  BY <1>1 DEF Put
<1>2. CASE probe = None
  <2>1. probes' = Remove(probes, a)
    BY <1>2 DEF RegisterSeat
  <2>2. /\ DOMAIN probes' = DOMAIN probes \ {a}
        /\ \A x \in DOMAIN probes \ {a} : probes'[x] = probes[x]
    BY <2>1 DEF Remove
  <2> QED
    BY <1>4, <2>2 DEF ProbesInv
<1>3. CASE probe = Some(p)
  <2>1. probe # None /\ probe[1] = p
    BY <1>3 DEF Some, None
  <2>2. probes' = Put(probes, a, p)
    BY <2>1 DEF RegisterSeat
  <2>3. /\ DOMAIN probes' = DOMAIN probes \cup {a} /\ probes'[a] = p
        /\ \A x \in DOMAIN probes : x # a => probes'[x] = probes[x]
    BY <2>2 DEF Put
  <2> QED
    BY <1>4, <2>3 DEF ProbesInv
<1> QED
  BY <1>2, <1>3

LEMMA ProbesStep == ProbesInv /\ [BuilderNext]_builderVars => ProbesInv'
<1> SUFFICES ASSUME ProbesInv, [BuilderNext]_builderVars PROVE ProbesInv'
  OBVIOUS
<1>1. ASSUME NEW a \in Agent, NEW p \in Provider, NEW l \in Lineage \cup {Blank},
             WithAgent(a, p, l) \/ WithAgentAndProbe(a, p, l)
      PROVE  ProbesInv'
  BY <1>1, RegisteringKeeps DEF WithAgent, WithAgentAndProbe
<1>2. ASSUME NEW a \in Agent, NEW p \in Provider, WithProvider(a, p) PROVE ProbesInv'
  BY <1>2, RegisteringKeeps DEF WithProvider
<1>3. ASSUME UNCHANGED <<providers, probes>> PROVE ProbesInv'
  BY <1>3 DEF ProbesInv
<1>4. ASSUME NEW a \in Agent, NEW text \in Prompt,
             \/ WithCustomPromptAllModes(a, text)
             \/ \E m \in Mode : WithCustomPromptForMode(a, m, text)
      PROVE  ProbesInv'
  BY <1>4, <1>3 DEF WithCustomPromptAllModes, WithCustomPromptForMode
<1>5. ASSUME NEW d \in Directories, WithPromptsDir(d) PROVE ProbesInv'
  BY <1>5, <1>3 DEF WithPromptsDir
<1>6. ASSUME NEW p \in Pools, WithFallbackPool(p) PROVE ProbesInv'
  BY <1>6, <1>3 DEF WithFallbackPool
<1>7. CASE Build
  BY <1>7, <1>3 DEF Build
<1>8. CASE UNCHANGED builderVars
  BY <1>8, <1>3 DEF builderVars, settings
<1> QED
  BY <1>1, <1>2, <1>4, <1>5, <1>6, <1>7, <1>8 DEF BuilderNext

\* Whatever the order of the setters, no probe of the preflight is filed under a model it
\* does not measure.
THEOREM ProbesAreOfTheirModel == BuilderSpec => []ProbesMeasureTheirModel
<1>1. BuilderInit => ProbesInv
  BY DEF BuilderInit, ProbesInv
<1>2. ProbesInv => ProbesMeasureTheirModel
  <2> SUFFICES ASSUME ProbesInv, NEW target \in ProbeTargets PROVE target[1] = target[2]
    BY DEF ProbesMeasureTheirModel
  <2>1. \A a \in DOMAIN probes : Serves(a) = probes[a]
    BY DEF ProbesInv, Serves
  <2> QED
    BY <2>1 DEF ProbeTargets
<1> QED
  BY <1>1, <1>2, ProbesStep, PTL DEF BuilderSpec

-----------------------------------------------------------------------------
\* What the guard saw is what was built: every override, those of the directory included.
GuardedInv ==
  outcome = "built" => \A k \in DOMAIN overrides : overrides[k] \in Contract

LEMMA GuardedStep == GuardedInv /\ [BuilderNext]_builderVars => GuardedInv'
<1> SUFFICES ASSUME GuardedInv, [BuilderNext]_builderVars PROVE GuardedInv'
  OBVIOUS
<1>1. ASSUME NEW call, Called(call) PROVE outcome' = "open"
  BY <1>1 DEF Called
<1>2. CASE BuilderNext /\ ~Build
  <2>1. outcome' = "open"
    BY <1>1, <1>2 DEF BuilderNext, WithAgent, WithAgentAndProbe, WithProvider,
         WithCustomPromptAllModes, WithCustomPromptForMode, WithPromptsDir, WithFallbackPool
  <2> QED
    BY <2>1 DEF GuardedInv
<1>3. CASE Build
  <2> SUFFICES ASSUME outcome' = "built", NEW k \in DOMAIN overrides'
               PROVE  overrides'[k] \in Contract
    BY DEF GuardedInv
  <2>1. Verdict = "built"
    BY <1>3 DEF Build
  <2>2. GuardPasses /\ overrides' = Merged
    BY <1>3, <2>1 DEF Build, Verdict
  <2> QED
    BY <2>2 DEF GuardPasses
<1>4. CASE UNCHANGED builderVars
  BY <1>4 DEF builderVars, settings, GuardedInv
<1> QED
  BY <1>2, <1>3, <1>4

\* Whatever was set, read from files and merged: no agent of a Magi that was built is
\* given, in any mode, a prompt the contract does not cover.
THEOREM PromptsAreGuarded == BuilderSpec => []RunsOnlyGuardedPrompts
<1>1. BuilderInit => GuardedInv
  BY DEF BuilderInit, GuardedInv
<1>2. GuardedInv => RunsOnlyGuardedPrompts
  BY DEF GuardedInv, RunsOnlyGuardedPrompts, LookupPrompt
<1> QED
  BY <1>1, <1>2, GuardedStep, PTL DEF BuilderSpec

-----------------------------------------------------------------------------
(* The entry of an analysis.                                                *)

\* A quotient exceeds w exactly when the divisor fits w + 1 times.
LEMMA QuotientExceeds ==
  ASSUME NEW n \in Nat, NEW d \in Nat \ {0}, NEW w \in Nat
  PROVE  n \div d > w <=> (w + 1) * d <= n
<1> DEFINE q == n \div d
           r == n % d
<1>1. q \in Int /\ r \in 0 .. d - 1 /\ n = d * q + r
  OBVIOUS
<1> HIDE DEF q, r
<1>2. CASE q > w
  <2>1. q >= w + 1
    BY <1>1, <1>2
  <2>2. d * q >= d * (w + 1)
    BY <1>1, <2>1
  <2> QED
    BY <1>1, <1>2, <2>2 DEF q
<1>3. CASE q <= w
  <2>1. d * q <= d * w
    BY <1>1, <1>3
  <2>2. n < d * w + d
    BY <1>1, <2>1
  <2> QED
    BY <1>1, <1>3, <2>2 DEF q
<1> QED
  BY <1>1, <1>2, <1>3

\* The two fields of the configuration are machine words, set once; what was announced is
\* what they say, and a call that was marked passed the size check.
ConfigInv ==
  /\ maxInputLen \in Word /\ inputWarnTokens \in Word
  /\ announced = warnThresholdIsUnreachable(inputWarnTokens, maxInputLen)
  /\ len \in [Calls -> Nat] /\ DOMAIN exceeded = Calls /\ DOMAIN pc = Calls
  /\ \A c \in Calls : pc[c] \notin {"idle", "refused"} => len[c] <= maxInputLen
  /\ \A c \in Calls : exceeded[c] => \E n \in 0..maxInputLen : Marked(n)

\* The two saturating operations change nothing below the top of a word.
LEMMA UnreachableMeans ==
  ASSUME NEW w \in Word, NEW max \in Word, max < MaxWord
  PROVE  warnThresholdIsUnreachable(w, max) <=> \A n \in 0..max : ~(n \div Divisor > w)
<1>1. MaxWord \in Nat /\ Divisor \in Nat \ {0} /\ w \in Nat /\ max \in Nat /\ w <= MaxWord
  BY AnalyzeAssumption DEF Word
<1>2. \A n \in 0..max : n \div Divisor > w <=> (w + 1) * Divisor <= n
  BY <1>1, QuotientExceeds
<1> DEFINE need == (w + 1) * Divisor
<1>3. need \in Nat /\ need >= w + 1
  BY <1>1
<1>4. warnThresholdIsUnreachable(w, max) <=> need > max
  <2>1. CASE w + 1 <= MaxWord
    BY <1>1, <1>3, <2>1
       DEF warnThresholdIsUnreachable, saturatingAdd, saturatingMul, Min2
  <2>2. CASE w + 1 > MaxWord
    <3>1. w = MaxWord /\ saturatingAdd(w, 1) = MaxWord
      BY <1>1, <2>2 DEF saturatingAdd, Min2
    <3>2. MaxWord * Divisor >= MaxWord
      BY <1>1
    <3> QED
      BY <1>1, <1>3, <3>1, <3>2 DEF warnThresholdIsUnreachable, saturatingMul, Min2
  <2> QED
    BY <1>1, <2>1, <2>2
<1> HIDE DEF need
<1>5. need <= max <=> \E n \in 0..max : need <= n
  BY <1>1, <1>3
<1>6. \A n \in 0..max : n \div Divisor > w <=> need <= n
  BY <1>2 DEF need
<1> QED
  BY <1>1, <1>3, <1>4, <1>5, <1>6

LEMMA WordsAreNumbers ==
  /\ MaxWord \in Nat
  /\ \A n \in Word : n \in Nat
  /\ \A n \in Lengths : n \in Nat
BY AnalyzeAssumption DEF Word

LEMMA ConfigStarts == Init => ConfigInv
<1> SUFFICES ASSUME Init PROVE ConfigInv
  OBVIOUS
<1>1. /\ maxInputLen \in Word /\ inputWarnTokens \in Word
      /\ announced = warnThresholdIsUnreachable(inputWarnTokens, maxInputLen)
  BY DEF Init
<1>2. len \in [Calls -> Nat] /\ DOMAIN exceeded = Calls /\ DOMAIN pc = Calls
  BY DEF Init
<1>3. \A c \in Calls : pc[c] = "idle" /\ ~exceeded[c]
  BY DEF Init
<1> QED
  BY <1>1, <1>2, <1>3 DEF ConfigInv

LEMMA ConfigStep == ConfigInv /\ [Next]_vars => ConfigInv'
<1> SUFFICES ASSUME ConfigInv, [Next]_vars PROVE ConfigInv'
  OBVIOUS
<1>1. maxInputLen \in Nat /\ \A n \in Lengths : n \in Nat
  BY WordsAreNumbers DEF ConfigInv
<1> USE DEF ConfigInv, Marked, Goto, At
<1>2. ASSUME NEW c \in Calls, CheckSize(c) PROVE ConfigInv'
  <2>1. PICK n \in Lengths :
          /\ len' = [len EXCEPT ![c] = n]
          /\ pc' = [pc EXCEPT ![c] = IF n > maxInputLen THEN "refused" ELSE "checked"]
    BY <1>2 DEF CheckSize
  <2>2. UNCHANGED <<config, exceeded>>
    BY <1>2 DEF CheckSize
  <2> QED
    BY <1>1, <2>1, <2>2 DEF config
<1>3. ASSUME NEW c \in Calls, BuildPrompt(c) PROVE ConfigInv'
  <2>1. /\ exceeded' = [exceeded EXCEPT ![c] = estimateTokens(len[c]) > inputWarnTokens]
        /\ UNCHANGED <<config, len>> /\ pc[c] = "gated"
        /\ pc' \in {[pc EXCEPT ![c] = "prompted"], [pc EXCEPT ![c] = "refused"]}
    BY <1>3 DEF BuildPrompt
  <2>2. len[c] \in 0..maxInputLen
    BY <1>1, <2>1
  <2>3. \A d \in Calls : exceeded'[d] => \E n \in 0..maxInputLen : Marked(n)
    BY <2>1, <2>2
  <2>4. \A d \in Calls : pc'[d] \notin {"idle", "refused"} => len[d] <= maxInputLen
    BY <2>1
  <2> QED
    BY <2>1, <2>3, <2>4 DEF config
<1>4. ASSUME NEW c \in Calls,
             AskGate(c) \/ Declare(c) \/ Probed(c) \/ Finish(c) \/ Cancel(c)
      PROVE  ConfigInv'
  <2>1. UNCHANGED <<config, len, exceeded>>
    BY <1>4 DEF AskGate, Declare, Probed, Finish, Cancel, measured
  <2>2. pc[c] \notin {"idle", "refused"} /\ \E p : pc' = [pc EXCEPT ![c] = p]
    BY <1>4 DEF AskGate, Declare, Probed, Finish, Cancel
  <2> QED
    BY <2>1, <2>2 DEF config
<1>5. ASSUME NEW c \in Calls, Join(c) \/ FetchOr(c) \/ Emit(c) PROVE ConfigInv'
  BY <1>5 DEF Join, FetchOr, Emit, measured, config
<1>6. CASE UNCHANGED vars
  BY <1>6 DEF vars, measured, config
<1> QED
  BY <1>2, <1>3, <1>4, <1>5, <1>6 DEF Next, Step

\* For every limit, threshold and width of a word: what `build` announced is true, and no
\* analysis belies it.
THEOREM AnnouncementHolds == Spec => []AnnouncementIsExact
<1>1. ConfigInv => AnnouncementIsExact
  <2> SUFFICES ASSUME ConfigInv, maxInputLen < MaxWord
               PROVE  /\ announced <=> ~ \E n \in 0..maxInputLen : Marked(n)
                      /\ announced => \A c \in Calls : ~exceeded[c]
    BY DEF AnnouncementIsExact
  <2>1. announced <=> ~ \E n \in 0..maxInputLen : Marked(n)
    BY UnreachableMeans DEF ConfigInv, Marked, estimateTokens
  <2> QED
    BY <2>1 DEF ConfigInv
<1> QED
  BY <1>1, ConfigStarts, ConfigStep, PTL DEF Spec

-----------------------------------------------------------------------------
(* The gate of the standing warnings. Whatever was written or is about to   *)
(* be has its bit set, and the one call that found the bit clear is the     *)
(* only one that may still write the warning.                               *)

GateTypes ==
  /\ log \in Seq(Warnings)
  /\ toAsk \in [Calls -> Seq(Warnings)]
  /\ winning \in [Calls -> Warnings \cup {""}]

GateInv ==
  /\ GateTypes /\ ToldOnce
  /\ \A i \in DOMAIN log : Bit(log[i]) \in warned
  /\ \A c \in Calls : winning[c] # "" =>
       /\ Bit(winning[c]) \in warned
       /\ \A i \in DOMAIN log : log[i] # winning[c]
       /\ \A d \in Calls : d # c => winning[d] # winning[c]

LEMMA WarningSequences ==
  /\ <<>> \in Seq(Warnings)
  /\ \A w \in Warnings : <<w>> \in Seq(Warnings)
  /\ \A s, t \in Seq(Warnings) : s \o t \in Seq(Warnings)
<1>1. <<>> \in Seq(Warnings)
  OBVIOUS
<1>2. \A w \in Warnings : <<w>> \in Seq(Warnings)
  OBVIOUS
<1>3. \A s, t \in Seq(Warnings) : s \o t \in Seq(Warnings)
  BY ConcatProperties
<1> QED
  BY <1>1, <1>2, <1>3

\* Appending a warning to the log.
LEMMA LogGrows ==
  ASSUME NEW s \in Seq(Warnings), NEW w \in Warnings
  PROVE  /\ Append(s, w) \in Seq(Warnings)
         /\ DOMAIN s = 1 .. Len(s) /\ Len(s) \in Nat
         /\ DOMAIN Append(s, w) = 1 .. Len(s) + 1
         /\ Append(s, w)[Len(s) + 1] = w
         /\ \A i \in DOMAIN s : Append(s, w)[i] = s[i]
OBVIOUS

LEMMA GateStep == GateInv /\ [Next]_vars => GateInv'
<1> SUFFICES ASSUME GateInv, [Next]_vars PROVE GateInv'
  OBVIOUS
<1> USE DEF GateInv, GateTypes
<1>1. ASSUME NEW c \in Calls, FetchOr(c) PROVE GateInv'
  <2> DEFINE w == Head(toAsk[c])
  <2>1. w \in Warnings /\ Tail(toAsk[c]) \in Seq(Warnings)
    <3>1. toAsk[c] \in Seq(Warnings) /\ toAsk[c] # <<>>
      BY <1>1 DEF FetchOr
    <3> QED
      BY <3>1, HeadTailProperties
  <2>2. /\ warned' = warned \cup {Bit(w)} /\ log' = log /\ winning[c] = ""
        /\ winning' = [winning EXCEPT ![c] = IF Bit(w) \in warned THEN "" ELSE w]
        /\ toAsk' = [toAsk EXCEPT ![c] = Tail(toAsk[c])]
    BY <1>1 DEF FetchOr
  <2> HIDE DEF w
  <2>3. GateTypes'
    BY <2>1, <2>2
  <2>4. CASE Bit(w) \in warned
    <3>1. winning' = winning /\ warned' = warned
      BY <2>2, <2>4
    <3> QED
      BY <2>2, <2>3, <3>1 DEF ToldOnce
  <2>5. CASE Bit(w) \notin warned
    <3>1. winning'[c] = w /\ \A d \in Calls : d # c => winning'[d] = winning[d]
      BY <2>2, <2>5
    <3>2. \A i \in DOMAIN log : log[i] # w
      BY <2>5
    <3>3. \A d \in Calls : d # c => winning[d] # w
      BY <2>5, <2>1 DEF Warnings
    <3> QED
      BY <2>2, <2>3, <3>1, <3>2, <3>3 DEF ToldOnce
  <2> QED
    BY <2>4, <2>5
<1>2. ASSUME NEW c \in Calls, Emit(c) PROVE GateInv'
  <2> DEFINE w == winning[c]
  <2>1. /\ w \in Warnings /\ w # "" /\ log' = Append(log, w) /\ warned' = warned
        /\ winning' = [winning EXCEPT ![c] = ""] /\ toAsk' = toAsk
    BY <1>2 DEF Emit
  <2> HIDE DEF w
  <2>2. /\ DOMAIN log' = 1 .. Len(log) + 1 /\ DOMAIN log = 1 .. Len(log) /\ Len(log) \in Nat
        /\ log'[Len(log) + 1] = w /\ \A i \in DOMAIN log : log'[i] = log[i]
        /\ log' \in Seq(Warnings)
    BY <2>1, LogGrows
  <2>3. GateTypes'
    BY <2>1, <2>2
  <2>4. \A i \in DOMAIN log : log[i] # w
    BY <2>1 DEF w
  <2>5. ToldOnce'
    <3>1. \A i, j \in DOMAIN log : i # j => log[i] # log[j]
      BY DEF ToldOnce
    <3> HIDE DEF GateInv, GateTypes
    <3>2. \A i, j \in DOMAIN log' : i # j => log'[i] # log'[j]
      BY <3>1, <2>2, <2>4
    <3> QED
      BY <3>2 DEF ToldOnce
  <2>6. \A d \in Calls : d # c => winning'[d] = winning[d] /\ winning[d] # w
    BY <2>1 DEF w
  <2>7. winning'[c] = "" /\ Bit(w) \in warned
    BY <2>1 DEF w
  <2>10. \A i \in DOMAIN log : Bit(log[i]) \in warned
    OBVIOUS
  <2>8. \A i \in DOMAIN log' : Bit(log'[i]) \in warned'
    <3> SUFFICES ASSUME NEW i \in DOMAIN log' PROVE Bit(log'[i]) \in warned
      BY <2>1
    <3>1. i = Len(log) + 1 \/ i \in DOMAIN log
      <4>1. i \in 1 .. Len(log) + 1 /\ Len(log) \in Nat /\ DOMAIN log = 1 .. Len(log)
        BY <2>2
      <4> HIDE DEF GateInv, GateTypes
      <4> QED
        BY <4>1
    <3> QED
      BY <2>2, <2>7, <2>10, <3>1
  <2>9. ASSUME NEW d \in Calls, winning'[d] # ""
        PROVE  /\ Bit(winning'[d]) \in warned'
               /\ \A i \in DOMAIN log' : log'[i] # winning'[d]
               /\ \A e \in Calls : e # d => winning'[e] # winning'[d]
    <3>1. d # c /\ winning'[d] = winning[d] /\ winning[d] # w
      BY <2>6, <2>7, <2>9
    <3>2. \A e \in Calls : e # d => winning'[e] # winning'[d]
      BY <2>6, <2>7, <2>9, <3>1
    <3>3. Bit(winning[d]) \in warned /\ \A i \in DOMAIN log : log[i] # winning[d]
      BY <2>9, <3>1
    <3> HIDE DEF GateInv, GateTypes
    <3>4. \A i \in DOMAIN log' : log'[i] # winning'[d]
      BY <2>2, <3>1, <3>3
    <3>5. Bit(winning'[d]) \in warned'
      <4>1. warned' = warned
        BY <2>1
      <4>2. Bit(winning'[d]) = Bit(winning[d])
        BY <3>1
      <4> QED
        BY <3>3, <4>1, <4>2
    <3> QED
      BY <3>2, <3>4, <3>5
  <2> QED
    BY <2>3, <2>5, <2>8, <2>9
<1>3. ASSUME NEW c \in Calls, Declare(c) \/ Probed(c) \/ Join(c) PROVE GateInv'
  <2>1. UNCHANGED <<warned, log, winning>>
    BY <1>3 DEF Declare, Probed, Join, once
  <2>2. \/ toAsk' = toAsk
        \/ \E ws \in Seq(Warnings) : toAsk' = [toAsk EXCEPT ![c] = ws]
    <3>2. {"ProbeDeclaration", "SharedDigest", "InertGuard", "DegenerateDigest"} = Warnings
      BY DEF Warnings
    <3>3. CASE Declare(c) \/ Join(c)
      BY WarningSequences, <3>2, <3>3 DEF Declare, Join, Ask
    <3>4. CASE Probed(c)
      BY WarningSequences, <3>2, <3>4 DEF Probed, Ask
    <3> QED
      BY <1>3, <3>3, <3>4
  <2>3. toAsk' \in [Calls -> Seq(Warnings)]
    BY <2>2
  <2> QED
    BY <2>1, <2>3 DEF ToldOnce
<1>4. ASSUME NEW c \in Calls,
             CheckSize(c) \/ AskGate(c) \/ BuildPrompt(c) \/ Finish(c) \/ Cancel(c)
      PROVE  GateInv'
  <2>1. UNCHANGED <<warned, log, winning, toAsk>>
    BY <1>4 DEF CheckSize, AskGate, BuildPrompt, Finish, Cancel, once
  <2> QED
    BY <2>1 DEF ToldOnce
<1>5. CASE UNCHANGED vars
  BY <1>5 DEF vars, once, ToldOnce
<1> QED
  BY <1>1, <1>2, <1>3, <1>4, <1>5 DEF Next, Step

\* However many calls find a standing warning at one time, it is written once.
THEOREM WarningsAreToldOnce == Spec => []ToldOnce
<1>1. Init => GateInv
  <2> SUFFICES ASSUME Init PROVE GateInv
    OBVIOUS
  <2>1. log = <<>> /\ \A i \in DOMAIN log : FALSE
    <3>1. log = <<>>
      BY DEF Init
    <3> QED
      BY <3>1
  <2>2. \A c \in Calls : winning[c] = "" /\ toAsk[c] = <<>>
    BY DEF Init
  <2>3. GateTypes
    BY <2>1, WarningSequences DEF Init, GateTypes
  <2> QED
    BY <2>1, <2>2, <2>3 DEF GateInv, ToldOnce
<1>2. GateInv => ToldOnce
  BY DEF GateInv
<1> QED
  BY <1>1, <1>2, GateStep, PTL DEF Spec
===============================================================================
