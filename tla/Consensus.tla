------------------------------- MODULE Consensus -------------------------------
(***************************************************************************)
(* `ConsensusEngine::determine` (src/src/consensus.rs) with the verdict    *)
(* rules of src/src/schema.rs: the guards, the score, its label, the cap   *)
(* of a degraded run, the confidence and who is on which side. An admitted *)
(* call runs module Findings, its deduplicate_findings, to the end before  *)
(* the result is put together.                                             *)
(*                                                                         *)
(* A score is a sum of halves over at most three mages; all scores are     *)
(* kept as integers, in units of 1/One.                                    *)
(***************************************************************************)
EXTENDS Findings, FiniteSetsExt

CONSTANTS
  Confidences, \* the confidences considered, in percent
  MinOutputs,   \* ConsensusConfig::min_agents
  Epsilon,     \* ConsensusConfig::epsilon, in units of 1/One
  Calls        \* the calls considered: outputs, and the findings they list

One == 24

Verdict == {"approve", "conditional", "reject"}
Output  == [agent : Agent, verdict : Verdict, confidence : Confidences]

ASSUME ConsensusAssumption ==
  /\ IsFiniteSet(Agent) /\ Cardinality(Agent) <= 3
  /\ Confidences \subseteq 0 .. 100
  /\ MinOutputs \in Nat
  /\ Epsilon \in Nat
  /\ Calls \subseteq Seq(Output) \X Seq(Item)
  /\ \A call \in Calls : \A i, j \in DOMAIN call[2] : i <= j =>
       \E k, l \in DOMAIN call[1] : /\ k <= l
                                    /\ call[1][k].agent = call[2][i].agent
                                    /\ call[1][l].agent = call[2][j].agent

VARIABLES
  outputs,  \* the successful mages' outputs, in the order they were joined
  result    \* what determine returned

determineVars == <<findingVars, outputs, result>>

Pending      == [kind |-> "pending"]
TooFew == [kind |-> "insufficient"]
Duplicate    == [kind |-> "duplicate"]

-----------------------------------------------------------------------------
(* Votes.                                                                   *)

\* Mutant: a conditional vote is no vote.
WeightOfPlain(v) == IF v = "approve" THEN 2 ELSE IF v = "reject" THEN -2 ELSE 0

\* Verdict::weight, in halves.
Weight(v) == IF v = "approve" THEN 2 ELSE IF v = "reject" THEN -2 ELSE 1

\* Verdict::effective.
Effective(v) == IF v = "reject" THEN "reject" ELSE "approve"

Voted(o, v) == {i \in DOMAIN o : o[i].verdict = v}
Total(o) ==
  Weight("approve") * Cardinality(Voted(o, "approve"))
    + Weight("conditional") * Cardinality(Voted(o, "conditional"))
    + Weight("reject") * Cardinality(Voted(o, "reject"))
Score(o) == (Total(o) * One) \div (2 * Len(o))

Side(o, v) == {i \in DOMAIN o : Effective(o[i].verdict) = v}
Count(o, v) == Cardinality(Side(o, v))

Distance(x, y) == IF x > y THEN x - y ELSE y - x

\* classify, with the split a label renders.
Plain(name)    == [name |-> name]
Split(name, x, y) == [name |-> name, split |-> <<x, y>>]

Classify(o) ==
  LET score   == Score(o)
      for     == Count(o, "approve")
      against == Count(o, "reject")
  IN  CASE Distance(score, One) < Epsilon  -> [label |-> Plain("STRONG GO"), verdict |-> "approve"]
        [] Distance(score, -One) < Epsilon -> [label |-> Plain("STRONG NO-GO"), verdict |-> "reject"]
        [] OTHER ->
           IF score > Epsilon
           THEN [label |-> Split(IF \E i \in DOMAIN o : o[i].verdict = "conditional"
                                 THEN "GO WITH CAVEATS" ELSE "GO", for, against),
                 verdict |-> "approve"]
           ELSE [label |-> IF Distance(score, 0) < Epsilon THEN Plain("HOLD -- TIE")
                                                           ELSE Split("HOLD", against, for),
                 verdict |-> "reject"]

\* A run of fewer than three mages is never called strong.
Capped(label, n) ==
  IF n >= 3 THEN label
  ELSE CASE label.name = "STRONG GO"    -> Split("GO", n, 0)
         [] label.name = "STRONG NO-GO" -> Split("HOLD", n, 0)
         [] OTHER                       -> label

\* Half away from zero, as f64::round of a non-negative number.
Rounded(num, den) == (2 * num + den) \div (2 * den)

\* The confidences of the emitted side, averaged over ALL mages and weighted by the score.
Confidence(o, v) ==
  LET sum == MapThenSumSet(LAMBDA i : o[i].confidence, Side(o, v))
  IN  Rounded(sum * (Distance(Score(o), 0) + One), 2 * One * Len(o))

-----------------------------------------------------------------------------
DetermineInit ==
  \E call \in Calls :
    /\ outputs = call[1]
    /\ feed = call[2]
    /\ FindingsInit
    /\ result = Pending

\* ConsensusEngine::new clamps the minimum.
Required == IF MinOutputs = 0 THEN 1 ELSE MinOutputs

Repeated == \E i, j \in DOMAIN outputs : i # j /\ outputs[i].agent = outputs[j].agent

Admitted == Len(outputs) >= Required /\ ~Repeated

Refuse ==
  /\ result = Pending
  /\ \/ Len(outputs) < Required /\ result' = TooFew
     \/ Len(outputs) >= Required /\ Repeated /\ result' = Duplicate
  /\ UNCHANGED <<findingVars, outputs>>

\* deduplicate_findings, called once the outputs are admitted.
Deduplicate ==
  /\ result = Pending /\ Admitted
  /\ FindingsNext
  /\ UNCHANGED <<outputs, result>>

\* Whoever differs from the EMITTED verdict.
Dissent(o, v) == {o[i].agent : i \in {j \in DOMAIN o : Effective(o[j].verdict) # v}}

Synthesize ==
  /\ result = Pending /\ Admitted
  /\ sorted
  /\ LET c == Classify(outputs) IN
       result' = [kind       |-> "result",
                  consensus  |-> Capped(c.label, Len(outputs)),
                  verdict    |-> c.verdict,
                  confidence |-> Confidence(outputs, c.verdict),
                  summary    |-> {outputs[i].agent : i \in Side(outputs, c.verdict)},
                  dissent    |-> Dissent(outputs, c.verdict),
                  conditions |-> {outputs[i].agent :
                                    i \in {j \in DOMAIN outputs : outputs[j].verdict = "conditional"}},
                  findings   |-> report]
  /\ UNCHANGED <<findingVars, outputs>>

DetermineNext == Refuse \/ Deduplicate \/ Synthesize

DetermineSpec == DetermineInit /\ [][DetermineNext]_determineVars

-----------------------------------------------------------------------------
(* Properties.                                                              *)

\* The tolerance is positive and below the smallest gap between two scores, a sixth; the
\* default is 1e-9.
FineEpsilon == Epsilon > 0 /\ 6 * Epsilon < One

Determined == result.kind = "result"

\* The verdict follows the score and the label shows the count; "the two can disagree".
\* They do only in a tie: any other emitted verdict is never outnumbered by the other
\* side, so no label shows a split that contradicts it.
OnlyTieOverrulesCount ==
  FineEpsilon /\ Determined =>
    LET other == IF result.verdict = "approve" THEN "reject" ELSE "approve" IN
      \/ Count(outputs, result.verdict) >= Count(outputs, other)
      \/ result.consensus = Plain("HOLD -- TIE") /\ result.verdict = "reject"

\* Each mage is on exactly one side of the emitted verdict: its summary is joined or it is
\* listed as a dissenter, never both and never neither.
SidesArePartitioned ==
  Determined =>
    /\ result.summary \cup result.dissent = {outputs[i].agent : i \in DOMAIN outputs}
    /\ result.summary \cap result.dissent = {}
===============================================================================
