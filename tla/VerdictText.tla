------------------------------ MODULE VerdictText ------------------------------
(***************************************************************************)
(* How a verdict is found in the text of a model, and how a prompt is      *)
(* refused that could be mistaken for one: `locate_block`, `strip_fence`   *)
(* and `extract` (src/src/verdict_markers.rs), `validate_prompt_for`       *)
(* (src/src/prompts/mod.rs) and `parse_validate_and_check`                 *)
(* (src/src/orchestrator.rs).                                              *)
(*                                                                         *)
(* A text is a sequence of lines, and a line is known by what the code can *)
(* tell of it: a marker and how it is written, a fence, a JSON payload (on *)
(* one line) or prose. An answer the output budget cut ends within a line  *)
(* as a rule, so what a line may begin with is said as well.               *)
(***************************************************************************)
EXTENDS Integers, Sequences, FiniteSets

CONSTANTS
  Payload,   \* the payload lines of this instance, a subset of Payloads
  MaxLines   \* bound on the length of a text

\* Marker lines. A loose one has an invisible character inside, or another case; a
\* separated one has U+2028 between the line break and the marker.
Open  == {"open", "open_loose", "open_separated"}
Close == {"close", "close_loose"}
Loose == {"open_loose", "close_loose"}
Fence == {"backticks", "tildes"}

\* Lines that begin with a marker and go on. Only a line that is the marker and nothing
\* else is a marker line, so these are prose to both predicates.
Quotes == {"open_quoted", "close_quoted"}

\* Payloads: a sound verdict of the mage that was asked; one of another mage; the worked
\* example of another mage's prompt; one the validator rejects; JSON that is no verdict
\* (a key missing).
Payloads == {"verdict", "foreign", "example", "unsound", "partial"}
Line     == Open \cup Close \cup Fence \cup Quotes \cup Payload \cup {"blank", "prose"}

ASSUME VerdictTextAssumption == Payload \subseteq Payloads /\ MaxLines \in Nat

VARIABLE text

-----------------------------------------------------------------------------
(* The lines each of the two marker predicates admits. Both trim, and       *)
(* str::trim removes U+2028.                                                *)
Permissive == Open \cup Close
Strict     == Permissive \ Loose

At(t, kind) == {i \in DOMAIN t : t[i] \in kind}
Only(S) == CHOOSE i \in S : TRUE

\* The marker lines that a longer line may begin with: a quoted marker in any form, a loose
\* one without the invisible character behind it.
MarkersHeading(line) ==
  CASE line = "open_quoted"  -> Open
    [] line = "close_quoted" -> Close
    [] line = "open_loose"   -> {"open"}
    [] line = "close_loose"  -> {"close"}
    [] OTHER                 -> {}

\* What is left of a line that a cut falls in. The beginning of a JSON object is no JSON.
Beginnings(line) ==
  {"blank", line} \cup MarkersHeading(line)
    \cup (IF line = "blank" THEN {} ELSE {"prose"})
    \cup (IF line = "prose" THEN Fence \cup Payload ELSE {})

\* What is left of an answer that is cut in its line n.
Cut(t, n, line) == Append(SubSeq(t, 1, n - 1), line)

\* str::trim on a block: blank lines at its two ends go.
Trim(block) ==
  LET filled == {i \in DOMAIN block : block[i] # "blank"} IN
    IF filled = {} THEN <<>>
    ELSE SubSeq(block, CHOOSE i \in filled : \A j \in filled : i <= j,
                       CHOOSE i \in filled : \A j \in filled : i >= j)

\* Mutant: any two fences pair.
StripAnyFence(block) ==
  IF Len(block) >= 2 /\ block[1] \in Fence /\ block[Len(block)] \in Fence
  THEN Trim(SubSeq(block, 2, Len(block) - 1)) ELSE block

\* strip_fence: a pair of one type that wraps the whole block, or nothing.
StripFence(block) ==
  IF Len(block) >= 2 /\ block[1] \in Fence /\ block[1] = block[Len(block)]
  THEN Trim(SubSeq(block, 2, Len(block) - 1))
  ELSE block

Located(cause, block) == [cause |-> cause, block |-> block]
Found == "found"

\* locate_block: the order of its checks picks the cause.
Locate(t, markers) ==
  LET opens == At(t, markers \cap Open)  closes == At(t, markers \cap Close) IN
    IF opens = {} /\ closes = {} THEN Located("missing_markers", <<>>)
    ELSE IF opens = {} \/ closes = {} THEN Located("unterminated", <<>>)
    ELSE IF Cardinality(opens) # 1 \/ Cardinality(closes) # 1 THEN Located("ambiguous", <<>>)
    ELSE IF Only(closes) < Only(opens) THEN Located("ambiguous", <<>>)
    ELSE Located(Found, StripFence(Trim(SubSeq(t, Only(opens) + 1, Only(closes) - 1))))

\* serde_json::from_str::<AgentOutput>: what is missing from an object is noticed before
\* the text that follows it.
Decode(block) ==
  IF block # <<>> /\ Head(block) = "partial" THEN "malformed_object"
  ELSE IF Len(block) = 1 /\ block[1] \in Payloads THEN "decoded"
  ELSE "invalid_json"

\* Validator, then the canary, then the identity. The example is another mage's.
Check(payload) ==
  CASE payload = "unsound" -> "schema"
    [] payload = "example" -> "echoed_example"
    [] payload = "foreign" -> "agent_identity"
    [] OTHER -> "accepted"

\* parse_validate_and_check: "accepted", or the ExtractionFailureCause.
Parse(t) ==
  LET located == Locate(t, Permissive) IN
    IF located.cause # Found THEN located.cause
    ELSE IF Decode(located.block) # "decoded" THEN Decode(located.block)
    ELSE Check(located.block[1])

\* Mutant: only an open block is laid to the budget.
TemplateUnterminated(cause, finish) ==
  IF cause = "unterminated" /\ finish = "length" THEN "budget" ELSE cause
\* retry_template: the two shapes a cut by the output budget leaves are laid to it; every
\* other cause has a wording of its own.
Template(cause, finish) ==
  IF cause \in {"unterminated", "missing_markers"} /\ finish = "length" THEN "budget" ELSE cause

\* Mutant: a guard that delimits by itself and leaves fences alone.
ValidatesUnfenced(t) ==
  LET opens == At(t, Strict \cap Open)  closes == At(t, Strict \cap Close) IN
    /\ Cardinality(opens) = 1 /\ Cardinality(closes) = 1
    /\ Only(opens) < Only(closes)
    /\ Decode(Trim(SubSeq(t, Only(opens) + 1, Only(closes) - 1))) # "decoded"

\* validate_prompt_for: one strict pair with nothing between it that decodes as a verdict.
ValidatesPrompt(t) ==
  /\ Locate(t, Strict).cause = Found
  /\ Decode(Locate(t, Strict).block) # "decoded"

-----------------------------------------------------------------------------
TextInit == text = <<>>

Write(line) == Len(text) < MaxLines /\ text' = Append(text, line)

TextNext == \E line \in Line : Write(line)
TextSpec == TextInit /\ [][TextNext]_text
-----------------------------------------------------------------------------
(* Properties.                                                              *)

\* "there is no search outside the markers": a text is accepted exactly when it has one
\* open and one close marker, whoever wrote them how, and all that is between them but
\* blank lines and one matching pair of fences is one sound verdict of the mage.
FilledIn(t, i, k) == {j \in i .. k : t[j] # "blank"}
\* The lines `filled` of t are one sound verdict, bare or in a pair of fences of one type.
IsOneVerdict(t, filled) ==
  \E v \in filled :
    /\ t[v] = "verdict"
    /\ \/ filled = {v}
       \/ \E a, b \in filled :
            filled = {a, v, b} /\ a < v /\ v < b /\ t[a] \in Fence /\ t[a] = t[b]
AcceptedIsDelimited ==
  Parse(text) = "accepted" <=>
    \E i, k \in DOMAIN text :
      /\ At(text, Open) = {i} /\ At(text, Close) = {k}
      /\ IsOneVerdict(text, FilledIn(text, i + 1, k - 1))

\* The guard is "a FAITHFUL simulation of the parser": a mage that answers with its own
\* prompt, word for word, never produces a verdict, whatever else the prompt contains (loose markers included).
EchoIsNoVerdict == ValidatesPrompt(text) => Parse(text) # "accepted"

\* "A cut this crate CAUSED is not attributed to the model": wherever the budget cuts an
\* answer that would have been accepted, within a line too, the retry says so and blames no
\* formatting. With one exception, a third shape a cut leaves: behind a marker that the
\* answer quotes at the head of a line after its block, the marker stands alone on the last
\* line, and the model is told that it wrote the marker lines more than once.
CutBehindQuote(n, line) ==
  text[n] \in Quotes /\ line \in Permissive /\ At(text, Close) \cap (1 .. n - 1) # {}
OnlyCutQuoteIsBlamed ==
  Parse(text) = "accepted" =>
    \A n \in DOMAIN text : \A line \in Beginnings(text[n]) :
      LET cause == Parse(Cut(text, n, line)) IN
        IF CutBehindQuote(n, line) THEN Template(cause, "length") = "ambiguous"
        ELSE cause = "accepted" \/ Template(cause, "length") = "budget"

===============================================================================
