------------------------------ MODULE UserPrompt ------------------------------
(***************************************************************************)
(* What is sent to a model: `build_user_prompt` and `build_retry_prompt`   *)
(* (src/src/user_prompt.rs), the wrapping of the material under review     *)
(* and of the error that a retry reports.                                  *)
(*                                                                         *)
(* A text is a sequence of tokens, known by what the sanitizer can tell of *)
(* them. A reserved word, a nonce and a structural token may come in two   *)
(* parts that an invisible character separates, and that stripping joins.  *)
(* The text grows token by token, so every text up to MaxTokens is met.    *)
(***************************************************************************)
EXTENDS Integers, Sequences, FiniteSets

CONSTANTS
  Tokens,     \* the tokens of this instance, a subset of Alphabet
  MaxTokens,  \* bound on the length of a text
  MaxError    \* MAX_ERROR_CHARS

\* The two parts of a word that can be split, and the word.
Parts == [key |-> <<"ke", "y">>, nonce |-> <<"non", "ce">>, envelope |-> <<"env", "elope">>]

\* MODE and CONTEXT; ---BEGIN and ---END.
Reserved   == {"key", "begin"}
\* The retry envelope in a dash of the list, and the verdict markers.
Structural == {"envelope", "marker"}
Letters    == {"word", "ke", "y", "key"}
\* A line separator that is not \n: U+2028 is one that stripping would remove.
Alphabet   == Letters \cup Structural
              \cup {"begin", "nonce", "non", "ce", "env", "elope", "mark", "nl", "sep", "inv"}

\* Begin with no letter, and hold letters further on.
Mixed == (Structural \cup {"begin", "nonce", "non", "ce", "env", "elope"})

ASSUME UserPromptAssumption ==
  Tokens \subseteq Alphabet /\ MaxTokens \in Nat /\ MaxError \in Nat

VARIABLE content

-----------------------------------------------------------------------------
\* How many of the places P are no later than i.
Rank(P, i) == Cardinality({k \in P : k <= i})

\* What stands at the places P of s, in order.
Keep(s, P) == [j \in 1..Cardinality(P) |-> s[CHOOSE i \in P : Rank(P, i) = j]]

NormalizeNewlines(s) == [i \in DOMAIN s |-> IF s[i] = "sep" THEN "nl" ELSE s[i]]
StripInvisibles(s)   == Keep(s, {i \in DOMAIN s : s[i] \notin {"inv", "sep"}})

\* The word starts at place i of s, whole or in parts that touch.
Reads(s, i, word) ==
  \/ s[i] = word
  \/ /\ word \in DOMAIN Parts /\ i < Len(s)
     /\ s[i] = Parts[word][1] /\ s[i + 1] = Parts[word][2]
Holds(s, word) == \E i \in DOMAIN s : Reads(s, i, word)

\* The place after the word that starts at i.
After(s, i, word) == IF s[i] = word THEN i + 1 ELSE i + 2

\* HEADER_RE: the first letters of the line are a reserved word, and no letter follows.
IsHeader(s, i) ==
  /\ \A j \in 1..(i - 1) : s[j] \in Letters \cup Mixed => \E k \in j..(i - 1) : s[k] = "nl"
  /\ \E word \in Reserved :
       /\ Reads(s, i, word)
       /\ After(s, i, word) \in DOMAIN s => s[After(s, i, word)] \notin Letters

\* Puts two spaces before every place of s that is in P: the token at i moves on by as
\* many places as there are of P up to i.
Moved(P, i) == i + Rank(P, i)
Prefix(s, P) ==
  [j \in 1..(Len(s) + Cardinality(P)) |->
     LET from == {i \in DOMAIN s : Moved(P, i) = j} IN
       IF from = {} THEN "gap" ELSE s[CHOOSE i \in from : TRUE]]

NeutralizeHeaders(s) == Prefix(s, {i \in DOMAIN s : IsHeader(s, i)})

\* Mutant: a character that renders as nothing still shields the word.
SanitizeTooEarly(s) == StripInvisibles(NeutralizeHeaders(NormalizeNewlines(s)))
Sanitize(s) == NeutralizeHeaders(StripInvisibles(NormalizeNewlines(s)))

Collides(s) == Holds(Sanitize(s), "nonce")

Refused == <<"refused">>
\* Fails closed on a collision; the prompt's own words are the reserved ones.
BuildUserPrompt(s) ==
  IF Collides(s) THEN Refused
  ELSE <<"key", "word", "nl", "begin", "nonce", "nl">> \o Sanitize(s)
       \o <<"nl", "begin", "nonce">>

\* The literal replacement of the structural tokens follows the other three layers.
Fenced(s) == Prefix(s, {i \in DOMAIN s : \E word \in Structural : Reads(s, i, word)})
SanitizeError(s) == Fenced(Sanitize(s))

Truncate(s) == IF Len(s) <= MaxError THEN s ELSE SubSeq(s, 1, MaxError) \o <<"truncated">>

Feedback(s) == Truncate(SanitizeError(s))

-----------------------------------------------------------------------------
PromptInit == content = <<>>

Receive(t) == Len(content) < MaxTokens /\ content' = Append(content, t)

PromptNext == \E t \in Tokens : Receive(t)
PromptSpec == PromptInit /\ [][PromptNext]_content

-----------------------------------------------------------------------------
\* The places of the prompt that the material under review fills.
Inside(prompt) == 7..(Len(prompt) - 3)

\* The model reads no header but the prompt's own: whatever stands before a reserved
\* word on its line, the sanitizer's two spaces do too.
NoForeignHeader(prompt) ==
  \A i \in Inside(prompt) : IsHeader(prompt, i) => prompt[i - 1] = "gap"

\* The nonce is read in the two delimiters and nowhere else, in one piece or in two that
\* touch ("fails closed").
DelimitersAreUnique(prompt) ==
  Cardinality({i \in DOMAIN prompt : Reads(prompt, i, "nonce")}) = 2

Visible(s) == Keep(s, {i \in DOMAIN s : s[i] \notin {"gap", "inv"}})

\* The reviewed lines are the lines that are sent: nothing visible and no line break is
\* lost, and nothing is added but the two spaces.
ContentIsKept(prompt) ==
  Visible(SubSeq(prompt, 7, Len(prompt) - 3)) = Visible(NormalizeNewlines(content))

\* The word at i is the last thing before the mark of a cut.
ReachesCut(fed, i) ==
  /\ Len(fed) > MaxError
  /\ \E word \in Reserved \cup Structural :
       Reads(fed, i, word) /\ After(fed, i, word) = MaxError + 1

\* No structural token and no header survives verbatim in the feedback of a retry,
\* except what the cut itself makes of the last word it keeps (a word that only begins
\* like a reserved one); and a pathological answer cannot bloat the retry, since the
\* layers that lengthen the error have run when it is cut (MAX_ERROR_CHARS).
FeedbackIsInert ==
  LET fed == Feedback(content) IN
    /\ \A i \in DOMAIN fed :
         /\ IsHeader(fed, i) \/ \E word \in Structural : Reads(fed, i, word)
         /\ ~ReachesCut(fed, i)
         => i > 1 /\ fed[i - 1] = "gap"
    /\ Len(fed) <= MaxError + 1

\* What is sent stays inside its wrapping, in spite of layers that can undo one another:
\* stripping joins the parts of a reserved word or of the nonce, and would remove a
\* separator that is a line break. `build_user_prompt` frames what it was given and loses
\* none of it, or refuses it; the feedback of a retry is inert.
PromptIsFramed ==
  LET prompt == BuildUserPrompt(content) IN
    /\ prompt # Refused =>
         NoForeignHeader(prompt) /\ DelimitersAreUnique(prompt) /\ ContentIsKept(prompt)
    /\ FeedbackIsInert
===============================================================================
