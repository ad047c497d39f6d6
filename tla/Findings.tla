------------------------------- MODULE Findings -------------------------------
(***************************************************************************)
(* `ConsensusEngine::deduplicate_findings` (src/src/consensus.rs): the     *)
(* findings of all mages, taken in the order of its two nested loops, are  *)
(* folded one by one into groups that share a key, and the groups are      *)
(* sorted by severity at the end. A title or a detail is represented by    *)
(* the finding it was cloned from.                                         *)
(***************************************************************************)
EXTENDS Integers, Sequences, FiniteSets

CONSTANTS
  Agent,    \* AgentName
  Place,    \* what identifies a location: normalized path, line, category
  Nowhere,  \* no file, an empty file or no positive line
  Title,
  Folded    \* what dedup_key makes of a title

\* The order of Severity.
Info     == 1
Warning  == 2
Critical == 3
Severity == {Info, Warning, Critical}

\* A finding as the inner loop meets it, with the agent of the outer one.
Item == [agent : Agent, place : Place \cup {Nowhere}, title : Title, severity : Severity]

ASSUME FindingsAssumption ==
  /\ Nowhere \notin Place
  /\ DOMAIN Folded = Title

VARIABLES
  feed,    \* the findings of the agents' outputs
  read,    \* how many of them were folded
  groups,  \* groups, in insertion order
  sorted,  \* whether the result exists
  report   \* the sorted result

findingVars == <<feed, read, groups, sorted, report>>

\* Mutant: every finding is keyed by its title.
TitleKey(f) == <<"title", Folded[f.title]>>

\* finding_key: located findings by their id, whatever their title, the others by title.
FindingKey(f) == IF f.place # Nowhere THEN <<"id", f.place>> ELSE <<"title", Folded[f.title]>>

FindingsInit ==
  /\ feed \in Seq(Item)
  /\ read = 0
  /\ groups = <<>>
  /\ sorted = FALSE
  /\ report = <<>>

Current == feed[read + 1]

\* A key not seen before opens a group.
OpenGroup ==
  /\ read < Len(feed)
  /\ \A g \in DOMAIN groups : groups[g].key # FindingKey(Current)
  /\ groups' = Append(groups, [key |-> FindingKey(Current), severity |-> Current.severity,
                               title |-> read + 1, detail |-> read + 1,
                               sources |-> <<Current.agent>>])
  /\ read' = read + 1
  /\ UNCHANGED <<feed, sorted, report>>

\* A higher severity is promoted and brings its detail.
Promote(state) ==
  IF Current.severity > state.severity
  THEN [state EXCEPT !.severity = Current.severity, !.detail = read + 1]
  ELSE state

\* Mutant: one entry per contributing finding.
CreditAll(state) == [state EXCEPT !.sources = Append(@, Current.agent)]

\* `sources` names an agent once, where it first appeared.
Credit(state) ==
  IF \E i \in DOMAIN state.sources : state.sources[i] = Current.agent
  THEN state
  ELSE [state EXCEPT !.sources = Append(@, Current.agent)]

JoinGroup(g) ==
  /\ read < Len(feed)
  /\ groups[g].key = FindingKey(Current)
  /\ groups' = [groups EXCEPT ![g] = Credit(Promote(@))]
  /\ read' = read + 1
  /\ UNCHANGED <<feed, sorted, report>>

\* Where the stable sort by descending severity leaves the i-th group.
Position(s, i) ==
  Cardinality({j \in DOMAIN s : \/ s[j].severity > s[i].severity
                               \/ (s[j].severity = s[i].severity /\ j <= i)})

Sorted(s) == [p \in DOMAIN s |-> s[CHOOSE i \in DOMAIN s : Position(s, i) = p]]

Sort ==
  /\ read = Len(feed)
  /\ ~sorted
  /\ sorted' = TRUE
  /\ report' = Sorted(groups)
  /\ UNCHANGED <<feed, read, groups>>

FindingsNext == OpenGroup \/ (\E g \in DOMAIN groups : JoinGroup(g)) \/ Sort

FindingsSpec == FindingsInit /\ [][FindingsNext]_findingVars

-----------------------------------------------------------------------------
(* Properties. They do not use FindingKey: two findings are the same issue *)
(* when both are located at one place, or neither is located and their     *)
(* titles fold to the same.                                                *)

SameIssue(f, h) ==
  IF f.place = Nowhere THEN h.place = Nowhere /\ Folded[f.title] = Folded[h.title]
                       ELSE h.place = f.place

GroupState ==
  [key : {<<"id", p>> : p \in Place} \cup {<<"title", Folded[t]>> : t \in Title},
   severity : Severity, title : 1 .. read, detail : 1 .. read, sources : Seq(Agent)]

\* The fold keeps its types; titles and details were read before.
FindingsTypeOK ==
  /\ feed \in Seq(Item)
  /\ read \in 0 .. Len(feed)
  /\ groups \in Seq(GroupState)
  /\ sorted => read = Len(feed)

\* No issue is lost, split or diluted: whatever an agent reported is in exactly one group,
\* which names the agent and is at least as severe, so merging never downgrades a finding.
NothingIsLost ==
  \A k \in 1 .. read :
    \E g \in DOMAIN groups :
      /\ SameIssue(feed[k], feed[groups[g].title])
      /\ groups[g].severity >= feed[k].severity
      /\ \E i \in DOMAIN groups[g].sources : groups[g].sources[i] = feed[k].agent
      /\ \A h \in DOMAIN groups : SameIssue(feed[k], feed[groups[h].title]) => h = g

\* And nothing is invented: a group is no more severe than the finding its detail comes
\* from, which is one of its own; it is the first of that severity, and the title is from
\* the first of all.
NothingIsInvented ==
  \A g \in DOMAIN groups :
    LET s == groups[g] IN
      /\ s.severity = feed[s.detail].severity
      /\ SameIssue(feed[s.title], feed[s.detail])
      /\ \A k \in 1 .. read :
           SameIssue(feed[s.title], feed[k]) =>
             s.title <= k /\ (k < s.detail => feed[k].severity < s.severity)

\* `sources` is "a set in first-appearance order": no agent twice, none that did not
\* report the issue, and the order that of their first findings of the group.
SourcesAreHonest ==
  \A g \in DOMAIN groups :
    LET s == groups[g].sources
        FirstOf(i) == CHOOSE k \in 1 .. read :
                        /\ feed[k].agent = s[i] /\ SameIssue(feed[groups[g].title], feed[k])
                        /\ \A j \in 1 .. k - 1 : feed[j].agent = s[i] =>
                             ~SameIssue(feed[groups[g].title], feed[j])
    IN  /\ \A i \in DOMAIN s : \E k \in 1 .. read :
             feed[k].agent = s[i] /\ SameIssue(feed[groups[g].title], feed[k])
        /\ \A i, j \in DOMAIN s : i < j => s[i] # s[j] /\ FirstOf(i) < FirstOf(j)

\* The ordering contract: the report holds the groups, by descending severity, and those
\* of one severity in the order they were first seen.
ReportIsOrdered ==
  sorted =>
    /\ Len(report) = Len(groups)
    /\ \A g \in DOMAIN groups : \E i \in DOMAIN report : report[i] = groups[g]
    /\ \A i, j \in DOMAIN report : i < j =>
         \/ report[i].severity > report[j].severity
         \/ report[i].severity = report[j].severity /\ report[i].title < report[j].title

\* Readers of a report rely on both: who is named, in which order, for which finding.
ReportIsHonest == SourcesAreHonest /\ ReportIsOrdered
===============================================================================
