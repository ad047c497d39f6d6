-------------------------------- MODULE MCMagi --------------------------------
(* A small instance of a Magi's life, Builder and then Analyze: two seats, two *)
(* modes, a sound and a stale prompt, three directories and two pools; two     *)
(* concurrent calls, on words of which the limits can be told apart.           *)
(*                                                                             *)
(* The calls of an analysis read none of the builder's settings, so they are   *)
(* explored for a Magi that was built without any.                             *)
EXTENDS Builder, Analyze, TLC

CONSTANTS mel, bal, p1, p2

MCAgent == {mel, bal}
MCMode  == {"design", "review"}

NoFiles == [k \in MCAgent \X MCMode |-> Embedded]
MCDirectories ==
  {[NoFiles EXCEPT ![<<mel, "design">>] = "sound", ![<<bal, "review">>] = "other"],
   [NoFiles EXCEPT ![<<mel, "review">>] = "stale"],
   Unreadable}
MCPools ==
  {<<[provider |-> p1, lineage |-> "a", probed |-> TRUE],
     [provider |-> p2, lineage |-> "b", probed |-> FALSE]>>,
   <<[provider |-> p2, lineage |-> Blank, probed |-> TRUE]>>}

\* The configurations that are run; the threshold is within reach in one of them.
IsRun == inputWarnTokens = 1 /\ maxInputLen \in {7, 8}

allVars      == <<builderVars, vars>>
BuiltPlainly == outcome = "built" /\ history = <<>> /\ IsRun

MCInit == BuilderInit /\ Init
MCNext ==
  \/ IsRun /\ (Build \/ (maxInputLen = 8 /\ BuilderNext)) /\ UNCHANGED vars
  \/ BuiltPlainly /\ Next /\ UNCHANGED builderVars

\* Analyze's fairness: the runtime polls a task that is ready.
MCSpec ==
  /\ MCInit /\ [][MCNext]_allVars
  /\ \A c \in Calls : WF_allVars(BuiltPlainly /\ Step(c) /\ UNCHANGED builderVars)
===============================================================================
