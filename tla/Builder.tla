-------------------------------- MODULE Builder --------------------------------
(***************************************************************************)
(* `MagiBuilder` (src/src/orchestrator.rs): the setters a caller may chain *)
(* in any order, `build`, and what an analysis then reads of the result,   *)
(* its agents (src/src/agent.rs), their prompts (src/src/prompts/mod.rs)   *)
(* and the probes its preflight runs.                                      *)
(*                                                                         *)
(* The calls made so far are kept in a history, so that what a chain of    *)
(* calls built can be compared with what its last words were.              *)
(***************************************************************************)
EXTENDS Integers, Sequences, FiniteSets

CONSTANTS
  Agent,
  Mode,
  Provider,    \* providers a caller may register; each serves one model
  Default,     \* the provider the builder was made with
  Lineage,
  Blank,       \* a lineage that is empty once trimmed
  Prompt,      \* custom prompts
  Contract,    \* those that satisfy the verdict-marker contract
  Embedded,    \* the prompt compiled in
  Directories, \* prompt directories: what reading one yields
  Unreadable,  \* a directory, or a file in it, that cannot be read
  Pools,       \* fallback pools
  MaxCalls     \* bound on the length of a chain

AllModes == "all modes"
NoPool   == <<>>
Files == [Agent \X Mode -> Prompt \cup {Embedded}]  \* Embedded: no such file
Candidate == [provider : Provider, lineage : Lineage \cup {Blank}, probed : BOOLEAN]

ASSUME BuilderAssumption ==
  /\ Default \notin Provider
  /\ Contract \subseteq Prompt
  /\ Embedded \notin Prompt
  /\ Directories \subseteq Files \cup {Unreadable}
  /\ Pools \subseteq Seq(Candidate) \ {NoPool}
  /\ AllModes \notin Mode
  /\ MaxCalls \in Nat

VARIABLES
  history,    \* the calls made
  providers,  \* agent_providers
  lineages,   \* agent_lineages
  probes,     \* primary_probes; a probe is known by the provider it came beside
  overrides,  \* (agent, mode or AllModes) |-> prompt
  pool,       \* fallback_pool
  directory,  \* prompts_dir, or Embedded
  outcome     \* "open", "built", or why build refused

settings    == <<providers, lineages, probes, overrides, pool, directory>>
builderVars == <<history, settings, outcome>>

Put(f, k, v) == [x \in DOMAIN f \cup {k} |-> IF x = k THEN v ELSE f[x]]
Remove(f, k) == [x \in DOMAIN f \ {k} |-> f[x]]

BuilderInit ==
  /\ history = <<>>
  /\ providers = <<>> /\ lineages = <<>> /\ probes = <<>> /\ overrides = <<>>
  /\ pool = NoPool
  /\ directory = Embedded
  /\ outcome = "open"

Called(call) ==
  /\ outcome = "open" /\ Len(history) < MaxCalls
  /\ history' = Append(history, call)
  /\ UNCHANGED outcome

-----------------------------------------------------------------------------
(* The setters.                                                             *)

Some(x) == <<x>>
None    == <<>>

\* Mutant: a registration without a probe leaves the one of the earlier provider.
RegisterKeepsProbe(a, p, lineage, probe) ==
  /\ providers' = Put(providers, a, p)
  /\ lineages' = IF lineage = None THEN lineages ELSE Put(lineages, a, lineage[1])
  /\ probes' = IF probe = None THEN probes ELSE Put(probes, a, probe[1])
  /\ UNCHANGED <<overrides, pool, directory>>

\* register_seat, the one place the three seat maps are written.
RegisterSeat(a, p, lineage, probe) ==
  /\ providers' = Put(providers, a, p)
  /\ lineages' = IF lineage = None THEN lineages ELSE Put(lineages, a, lineage[1])
  /\ probes' = IF probe = None THEN Remove(probes, a) ELSE Put(probes, a, probe[1])
  /\ UNCHANGED <<overrides, pool, directory>>

WithAgent(a, p, l) ==
  /\ Called([op |-> "agent", agent |-> a, provider |-> p, lineage |-> l])
  /\ RegisterSeat(a, p, Some(l), None)

WithAgentAndProbe(a, p, l) ==
  /\ Called([op |-> "probing", agent |-> a, provider |-> p, lineage |-> l])
  /\ RegisterSeat(a, p, Some(l), Some(p))

WithProvider(a, p) ==
  /\ Called([op |-> "provider", agent |-> a, provider |-> p])
  /\ RegisterSeat(a, p, None, None)

WithCustomPromptForMode(a, m, text) ==
  /\ Called([op |-> "prompt", agent |-> a, mode |-> m, prompt |-> text])
  /\ overrides' = Put(overrides, <<a, m>>, text)
  /\ UNCHANGED <<providers, lineages, probes, pool, directory>>

WithCustomPromptAllModes(a, text) ==
  /\ Called([op |-> "prompt", agent |-> a, mode |-> AllModes, prompt |-> text])
  /\ overrides' = Put(overrides, <<a, AllModes>>, text)
  /\ UNCHANGED <<providers, lineages, probes, pool, directory>>

WithPromptsDir(d) ==
  /\ Called([op |-> "directory", directory |-> d])
  /\ directory' = d
  /\ UNCHANGED <<providers, lineages, probes, overrides, pool>>

WithFallbackPool(p) ==
  /\ Called([op |-> "pool", pool |-> p])
  /\ pool' = p
  /\ UNCHANGED <<providers, lineages, probes, overrides, directory>>

-----------------------------------------------------------------------------
(* build.                                                                   *)

BlankLineage ==
  \/ \E a \in DOMAIN lineages : lineages[a] = Blank
  \/ \E i \in DOMAIN pool : pool[i].lineage = Blank

\* The files of the directory that the builder has no prompt of its own for.
Loaded ==
  IF directory = Embedded THEN {}
  ELSE {k \in Agent \X Mode : directory[k] # Embedded}

\* from_directory, then the merge into the overrides with or_insert.
Merged ==
  [k \in DOMAIN overrides \cup Loaded |->
     IF k \in DOMAIN overrides THEN overrides[k] ELSE directory[k]]

\* Mutant: the guard runs before the directory is merged.
GuardBeforeMerge == \A k \in DOMAIN overrides : overrides[k] \in Contract

\* validate_prompt_for over every override; the embedded prompts satisfy it.
GuardPasses == \A k \in DOMAIN Merged : Merged[k] \in Contract

\* The order of the checks in build picks the error.
Verdict ==
  IF BlankLineage THEN "lineage"
  ELSE IF directory = Unreadable THEN "io"
  ELSE IF ~GuardPasses THEN "prompt"
  ELSE "built"

Build ==
  /\ outcome = "open"
  /\ outcome' = Verdict
  /\ overrides' = IF Verdict = "built" THEN Merged ELSE overrides
  /\ UNCHANGED <<history, providers, lineages, probes, pool, directory>>

-----------------------------------------------------------------------------
(* What an analysis reads of the Magi that was built.                       *)

\* create_agents_with_prompts: the provider of a seat, or the default.
Serves(a) == IF a \in DOMAIN providers THEN providers[a] ELSE Default

\* lookup_prompt.
LookupPrompt(a, m) ==
  IF <<a, m>> \in DOMAIN overrides THEN overrides[<<a, m>>]
  ELSE IF <<a, AllModes>> \in DOMAIN overrides THEN overrides[<<a, AllModes>>]
  ELSE Embedded

\* collect_probe_targets: the model a probe is filed under, and the provider it is of.
ProbeTargets ==
  {<<Serves(a), probes[a]>> : a \in DOMAIN probes}
    \cup {<<pool[i].provider, pool[i].provider>> : i \in {j \in DOMAIN pool : pool[j].probed}}

-----------------------------------------------------------------------------
BuilderNext ==
  \/ \E a \in Agent, p \in Provider, l \in Lineage \cup {Blank} :
       WithAgent(a, p, l) \/ WithAgentAndProbe(a, p, l)
  \/ \E a \in Agent, p \in Provider : WithProvider(a, p)
  \/ \E a \in Agent, text \in Prompt :
       \/ WithCustomPromptAllModes(a, text)
       \/ \E m \in Mode : WithCustomPromptForMode(a, m, text)
  \/ \E d \in Directories : WithPromptsDir(d)
  \/ \E p \in Pools : WithFallbackPool(p)
  \/ Build

BuilderSpec == BuilderInit /\ [][BuilderNext]_builderVars
-----------------------------------------------------------------------------
(* Properties.                                                              *)

\* register_seat: "a registration that declares no probe must not inherit the previous
\* one". In whatever order the setters were called, every probe of the preflight is filed
\* under the model it measures.
ProbesMeasureTheirModel == \A target \in ProbeTargets : target[1] = target[2]

\* The prompt contract covers "every RESOLVABLE prompt", files included: no agent of a
\* Magi that was built runs, in any mode, on a prompt that breaks it.
RunsOnlyGuardedPrompts ==
  outcome = "built" =>
    \A a \in Agent, m \in Mode : LookupPrompt(a, m) \in Contract \cup {Embedded}
===============================================================================
