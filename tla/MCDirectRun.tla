----------------------------- MODULE MCDirectRun ------------------------------
(* Small instances of a run without rotation and of what is determined of a   *)
(* run's outputs. The one ends before the other begins, so each behaviour     *)
(* runs one of them beside the other at its start.                            *)
EXTENDS DirectRun, Consensus, TLC

CONSTANTS mel, bal, cas, nowhere

MCJoinOrder == <<mel, bal, cas>>

MCTitle  == {"SQL injection", "sql injection", "race"}
MCFolded == [t \in MCTitle |-> IF t = "SQL injection" THEN "sql injection" ELSE t]

MCItem == [agent : {mel, bal, cas}, place : {"db.rs:7", nowhere}, title : MCTitle, severity : 1 .. 3]

Rank == mel :> 1 @@ bal :> 2 @@ cas :> 3
InJoinOrder(f) == \A i, j \in DOMAIN f : i < j => Rank[f[i].agent] <= Rank[f[j].agent]

\* Up to two findings of every kind, up to three of which only unlocated ones are a race.
MCFeeds ==
  {f \in UNION {[1 .. n -> MCItem] : n \in 0 .. 2}
         \cup [1 .. 3 -> {x \in MCItem : x.title # "race" \/ x.place = nowhere}] : InJoinOrder(f)}

Agreeing == [i \in 1 .. 3 |-> [agent |-> <<mel, bal, cas>>[i], verdict |-> "reject", confidence |-> 85]]

\* Any outputs that list no findings, repeats and too few of them included; and three
\* mages of one opinion that list any findings.
MCCalls ==
  ((UNION {[1 .. n -> Output] : n \in 0 .. 3}) \X {<<>>}) \cup ({Agreeing} \X MCFeeds)

NothingToDetermine ==
  outputs = <<>> /\ feed = <<>> /\ FindingsInit /\ result = TooFew

MCInit == Init /\ (NothingToDetermine \/ DetermineInit)
MCNext ==
  \/ result = TooFew /\ Next /\ UNCHANGED determineVars
  \/ DetermineNext /\ UNCHANGED vars
MCSpec == MCInit /\ [][MCNext]_<<vars, determineVars>> /\ Fairness
===============================================================================
