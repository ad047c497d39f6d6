------------------------------- MODULE MCMagiRun ------------------------------
(* Small instances of MagiRun for TLC: three mages joined in the factory's order. *)
EXTENDS MagiRun, TLC

CONSTANTS mel, bal, cas

MCSeat == {mel, bal, cas}
MCJoinOrder == <<mel, bal, cas>>
E(l, m) == [lineage |-> l, model |-> m]

MCLineage == {"p", "q", "r"}
MCModel   == {"m1", "p1", "q1", "r1"}
MCPrimary == mel :> E("p", "p1") @@ bal :> E("q", "q1") @@ cas :> E("r", "r1")
\* One candidate, on the lineage of one of the primaries: free once its mage is gone.
MCPool    == <<E("q", "m1")>>
MCNoPool  == <<>>
Unprobed  == {[m \in MCModel |-> [digest |-> NoDigest, window |-> "fits"]]}
===============================================================================
