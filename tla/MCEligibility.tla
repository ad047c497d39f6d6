---------------------------- MODULE MCEligibility ----------------------------
(* A small instance of Rotation and of the report Eligibility makes of its    *)
(* pool: two mages, four candidates, a strict guard.                          *)
EXTENDS Eligibility, TLC

CONSTANTS mel, bal

MCSeat == {mel, bal}
E(l, m) == [lineage |-> l, model |-> m]

MCLineage == {"a", "b", "p", "q"}
MCModel   == {"m1", "m2", "p1", "q1"}
MCDigest  == {"d1", "d2"}

MCPrimary == mel :> E("p", "p1") @@ bal :> E("q", "q1")
\* One model under two lineages (unchecked), one lineage twice (only warned of), and one
\* mage's primary under another lineage.
MCPool == <<E("a", "m1"), E("b", "m1"), E("b", "p1"), E("a", "m2")>>

\* Preflight results. Probed(d, w): a digest of each model and the window of the last
\* candidate; every other window holds the prompt.
Probed(d, w) ==
  [m \in MCModel |-> [digest |-> d[m], window |-> IF m = "m2" THEN w ELSE "fits"]]
Windows(m1, m2) ==
  [m \in MCModel |-> [digest |-> NoDigest,
                      window |-> IF m = "m1" THEN m1 ELSE IF m = "m2" THEN m2 ELSE "fits"]]
Weights(m1, m2, p1, q1) == "m1" :> m1 @@ "m2" :> m2 @@ "p1" :> p1 @@ "q1" :> q1

\* Nothing resolved; the whole pool on the weights of one primary (degenerate), or of
\* both; one candidate on the weights of both primaries, the other unresolved; a pool nobody
\* measured, and one with a candidate that is too small.
MCCapabilities ==
  {Probed(Weights(NoDigest, NoDigest, NoDigest, NoDigest), "unmeasured"),
   Probed(Weights("d1", "d1", "d1", NoDigest), "fits"),
   Probed(Weights("d1", "d2", "d2", "d1"), "fits"),
   Probed(Weights(NoDigest, "d1", "d1", "d1"), "small"),
   Windows("unmeasured", "unmeasured"), Windows("small", "fits")}
===============================================================================
