----------------------------- MODULE MCPreflight -----------------------------
(* A small instance of Preflight: three probes, two of them for one model.    *)
EXTENDS Preflight

CONSTANTS t1, t2, t3

MCTask == {t1, t2, t3}
MCModelOf == [t \in Task |-> IF t = t3 THEN "n" ELSE "m"]
===============================================================================
