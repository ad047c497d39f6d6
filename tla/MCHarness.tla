------------------------------- MODULE MCHarness -------------------------------
(***************************************************************************)
(* Two seats: the rules are about one model, and its seat has a fallback.  *)
(* A run that injects nothing follows one that cuts or fails.              *)
(***************************************************************************)
EXTENDS Harness

CONSTANTS mel, cas, first, second, fallback, happy, rotation, blip

MCChainOf == (mel :> <<first>>) @@ (cas :> <<second, fallback>>)

MCRuleOf ==
  (happy :> [kind |-> "none"])
    @@ (rotation :> [kind |-> "fail", models |-> {second}])
    @@ (blip :> [kind |-> "drop", models |-> {second}, budget |-> 1])

MCPlans == {<<blip>>, <<rotation, happy>>}
===============================================================================
