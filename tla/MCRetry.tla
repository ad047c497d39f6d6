-------------------------------- MODULE MCRetry -------------------------------
(* Instances of Retry for TLC.                                                 *)
EXTENDS Retry

CONSTANT garbage

MCLimited == {"timeout", "network"}
MCHeaders == {<<>>, <<<<0>>>>, <<<<2>>>>, <<<<3, 3>>>>, <<<<3, 1>>>>, <<<<garbage>>, <<1>>>>, <<<<9>>>>}
MCTimes == {0, 1, 3}
MCWaits == 0 .. 2

\* The shipped configuration, in seconds.
MCShippedHeaders == {<<>>, <<<<300>>>>}
MCShippedTimes == {0, 299, 300}
MCShippedWaits == {0, 1}
===============================================================================
