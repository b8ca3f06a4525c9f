--------------------------- MODULE MCSharedCounter ---------------------------
(* The demonstrations of the labs on small numbers: the balance starts     *)
(* below one withdrawal, so that withdrawals are refused.                  *)
EXTENDS SharedCounter

CONSTANTS first, second \* two threads

BothIncrement == [t \in Threads |-> 1]
OneWithdraws == [t \in Threads |-> IF t = first THEN 5 ELSE -3]

Demonstrations ==
  [discipline : Disciplines, start : {0}, adds : {BothIncrement}]
    \union [discipline : {"mutex"}, start : {2}, adds : {OneWithdraws}]
=============================================================================
