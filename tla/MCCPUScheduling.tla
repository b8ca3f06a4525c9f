--------------------------- MODULE MCCPUScheduling ---------------------------
(* The process table of main, and all small ones.                          *)
EXTENDS CPUScheduling

\* Lines 284-289.
MainTable == <<Process(0, 7, 2), Process(2, 4, 1), Process(4, 1, 4), Process(5, 4, 3)>>

\* Three processes that come together, one after the other or late, with
\* nothing to do, less than a quantum, or more than one.
SmallTables ==
  {<<Process(a, b, 2), Process(c, d, 1), Process(e, f, 2)>> :
     a, c, e \in {0, 1, 4}, b, d, f \in {0, 1, 3}}

MCTables == {MainTable} \union SmallTables
=============================================================================
