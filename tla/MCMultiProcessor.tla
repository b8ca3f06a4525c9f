--------------------------- MODULE MCMultiProcessor ---------------------------
(* Two cores and four tasks, as few as bring about stealing and migration.  *)
EXTENDS MultiProcessor

MCTasks == <<"t1", "t2", "t3", "t4">>

\* The first tasks crowd core 0; the last goes to the global queue, to core 0
\* or to core 1.
MCAffinities ==
  {f \in [Everything -> Cores \union {NoCore}] :
     f["t1"] = 0 /\ f["t2"] = 0 /\ f["t3"] = 0}
=============================================================================
