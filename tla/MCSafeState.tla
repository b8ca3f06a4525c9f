------------------------------ MODULE MCSafeState -----------------------------
(* The scenario of main for Banker.                                        *)
EXTENDS Banker

\* The five processes and three resources of main.
MainScenario ==
  [available |-> <<3, 3, 2>>,
   maximum |-> [p \in Customers |->
     <<<<7, 5, 3>>, <<3, 2, 2>>, <<9, 0, 2>>, <<2, 2, 2>>, <<4, 3, 3>>>>[p + 1]],
   allocation |-> [p \in Customers |->
     <<<<0, 1, 0>>, <<2, 0, 0>>, <<3, 0, 2>>, <<2, 1, 1>>, <<0, 0, 2>>>>[p + 1]]]
MainScenarios == {MainScenario}
MainRequests == {<<1, 0, 2>>, <<3, 3, 0>>, <<0, 2, 0>>}
=============================================================================
