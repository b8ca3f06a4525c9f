-------------------------- MODULE MCThreadScheduler --------------------------
(* The four simulated threads of main, with the priorities they have there. *)
EXTENDS ThreadScheduler

FourThreads == <<1, 2, 3, 4>>
TheirPriorities == <<3, 1, 5, 1>>
=============================================================================
