------------------------------ MODULE MCDeadlock ------------------------------
(***************************************************************************)
(* The two programs of Lab7 that reason about deadlock, the banker that    *)
(* avoids it and the detector.  They do not call each other: the initial   *)
(* state picks one, and the other stays as it is.                          *)
(***************************************************************************)
EXTENDS MCBanker, DeadlockDetector

VARIABLE program      \* the program that runs

deadlockVars == <<program, bankerVars, vars>>

AnyScenario == CHOOSE s \in Scenarios : TRUE

DeadlockInit ==
  /\ program \in {"deadlock-avoidance", "deadlock-detection"}
  /\ BankerInit /\ (program # "deadlock-avoidance" => scenario = AnyScenario)
  /\ Init

DeadlockNext ==
  \/ program = "deadlock-avoidance" /\ BankerNext /\ UNCHANGED <<program, vars>>
  \/ program = "deadlock-detection" /\ Next /\ UNCHANGED <<program, bankerVars>>

DeadlockSpec == DeadlockInit /\ [][DeadlockNext]_deadlockVars
=============================================================================
