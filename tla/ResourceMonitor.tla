--------------------------- MODULE ResourceMonitor ---------------------------
(***************************************************************************)
(* Monitor and ResourceAllocator of Lab5/synchronization_tools.cpp.        *)
(* execute holds monitor_mutex while it calls the function it is given,    *)
(* and this function calls wait_x or signal_x, which lock the same mutex   *)
(* first.  That call does not return, so that nothing that follows it in   *)
(* wait_x, signal_x, acquire and release is ever executed.                 *)
(***************************************************************************)
EXTENDS Naturals

CONSTANT Users          \* the processes of demonstrate_monitor

Unowned == "unowned"
ASSUME UsersAssumption == Unowned \notin Users

VARIABLES monitor_mutex, \* its owner
          busy,
          stage          \* what a process does, "relocking" in wait_x or signal_x

monitorVars == <<monitor_mutex, busy, stage>>

MonitorInit ==
  /\ monitor_mutex = Unowned
  /\ busy = FALSE
  /\ stage = [u \in Users |-> "acquiring"]

\* execute with the function of acquire, when it finds the resource free.
AcquireFree(u) ==
  /\ stage[u] = "acquiring" /\ monitor_mutex = Unowned /\ ~busy
  /\ busy' = TRUE
  /\ stage' = [stage EXCEPT ![u] = "using"]
  /\ UNCHANGED monitor_mutex

\* The same, up to the call of wait_x.
AcquireBusy(u) ==
  /\ stage[u] = "acquiring" /\ monitor_mutex = Unowned /\ busy
  /\ monitor_mutex' = u
  /\ stage' = [stage EXCEPT ![u] = "relocking"]
  /\ UNCHANGED busy

\* execute with the function of release, up to the call of signal_x.
ReleaseResource(u) ==
  /\ stage[u] = "using" /\ monitor_mutex = Unowned
  /\ busy' = FALSE
  /\ monitor_mutex' = u
  /\ stage' = [stage EXCEPT ![u] = "relocking"]

MonitorStep(u) == AcquireFree(u) \/ AcquireBusy(u) \/ ReleaseResource(u)

MonitorNext == \E u \in Users : MonitorStep(u)

-----------------------------------------------------------------------------
\* A process waits for a mutex that it owns, and the others for it.
SelfBlocked == \E u \in Users : stage[u] = "relocking" /\ monitor_mutex = u
=============================================================================
