------------------------------- MODULE MCMemory -------------------------------
(***************************************************************************)
(* Memory on the strings of MCPaging.  Which string it is matters to the   *)
(* paging simulators alone; when another program runs, it is that of the   *)
(* programs.                                                               *)
(***************************************************************************)
EXTENDS MCPaging, Memory

MCMemoryInit == MemoryInit /\ (manager # "paging" => reference = Given)

MCMemorySpec == MCMemoryInit /\ [][MemoryNext]_memoryVars
=============================================================================
