-------------------------- MODULE MCOwnedProcesses --------------------------
(* Two roots that come to the same process id, and a chain of descendants.  *)
EXTENDS OwnedProcesses

CONSTANTS r1, r2, d1, d2

MCRoots == Procs \cap {r1, r2}
MCPid == [p \in Procs |-> IF p = r2 THEN r1 ELSE p]
MCParentOf == [p \in Procs |-> CASE p = d1 -> r1 [] p = d2 -> d1 [] OTHER -> None]
=============================================================================
