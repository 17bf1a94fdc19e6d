-------------------------- MODULE MCInstanceRegistry --------------------------
(* Model-checking instances of InstanceRegistry.                            *)
EXTENDS InstanceRegistry, TLC

\* Processes are interchangeable, and so are pids.
Symm == Permutations(Process) \cup Permutations(Pid)
=============================================================================
