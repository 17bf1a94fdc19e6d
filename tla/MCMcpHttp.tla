------------------------------ MODULE MCMcpHttp ------------------------------
(* Model-checking instances of McpHttp.                                     *)
EXTENDS McpHttp, TLC

\* Workers, sessions and ids are interchangeable.
Symm == Permutations(Worker) \cup Permutations(RequestId)
=============================================================================
