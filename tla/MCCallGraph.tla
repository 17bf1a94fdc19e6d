----------------------------- MODULE MCCallGraph -----------------------------
(* Model-checking instance of CallGraph.                                     *)
EXTENDS CallGraph

\* The root calls two functions, the others one each: enough for two paths of
\* different length to one node, and for recursion.
Bounds == [f \in Func |-> IF f \in Root THEN 2 ELSE 1]

\* One request for each limit that can end the walk, one that asks for the
\* defaults (0 is replaced), and one that no graph of this size reaches.
Requests ==
    {[depth |-> 4, nodes |-> 9, edges |-> 9, perFunc |-> 9],
     [depth |-> 0, nodes |-> 0, edges |-> 0, perFunc |-> -1],
     [depth |-> 2, nodes |-> 2, edges |-> 9, perFunc |-> 9],
     [depth |-> 3, nodes |-> 9, edges |-> 2, perFunc |-> 9],
     [depth |-> 3, nodes |-> 9, edges |-> 9, perFunc |-> 1]}
=============================================================================
