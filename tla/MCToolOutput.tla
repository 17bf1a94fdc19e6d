----------------------------- MODULE MCToolOutput -----------------------------
(* Model-checking instances of ToolOutput.                                  *)
EXTENDS ToolOutput, TLC

\* Workers are interchangeable.
Symm == Permutations(Worker)
=============================================================================
