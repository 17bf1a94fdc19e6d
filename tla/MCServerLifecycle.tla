-------------------------- MODULE MCServerLifecycle --------------------------
(* Model-checking instances of ServerLifecycle.                             *)
EXTENDS ServerLifecycle, TLC

\* Connections of one kind are interchangeable; used for safety runs only.
Symm == Permutations(Tool) \cup Permutations(Stream)
=============================================================================
