------------------------------ MODULE MCPaging ------------------------------
(* Model-checking instance of Paging.                                       *)
EXTENDS Paging

\* Negative, small and too large limits, and a count at INT_MAX.
Counts == {-1, 0, 1, 2, 3, MaxInt}
\* Before, at and beyond the start, and so far out that adding a size overflows.
Offsets == {-1, 0, 1, 2, 5}
=============================================================================
