------------------------------- MODULE Reading -------------------------------
(***************************************************************************)
(* What reading a long result promises a client: page after page brings    *)
(* the next items of the result, in order, none twice and none left out;   *)
(* every page but the last brings some; and the client is told the truth   *)
(* about whether it has them all.                                          *)
(***************************************************************************)
EXTENDS Naturals, Sequences

VARIABLES
    result, \* everything there is to read
    got,    \* what the client has read
    told    \* "open" while there is a next page; then "whole", or "cut" when
            \* the tool has no cursor to ask for the rest with

vars == <<result, got, told>>

Init == got = <<>> /\ told = "open"

\* A page up to item n.
Page(n) ==
    /\ told = "open"
    /\ got' = SubSeq(result, 1, n)
    /\ told' \in (IF n = Len(result) THEN {"whole"} ELSE {"open", "cut"})
    /\ told' # "whole" => n > Len(got)
    /\ UNCHANGED result

Next == \E n \in Len(got) .. Len(result) : Page(n)

Spec == Init /\ [][Next]_vars
=============================================================================
