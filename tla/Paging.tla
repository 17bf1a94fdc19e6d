-------------------------------- MODULE Paging --------------------------------
(***************************************************************************)
(* How a client reads a long result page by page: find, find_bytes,        *)
(* find_regex, disasm and basic_blocks (cursor.next), list_funcs,          *)
(* list_globals and imports (next_offset).  Every page is a call of its    *)
(* own that starts the search again and skips what came before.  xrefs_to, *)
(* callees and export_funcs have no cursor: they answer once, up to a      *)
(* limit, and may say that there is more.                                  *)
(*                                                                         *)
(* The tools differ in how they correct the arguments, in what they count  *)
(* and in how they compute the next offset:                                *)
(*   "search"    find string, data_ref and code_ref, find_bytes, find_regex*)
(*   "immediate" find immediate: an instruction is reported once, though   *)
(*               both its 4-byte and its 8-byte form may hit it            *)
(*   "disasm"    instructions of a function, with or without the total     *)
(*   "blocks"    basic_blocks, a slice of a known number of blocks         *)
(*   "list"      utils::paginate                                           *)
(*   "xrefs"     xrefs_to, which stops at its limit                        *)
(*   "callees"   callees, each target once; it looks on beyond its limit   *)
(*   "export"    the instructions of a function in export_funcs            *)
(* Offsets and limits are C++ ints, MaxInt the largest.                    *)
(***************************************************************************)
EXTENDS Integers, FiniteSets, Sequences, SequencesExt

CONSTANTS
    Tool,      \* tools under study
    Match,     \* what a search can report
    Other,     \* a hit that is not reported: no instruction there, no code
               \* reference, no match, an address before the one asked for
    MaxHits,   \* bound: hits of a search
    Offset,    \* offsets a client starts at
    Count,     \* limits a client asks for
    LimitCap,  \* 10000; 500 in find_regex and callees, 1000 in xrefs_to,
               \* 50000 in disasm, 5000 in export_funcs
    MaxInt     \* INT_MAX

\* The tools without a cursor.
OnePage == {"xrefs", "callees", "export"}

ASSUME PagingAssumption ==
    /\ Tool \subseteq {"search", "immediate", "disasm", "blocks", "list"} \cup OnePage
    /\ Other \notin Match
    /\ MaxInt \in Nat /\ MaxHits \in 0 .. MaxInt /\ LimitCap \in 1 .. MaxInt
    /\ Offset \cup Count \subseteq (-MaxInt - 1) .. MaxInt

\* Signed overflow, as the machine's addition does it.
Int32(n) == ((n + MaxInt + 1) % (2 * (MaxInt + 1))) - MaxInt - 1

Hits(t) ==
    LET hit == IF t \in {"blocks", "list", "xrefs", "export"} THEN Match ELSE Match \cup {Other}
    IN  UNION {[1 .. n -> hit] : n \in 0 .. MaxHits}

VARIABLES
    tool,
    hits,     \* what the search meets, in order; blocks; the filtered list
    asked,    \* the limit the client asks for
    total_on, \* include_total
    start,    \* the offset of the first page
    offset,   \* the offset of this page
    limit,    \* the limit in force
    phase,    \* "ask", "scan", "reply", "finished" or "undefined"
    pos,      \* next hit
    seen,     \* skipped, or seen in disasm
    found,    \* found_eas
    page,     \* matches
    more,
    total,    \* total_count
    next,     \* the cursor of the last reply: an offset, or Done
    pages     \* what the client has read

Done == [done |-> TRUE]
CursorTo(n) == [done |-> FALSE, next |-> n]

input == <<tool, hits, asked, total_on, start>>
loop == <<pos, seen, found, page, more, total>>
vars == <<tool, hits, asked, total_on, start, offset, limit, phase,
          pos, seen, found, page, more, total, next, pages>>

TypeOK ==
    /\ tool \in Tool /\ hits \in Hits(tool)
    /\ asked \in Count /\ total_on \in BOOLEAN /\ start \in Offset
    /\ {offset, limit} \subseteq (-MaxInt - 1) .. MaxInt
    /\ phase \in {"ask", "scan", "reply", "finished", "undefined"}
    /\ pos \in 1 .. Len(hits) + 1
    /\ seen \in 0 .. Len(hits) /\ total \in 0 .. Len(hits)
    /\ found \subseteq Match
    /\ page \in Seq(Match) /\ pages \in Seq(Match)
    /\ more \in BOOLEAN
    /\ next.done \/ next.next \in (-MaxInt - 1) .. MaxInt

Init ==
    /\ tool \in Tool
    /\ hits \in Hits(tool)
    /\ asked \in Count
    /\ total_on \in BOOLEAN /\ (total_on => tool = "disasm")
    /\ start \in Offset /\ (tool \in OnePage => start = 0)
    /\ offset = start
    /\ limit = 0
    /\ phase = "ask"
    /\ pos = 1 /\ seen = 0 /\ found = {} /\ page = <<>> /\ more = FALSE /\ total = 0
    /\ next = Done
    /\ pages = <<>>

-----------------------------------------------------------------------------
\* Mutant: a limit of 0 is taken as it is.
InForce_Zero(n) ==
    IF tool = "list" THEN IF n = 0 THEN Len(hits) ELSE n
    ELSE IF n < 0 \/ n > LimitCap THEN LimitCap ELSE n

\* The limit in force: paginate takes 0 for all and nothing else amiss, the
\* others replace what is out of range by the cap; export_funcs is not asked.
InForce(n) ==
    IF tool = "list" THEN IF n = 0 THEN Len(hits) ELSE n
    ELSE IF n <= 0 \/ n > LimitCap \/ tool = "export" THEN LimitCap ELSE n

\* disasm alone corrects a negative offset.
Corrected(o) == IF tool = "disasm" /\ o < 0 THEN 0 ELSE o

\* The client's call reaches the tool.
Ask ==
    /\ phase = "ask"
    /\ limit' = InForce(asked)
    /\ offset' = Corrected(offset)
    /\ phase' = "scan"
    /\ pos' = 1 /\ seen' = 0 /\ found' = {} /\ page' = <<>> /\ more' = FALSE /\ total' = 0
    /\ UNCHANGED <<input, next, pages>>

-----------------------------------------------------------------------------
Looping == phase = "scan" /\ tool \notin {"blocks", "list"}
Once == tool \in {"immediate", "callees"}
AtHit == Looping /\ pos <= Len(hits)
Hit == hits[pos]
Ignored == Hit = Other \/ (Once /\ Hit \in found)

Advance == pos' = pos + 1
Remember == found' = IF Once THEN found \cup {Hit} ELSE found

\* Mutant: the matches of the page are added again and again.
CountTotal_Twice == total' = IF total_on THEN total + 1 + Len(page) ELSE total

CountTotal == total' = IF total_on THEN total + 1 ELSE total

Ignore ==
    /\ AtHit
    /\ Ignored
    /\ Advance
    /\ UNCHANGED <<input, offset, limit, phase, seen, found, page, more, total, next, pages>>

\* Mutant: a skipped instruction is not remembered.
Skip_Forgets ==
    /\ AtHit
    /\ ~Ignored
    /\ seen < offset
    /\ seen' = seen + 1
    /\ Advance /\ CountTotal
    /\ UNCHANGED <<input, offset, limit, phase, found, page, more, next, pages>>

\* A match of an earlier page.
Skip ==
    /\ AtHit
    /\ ~Ignored
    /\ seen < offset
    /\ seen' = seen + 1
    /\ Advance /\ Remember /\ CountTotal
    /\ UNCHANGED <<input, offset, limit, phase, page, more, next, pages>>

\* Mutant: one match more than the limit.
Take_OneMore ==
    /\ AtHit
    /\ ~Ignored
    /\ seen >= offset
    /\ Len(page) <= limit
    /\ page' = Append(page, Hit)
    /\ seen' = IF tool = "disasm" THEN seen + 1 ELSE seen
    /\ Advance /\ Remember /\ CountTotal
    /\ UNCHANGED <<input, offset, limit, phase, more, next, pages>>

\* A match of this page; disasm goes on counting in seen.
Take ==
    /\ AtHit
    /\ ~Ignored
    /\ seen >= offset
    /\ Len(page) < limit
    /\ page' = Append(page, Hit)
    /\ seen' = IF tool = "disasm" THEN seen + 1 ELSE seen
    /\ Advance /\ Remember /\ CountTotal
    /\ UNCHANGED <<input, offset, limit, phase, more, next, pages>>

\* Mutant: the search ends with the page although the total was asked for.
Overflow_Always ==
    /\ AtHit
    /\ ~Ignored
    /\ seen >= offset
    /\ Len(page) >= limit
    /\ more' = TRUE
    /\ seen' = IF tool = "disasm" THEN seen + 1 ELSE seen
    /\ Remember /\ CountTotal
    /\ phase' = "reply"
    /\ UNCHANGED <<input, offset, limit, pos, page, next, pages>>

\* The first match of the next page ends the search, unless disasm has been
\* asked to count on, or callees goes on for no use.  Only export_funcs does not
\* say that it has been cut.
Overflow ==
    /\ AtHit
    /\ ~Ignored
    /\ seen >= offset
    /\ Len(page) >= limit
    /\ more' = (tool # "export")
    /\ seen' = IF tool = "disasm" THEN seen + 1 ELSE seen
    /\ Remember /\ CountTotal
    /\ IF total_on \/ tool = "callees"
       THEN Advance /\ UNCHANGED phase
       ELSE phase' = "reply" /\ UNCHANGED pos
    /\ UNCHANGED <<input, offset, limit, page, next, pages>>

EndOfHits ==
    /\ Looping
    /\ pos > Len(hits)
    /\ more' = (more \/ (total_on /\ total > Int32(offset + limit)))
    /\ phase' = "reply"
    /\ UNCHANGED <<input, offset, limit, pos, seen, found, page, total, next, pages>>

\* basic_blocks and paginate: the indices from offset up to the end of the
\* page, counted from 0.  A negative index is undefined behaviour.
EndIndex == LET e == Int32(offset + limit) IN IF e < Len(hits) THEN e ELSE Len(hits)

Slice ==
    /\ phase = "scan"
    /\ tool \in {"blocks", "list"}
    /\ IF offset < 0 /\ offset < EndIndex
       THEN phase' = "undefined" /\ UNCHANGED <<page, more>>
       ELSE /\ page' = SubSeq(hits, offset + 1, EndIndex)
            /\ more' = (Int32(offset + limit) < Len(hits))
            /\ phase' = "reply"
    /\ UNCHANGED <<input, offset, limit, pos, seen, found, total, next, pages>>

\* The offset the answer gives for the next page.
Cursor == IF more /\ tool \notin OnePage THEN CursorTo(Int32(offset + limit)) ELSE Done

Reply ==
    /\ phase = "reply"
    /\ next' = Cursor
    /\ pages' = pages \o page
    /\ IF Cursor.done THEN phase' = "finished" /\ UNCHANGED offset
                      ELSE phase' = "ask" /\ offset' = Cursor.next
    /\ UNCHANGED <<input, limit, loop>>

Serve == Ask \/ Ignore \/ Skip \/ Take \/ Overflow \/ EndOfHits \/ Slice \/ Reply

Over == phase \in {"finished", "undefined"} /\ UNCHANGED vars

Next == Serve \/ Over

\* The client follows the cursor to the end.
Spec == Init /\ [][Next]_vars /\ WF_vars(Serve)

-----------------------------------------------------------------------------
\* What there is to read.
Reportable == {i \in DOMAIN hits :
                  /\ hits[i] # Other
                  /\ Once => \A j \in 1 .. i - 1 : hits[j] # hits[i]}
Expected == [k \in 1 .. Cardinality(Reportable) |->
                hits[CHOOSE i \in Reportable : Cardinality({j \in Reportable : j <= i}) = k]]

\* Arguments the tools can be asked for without stepping outside the result:
\* no negative offset where it is not corrected, no negative count where it is
\* not replaced, no sum beyond INT_MAX on the first page (paginate adds the
\* whole size when it is asked for 0), nor on a later one, whose offset and
\* limit are below the number of hits.
First == IF start < 0 THEN 0 ELSE start

Sane ==
    /\ start >= 0 \/ tool = "disasm"
    /\ tool = "list" => asked >= 0
    /\ First + InForce(asked) <= MaxInt
    /\ 2 * (Len(hits) - 1) <= MaxInt

\* A client that follows the cursor from any sane offset reads every match from
\* there on, each exactly once and in order, whatever the page size; no page
\* brings nothing unless it is the last; and when the reading ends the client
\* has been told whether it has everything.
Told == IF phase # "finished" THEN "open" ELSE IF more THEN "cut" ELSE "whole"

Session == INSTANCE Reading WITH
    result <- SubSeq(Expected, First + 1, Len(Expected)),
    got <- IF Sane THEN pages ELSE <<>>,
    told <- IF Sane THEN Told ELSE "open"

ImplementsReading == Session!Spec

\* No page is longer than the limit in force, and a page that says there is
\* more is full and has a next page that is not empty.
PagesAreFull ==
    phase = "reply" /\ Sane =>
        /\ Len(page) <= limit
        /\ more => Len(page) = limit /\ Len(pages) + limit < Len(Expected) - First

\* total_instructions counts the whole function, however small the page is.
TotalIsWhole == phase = "reply" /\ total_on => total = Len(Expected)

\* Following the cursor comes to an end.
ReadingEnds == Sane ~> phase = "finished"
=============================================================================
