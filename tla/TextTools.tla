------------------------------ MODULE TextTools ------------------------------
(***************************************************************************)
(* The pure helpers that the listing and conversion tools are built from:  *)
(* filters over names (utils.cpp glob_match, pattern_filter), numbers      *)
(* (core.cpp int_convert) and the shortened copy of a large result         *)
(* (mcp.cpp truncate_value).  A text is a sequence of characters; a 64-bit *)
(* integer has Word bytes.                                                 *)
(***************************************************************************)
EXTENDS Numbers, FiniteSets, SequencesExt, Functions

CONSTANTS
    LowerOf,    \* LowerOf[c]: tolower of an upper-case letter
    HexValue,   \* HexValue[c]: what a hexadecimal digit stands for
    Word,       \* bytes of an integer, 8 in the code
    MaxDepth,   \* nesting that truncate_value follows, 5 in the code
    StrLen,     \* OUTPUT_LIMIT_PREVIEW_STR_LEN
    Items,      \* OUTPUT_LIMIT_PREVIEW_ITEMS
    Value       \* JSON values that results are made of

ASSUME TextToolsAssumption ==
    /\ {Word, MaxDepth, StrLen, Items} \subseteq Nat \ {0}
    /\ \A c \in DOMAIN LowerOf : c # "*" /\ LowerOf[c] # "*"

\* A value is a number [t |-> "num"], a string [t |-> "str", len], an array [t |->
\* "arr", items] or an object [t |-> "obj", members], a function from keys.
ASSUME ValueAssumption ==
    \A v \in Value :
        \/ v.t = "num"
        \/ v.t = "str" /\ v.len \in Nat
        \/ v.t = "arr" /\ v.items \in Seq(Value)
        \/ v.t = "obj" /\ v.members \in [DOMAIN v.members -> Value]

-----------------------------------------------------------------------------
(* Filters                                                                  *)

to_lower(text) == [i \in DOMAIN text |-> IF text[i] \in DOMAIN LowerOf
                                         THEN LowerOf[text[i]] ELSE text[i]]

HasPart(text, part) == \E i \in 0 .. Len(text) - Len(part) :
                            SubSeq(text, i + 1, i + Len(part)) = part

\* A round of glob_match's loop: the pattern is matched before p and the text
\* before t; "star" is where the last star is (0: none), "from" where the text it
\* stands for is taken to end.
GlobStart == [p |-> 1, t |-> 1, star |-> 0, from |-> 0]

\* Mutant: a star takes up one character too many.
Retry_TooFar(s) == s.from + 2

\* Where the text is taken up again after a star has failed to match: one
\* character further than the last time.
Retry(s) == s.from + 1

GlobRound(pattern, text, s) ==
    IF s.t > Len(text) THEN s
    ELSE IF s.p <= Len(pattern) /\ pattern[s.p] \in {"?", text[s.t]}
    THEN [s EXCEPT !.p = s.p + 1, !.t = s.t + 1]
    ELSE IF s.p <= Len(pattern) /\ pattern[s.p] = "*"
    THEN [s EXCEPT !.p = s.p + 1, !.star = s.p, !.from = s.t]
    ELSE IF s.star # 0
    THEN [s EXCEPT !.p = s.star + 1, !.t = Retry(s), !.from = Retry(s)]
    ELSE s

\* More rounds than the loop makes; a state it ends in stays.
Rounds(pattern, text) == (Len(text) + 1) * (Len(text) + 1) + Len(pattern)

glob_match(pattern, text) ==
    LET loop[n \in Nat] == IF n = 0 THEN GlobStart ELSE GlobRound(pattern, text, loop[n - 1])
        end == loop[Rounds(pattern, text)]
    IN  end.t > Len(text) /\ \A i \in end.p .. Len(pattern) : pattern[i] = "*"

\* A pattern between slashes, with what follows the last one as flags.
LastSlash(pattern) ==
    CHOOSE i \in 1 .. Len(pattern) :
        pattern[i] = "/" /\ \A j \in i + 1 .. Len(pattern) : pattern[j] # "/"

InSlashes(pattern) == Len(pattern) >= 2 /\ pattern[1] = "/" /\ LastSlash(pattern) > 1

RegexBody(pattern) == SubSeq(pattern, 2, LastSlash(pattern) - 1)
RegexFlags(pattern) == SubSeq(pattern, LastSlash(pattern) + 1, Len(pattern))

\* std::regex: a body that begins with a repetition is refused, one of letters
\* stands for itself (the bodies under study are of these two kinds).
ValidRegex(body) == body = <<>> \/ Head(body) \notin {"*", "?"}

IgnoresCase(flags) == flags = <<>> \/ \E i \in DOMAIN flags : flags[i] = "i"

regex_search(text, body, icase) ==
    IF icase THEN HasPart(to_lower(text), to_lower(body)) ELSE HasPart(text, body)

\* Whether pattern_filter keeps a text.
Keeps(pattern, text) ==
    IF InSlashes(pattern) /\ ValidRegex(RegexBody(pattern))
    THEN regex_search(text, RegexBody(pattern), IgnoresCase(RegexFlags(pattern)))
    ELSE IF \E i \in DOMAIN pattern : pattern[i] \in {"*", "?"}
    THEN glob_match(to_lower(pattern), to_lower(text))
    ELSE HasPart(to_lower(text), to_lower(pattern))

\* The elements of a sequence at some of its indices, in order.
Selected(seq, kept) ==
    LET sel[n \in Nat] == IF n = 0 THEN <<>>
                          ELSE IF n \in kept THEN Append(sel[n - 1], seq[n]) ELSE sel[n - 1]
    IN  sel[Len(seq)]

pattern_filter(data, pattern) ==
    IF pattern = <<>> THEN data
    ELSE Selected(data, {i \in DOMAIN data : Keeps(pattern, data[i].name)})

-----------------------------------------------------------------------------
(* Numbers                                                                  *)

Lowest == -(Pow[Word] \div 2)
Highest == -Lowest - 1

\* static_cast<int64_t>
Signed(n) == IF n > Highest THEN n - Pow[Word] ELSE n

\* A text with a number is [hex, num, rest]: what stoull or stoll read from its
\* beginning, and whether something follows that neither looks at.  Hexadecimal
\* (octal, binary) is read unsigned, decimal signed.
Readable(text) == text.num \in IF text.hex THEN 0 .. Pow[Word] - 1 ELSE Lowest .. Highest

NumberIn(text) == Signed(text.num)

\* static_cast<uint64_t>(std::abs(value)); the smallest number, whose magnitude
\* does not fit, keeps its bits.
Magnitude(n) == IF n < 0 THEN -n ELSE n

\* The bytes a magnitude takes, at least one.
BytesFor(n) == CHOOSE k \in 1 .. Word : n < Pow[k] /\ (k = 1 \/ n >= Pow[k - 1])

ByteSize(value, size) == IF size = 0 THEN BytesFor(Magnitude(value)) ELSE size

\* Mutant: bytes beyond the word are left zero.
ToBytes_NoExtension(value, size) ==
    [i \in 1 .. size |-> IF i <= Word THEN ByteOf(value, i - 1) ELSE 0]

\* Little-endian, the bytes beyond the word extend the sign.
ToBytes(value, size) ==
    [i \in 1 .. size |-> IF i <= Word THEN ByteOf(value, i - 1)
                         ELSE IF value < 0 THEN Base - 1 ELSE 0]

\* int_convert of one input.  A negative size cannot be allocated; the exception
\* leaves the tool.
IntConvert(text, size) ==
    IF ~Readable(text) THEN [kind |-> "invalid"]
    ELSE LET value == NumberIn(text)
             n == ByteSize(value, size)
         IN  IF n < 0 THEN [kind |-> "thrown"]
             ELSE [kind |-> "number", decimal |-> value, bytes |-> ToBytes(value, n)]

-----------------------------------------------------------------------------
(* The preview of a large result.  It may also hold a string that was cut and  *)
(* the note that counts the items left out.                                    *)

CutString(kept, whole) == [t |-> "cut", kept |-> kept, whole |-> whole]
MoreItems(n) == [t |-> "more", n |-> n]

\* Mutant: the note counts all items.
LeftOut_All(items) == Len(items)

LeftOut(items) == Len(items) - Items

\* A value whose parts are shortened by "shorten".
Shortened(value, shorten) ==
    CASE value.t = "str" /\ value.len > StrLen -> CutString(StrLen, value.len)
      [] value.t = "arr" ->
            LET shown == IF Len(value.items) > Items THEN Items ELSE Len(value.items)
                cut == [i \in 1 .. shown |-> shorten[value.items[i]]]
            IN  [t |-> "arr",
                 items |-> IF Len(value.items) > Items
                           THEN Append(cut, MoreItems(LeftOut(value.items))) ELSE cut]
      [] value.t = "obj" ->
            [t |-> "obj",
             members |-> [k \in DOMAIN value.members |-> shorten[value.members[k]]]]
      [] OTHER -> value

\* Shortened down to some levels.
truncated[levels \in Nat] ==
    [value \in Value |-> IF levels = 0 THEN value ELSE Shortened(value, truncated[levels - 1])]

truncate_value(value, depth) == truncated[MaxDepth + 1 - depth][value]

\* The length of a value's text, up to punctuation.
Size[value \in Value] ==
    CASE value.t = "str" -> value.len
      [] value.t = "arr" -> FoldFunction(LAMBDA v, n : Size[v] + n, 0, value.items)
      [] value.t = "obj" -> FoldFunction(LAMBDA v, n : Size[v] + n, 0, value.members)
      [] OTHER -> 1
=============================================================================
