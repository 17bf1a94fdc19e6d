---------------------------- MODULE Queries_proofs ----------------------------
(***************************************************************************)
(* What the tools answer, for databases, filters and results of any size:  *)
(* the bytes that int_convert prints are those of its number; a shortened  *)
(* result says nothing that is not true of the whole; what a listing names *)
(* is found by that name; a filter keeps exactly the names it wants, for   *)
(* which the loop of glob_match has to find a match whenever there is one. *)
(***************************************************************************)
EXTENDS Queries, Numbers_proofs

\* What the last answer is, of the calls that ask about no name.
Converted ==
    answer.tool = "int_convert" =>
        \E text \in Number, size \in ByteCount :
            answer = [tool |-> "int_convert", about |-> text, size |-> size,
                      result |-> IntConvert(text, size)]

Called ==
    answer.tool = "tools/call" =>
        \E result \in Result :
            answer = [tool |-> "tools/call", about |-> result, text |-> Size[result],
                      total |-> IF Size[Structured(result)] > MaxChars
                                THEN Size[Structured(result)] ELSE 0,
                      content |-> IF Size[Structured(result)] > MaxChars
                                  THEN truncate_value(Structured(result), 0)
                                  ELSE Structured(result)]

AnswerInv == Converted /\ Called

\* Every answer is the reply of the call that it names.
LEMMA AnswerStep == ASSUME AnswerInv, [Next]_vars PROVE AnswerInv'
<1> USE DEF AnswerInv, Converted, Called
<1>1. ASSUME UNCHANGED answer PROVE AnswerInv'
  BY <1>1
<1>2. ASSUME NEW tool, NEW about, NEW found, Reply(tool, about, found),
             tool \notin {"int_convert", "tools/call"}
      PROVE  AnswerInv'
  BY <1>2 DEF Reply
<1>3. ASSUME NEW ea, NEW name, ReadStruct(ea, name) PROVE AnswerInv'
  BY <1>3 DEF ReadStruct
<1>4. ASSUME NEW text \in Number, NEW size \in ByteCount, Convert(text, size) PROVE AnswerInv'
  BY <1>4 DEF Convert
<1>5. ASSUME NEW result \in Result, CallTool(result) PROVE AnswerInv'
  BY <1>5 DEF CallTool
<1> HIDE DEF AnswerInv, Converted, Called
<1>6. ASSUME NEW q, LookupFuncs(q) \/ GetGlobalValue(q) \/ ImportByName(q) \/ ExportByName(q)
                    \/ StructByName(q)
      PROVE  AnswerInv'
  <2>1. CASE LookupFuncs(q)
    BY <1>2, <2>1 DEF LookupFuncs
  <2>2. CASE GetGlobalValue(q)
    BY <1>2, <2>2 DEF GetGlobalValue
  <2>3. ASSUME NEW entries, NEW tool \in {"import", "export", "struct"}, ByName(tool, entries, q)
        PROVE  AnswerInv'
    BY <1>2, <2>3 DEF ByName
  <2> QED
    BY <1>6, <2>1, <2>2, <2>3 DEF ImportByName, ExportByName, StructByName
<1> QED
  BY <1>1, <1>3, <1>4, <1>5, <1>6
     DEF Next, vars, List, ListFuncs, ListGlobals, Imports, SearchStructs, Entrypoints

\* At first there is no answer.
LEMMA AnswerInvCorrect == Spec => []AnswerInv
<1>1. Init => AnswerInv
  BY DEF Init, None, AnswerInv, Converted, Called
<1> QED
  BY <1>1, AnswerStep, PTL DEF Spec

-----------------------------------------------------------------------------
(* The bytes of a number                                                    *)

\* Readable texts hold numbers of the word.
LEMMA NumberFits ==
    ASSUME NEW text \in Number, Readable(text)
    PROVE  /\ NumberIn(text) \in Int
           /\ Lowest <= NumberIn(text) /\ NumberIn(text) <= Highest
           /\ Lowest \in Int /\ Highest \in Int /\ Highest < Pow[Word] /\ -Pow[Word] < Lowest
           /\ Highest = -Lowest - 1
<1> DEFINE p == Pow[Word]
           h == p \div 2
           n == text.num
<1>1. Word \in Nat \ {0} /\ n \in Int /\ text.hex \in BOOLEAN
  BY TextToolsAssumption, CallAssumption DEF TextToolsAssumption, CallAssumption
<1>2. p \in Nat \ {0} /\ h \in Nat \ {0} /\ 2 * h = p
  BY <1>1, PowEven
<1>3. Lowest = -h /\ Highest = h - 1
  <2>1. Lowest = -h
    BY DEF Lowest
  <2> HIDE DEF h
  <2> QED
    BY <1>2, <2>1 DEF Highest
<1>4. n \in IF text.hex THEN 0 .. p - 1 ELSE Lowest .. Highest
  BY DEF Readable
<1>5. NumberIn(text) = IF n > Highest THEN n - p ELSE n
  BY DEF NumberIn, Signed
<1> HIDE DEF p, h, n
<1>6. NumberIn(text) \in -h .. h - 1
  BY <1>1, <1>2, <1>3, <1>4, <1>5
<1>7. h - 1 < p /\ -p < -h /\ h - 1 = -(-h) - 1
  BY <1>2
<1> QED
  BY <1>2, <1>3, <1>6, <1>7 DEF p

\* Every magnitude of the word takes some number of its bytes.
LEMMA BytesForDef ==
    ASSUME NEW m \in Nat, m < Pow[Word]
    PROVE  /\ BytesFor(m) \in 1 .. Word
           /\ m < Pow[BytesFor(m)] /\ (BytesFor(m) = 1 \/ m >= Pow[BytesFor(m) - 1])
<1> DEFINE T == {k \in Nat \ {0} : m < Pow[k]}
<1>1. Word \in T
  BY TextToolsAssumption DEF TextToolsAssumption
<1>2. PICK k \in T : \A j \in T : k <= j
  <2>1. T \in SUBSET Nat /\ T # {}
    BY <1>1
  <2> HIDE DEF T
  <2> QED
    BY <2>1, Least
<1>3. k \in 1 .. Word /\ m < Pow[k]
  BY <1>1, <1>2
<1>4. k = 1 \/ m >= Pow[k - 1]
  <2>1. SUFFICES ASSUME k # 1 PROVE m >= Pow[k - 1]
    OBVIOUS
  <2>2. k - 1 \in Nat \ {0} /\ ~(k <= k - 1)
    BY <1>3, <2>1
  <2>3. k - 1 \notin T
    BY <1>2, <2>2
  <2>4. ~(m < Pow[k - 1]) /\ Pow[k - 1] \in Nat
    BY <2>2, <2>3, PowDef
  <2> QED
    BY <2>4
<1> QED
  BY <1>3, <1>4 DEF BytesFor

\* Each byte is that of the number, beyond the word as well.
LEMMA BytesAreItsOwn ==
    ASSUME NEW v \in Int, -Pow[Word] <= v, v < Pow[Word], NEW n \in Nat
    PROVE  ToBytes(v, n) = [i \in 1 .. n |-> ByteOf(v, i - 1)]
<1>1. Word \in Nat
  BY TextToolsAssumption DEF TextToolsAssumption
<1>2. ASSUME NEW i \in 1 .. n, ~(i <= Word)
      PROVE  ByteOf(v, i - 1) = IF v < 0 THEN Base - 1 ELSE 0
  <2>1. i - 1 \in Nat /\ Word <= i - 1
    BY <1>1, <1>2
  <2> QED
    BY <1>1, <2>1, BytesAbove
<1> QED
  BY <1>2 DEF ToBytes

\* The bytes of a conversion, read from the most significant one on, are those of
\* the number it reports.
LEMMA ReadBackwards ==
    ASSUME NEW v \in Int, -Pow[Word] <= v, v < Pow[Word], NEW n \in Nat
    PROVE  /\ Len(ToBytes(v, n)) = n
           /\ NumberOf(Reverse(ToBytes(v, n))) = v % Pow[n]
<1> DEFINE bytes == ToBytes(v, n)
           msb == Reverse(bytes)
<1>1. bytes = [i \in 1 .. n |-> ByteOf(v, i - 1)]
  BY BytesAreItsOwn
<1>2. Len(bytes) = n
  <2> HIDE DEF bytes
  <2> QED
    BY <1>1
<1> HIDE DEF bytes
<1>3. msb = [i \in 1 .. n |-> bytes[(n - i) + 1]]
  BY <1>2 DEF Reverse
<1>4. \A i \in 1 .. n : n - i \in Nat /\ (n - i) + 1 \in 1 .. n /\ ((n - i) + 1) - 1 = n - i
  OBVIOUS
<1> HIDE DEF msb
<1>5. \A i \in 1 .. n : msb[i] = ByteOf(v, n - i)
  BY <1>1, <1>3, <1>4
<1>6. \A i \in 1 .. n : ByteOf(v, n - i) \in Int
  BY <1>4, ByteOfIsByte
<1>7. msb \in [1 .. n -> Int]
  BY <1>3, <1>5, <1>6
<1>8. NumberOf(msb) = v % Pow[n]
  BY <1>5, <1>7, NumberOfItsBytes
<1> QED
  BY <1>2, <1>8 DEF msb, bytes

\* For words, numbers and sizes of any width: the bytes that int_convert prints are
\* those of the number, as many as asked for or as its magnitude takes
\* (core.cpp tool_int_convert).
THEOREM BytesAreTheNumberAlways == Spec => []BytesAreTheNumber
<1>1. AnswerInv => BytesAreTheNumber
  <2>1. SUFFICES ASSUME AnswerInv, answer.tool = "int_convert", answer.result.kind = "number"
                 PROVE  LET r == answer.result
                            n == Len(r.bytes)
                        IN  /\ NumberOf(Reverse(r.bytes)) = r.decimal % Pow[n]
                            /\ IF answer.size = 0
                               THEN /\ Magnitude(r.decimal) < Pow[n]
                                    /\ n = 1 \/ Magnitude(r.decimal) >= Pow[n - 1]
                               ELSE n = answer.size
    BY DEF BytesAreTheNumber
  <2>2. PICK text \in Number, size \in ByteCount :
            answer = [tool |-> "int_convert", about |-> text, size |-> size,
                      result |-> IntConvert(text, size)]
    BY <2>1 DEF AnswerInv, Converted
  <2> DEFINE v == NumberIn(text)
             n == ByteSize(v, size)
  <2>3. answer.size = size /\ answer.result = IntConvert(text, size)
    BY <2>2
  <2>4. /\ Readable(text) /\ ~(n < 0)
        /\ IntConvert(text, size) = [kind |-> "number", decimal |-> v, bytes |-> ToBytes(v, n)]
    BY <2>1, <2>3 DEF IntConvert
  <2>5. answer.result.decimal = v /\ answer.result.bytes = ToBytes(v, n)
    BY <2>3, <2>4
  <2>6. v \in Int /\ -Pow[Word] <= v /\ v < Pow[Word] /\ Pow[Word] \in Nat
    <3>1. Pow[Word] \in Nat
      BY TextToolsAssumption, PowDef DEF TextToolsAssumption
    <3> HIDE DEF v
    <3>2. v \in Int /\ Lowest <= v /\ v <= Highest
          /\ Lowest \in Int /\ Highest \in Int /\ Highest < Pow[Word] /\ -Pow[Word] < Lowest
      BY <2>4, NumberFits DEF v
    <3> QED
      BY <3>1, <3>2
  <2>7. Magnitude(v) \in Nat /\ Magnitude(v) < Pow[Word]
    <3>1. Lowest \in Int /\ -Pow[Word] < Lowest /\ Lowest <= v
      BY <2>4, NumberFits
    <3> HIDE DEF v
    <3> QED
      BY <2>6, <3>1 DEF Magnitude
  <2>8. size \in Int
    BY CallAssumption DEF CallAssumption
  <2>9. n = IF size = 0 THEN BytesFor(Magnitude(v)) ELSE size
    BY DEF ByteSize
  <2> HIDE DEF v, n
  <2>10. BytesFor(Magnitude(v)) \in 1 .. Word /\ Magnitude(v) < Pow[BytesFor(Magnitude(v))]
         /\ (BytesFor(Magnitude(v)) = 1 \/ Magnitude(v) >= Pow[BytesFor(Magnitude(v)) - 1])
    BY <2>7, BytesForDef
  <2>11. n \in Nat
    BY <2>4, <2>8, <2>9, <2>10
  <2>12. Len(ToBytes(v, n)) = n /\ NumberOf(Reverse(ToBytes(v, n))) = v % Pow[n]
    BY <2>6, <2>11, ReadBackwards
  <2> QED
    BY <2>3, <2>5, <2>9, <2>10, <2>12
<1> QED
  BY <1>1, AnswerInvCorrect, PTL

-----------------------------------------------------------------------------
(* The preview of a large result                                            *)

\* The first n + 1 copies of the values, each shortened by the one before.
Copies(g, n) ==
    g = [i \in 0 .. n |->
            [value \in Value |-> IF i = 0 THEN value ELSE Shortened(value, g[i - 1])]]

\* Any number of copies exists.
LEMMA CopiesExist == ASSUME NEW n \in Nat PROVE \E g : Copies(g, n)
<1> DEFINE T == {k \in Nat : \E g : Copies(g, k)}
<1>1. 0 \in T
  <2> DEFINE g == [i \in 0 .. 0 |-> [value \in Value |-> value]]
  <2>1. Copies(g, 0)
    BY DEF Copies
  <2> QED
    BY <2>1
<1>2. ASSUME NEW k \in Nat, k \in T PROVE k + 1 \in T
  <2>1. PICK g : Copies(g, k)
    BY <1>2
  <2> DEFINE last == [value \in Value |-> Shortened(value, g[k])]
             h == [i \in 0 .. k + 1 |-> IF i = k + 1 THEN last ELSE g[i]]
  <2>2. ASSUME NEW i \in 0 .. k + 1
        PROVE  h[i] = [value \in Value |-> IF i = 0 THEN value ELSE Shortened(value, h[i - 1])]
    <3>1. CASE i = k + 1
      <4>1. i - 1 = k /\ k \in 0 .. k + 1 /\ k # k + 1 /\ i # 0
        BY <3>1
      <4>2. h[i - 1] = g[k] /\ h[i] = last
        BY <3>1, <4>1
      <4> HIDE DEF h
      <4> QED
        BY <4>1, <4>2
    <3>2. CASE i # k + 1
      <4>1. i \in 0 .. k /\ (i # 0 => i - 1 \in 0 .. k /\ i - 1 \in 0 .. k + 1 /\ i - 1 # k + 1)
        BY <3>2
      <4>2. h[i] = g[i] /\ (i # 0 => h[i - 1] = g[i - 1])
        BY <3>2, <4>1
      <4> HIDE DEF h
      <4>3. g[i] = [value \in Value |-> IF i = 0 THEN value ELSE Shortened(value, g[i - 1])]
        BY <2>1, <4>1, Zenon DEF Copies
      <4> QED
        BY <4>2, <4>3
    <3> QED
      BY <3>1, <3>2
  <2>3. h = [i \in 0 .. k + 1 |-> h[i]]
    OBVIOUS
  <2> HIDE DEF h
  <2>4. Copies(h, k + 1)
    BY <2>2, <2>3 DEF Copies
  <2> QED
    BY <2>4
<1> HIDE DEF T
<1>3. Nat \subseteq T
  BY <1>1, <1>2, Induction
<1> QED
  BY <1>3 DEF T

\* They are the same whatever their number.
LEMMA CopiesAgree ==
    ASSUME NEW m \in Nat, NEW n \in Nat, NEW g, NEW h, Copies(g, m), Copies(h, n), m <= n
    PROVE  \A i \in 0 .. m : g[i] = h[i]
<1> DEFINE T == {i \in Nat : i <= m => g[i] = h[i]}
<1>1. 0 \in T
  <2>1. 0 \in 0 .. m /\ 0 \in 0 .. n
    OBVIOUS
  <2>2. g[0] = [value \in Value |-> value] /\ h[0] = [value \in Value |-> value]
    BY <2>1 DEF Copies
  <2> QED
    BY <2>2
<1>2. ASSUME NEW i \in Nat, i \in T PROVE i + 1 \in T
  <2>1. SUFFICES ASSUME i + 1 <= m PROVE g[i + 1] = h[i + 1]
    OBVIOUS
  <2>2. i + 1 \in 0 .. m /\ i + 1 \in 0 .. n /\ (i + 1) - 1 = i /\ i + 1 # 0 /\ i <= m
    BY <2>1
  <2>3. /\ g[i + 1] = [value \in Value |-> Shortened(value, g[i])]
        /\ h[i + 1] = [value \in Value |-> Shortened(value, h[i])]
    BY <2>2 DEF Copies
  <2>4. g[i] = h[i]
    BY <1>2, <2>2
  <2> QED
    BY <2>3, <2>4
<1> HIDE DEF T
<1>3. Nat \subseteq T
  BY <1>1, <1>2, Induction
<1> QED
  BY <1>3 DEF T

\* The recursion of truncate_value: each level shortens by the next.
LEMMA TruncatedDef ==
    /\ \A value \in Value : truncated[0][value] = value
    /\ \A n \in Nat : \A value \in Value :
          truncated[n + 1][value] = Shortened(value, truncated[n])
<1> DEFINE Eq(f) == f = [levels \in Nat |->
                            [value \in Value |-> IF levels = 0 THEN value
                                                 ELSE Shortened(value, f[levels - 1])]]
           copy(n) == CHOOSE g : Copies(g, n)
           f == [n \in Nat |-> copy(n)[n]]
<1>1. \A n \in Nat : Copies(copy(n), n)
  BY CopiesExist
<1> HIDE DEF copy
<1>2. ASSUME NEW n \in Nat
      PROVE  f[n] = [value \in Value |-> IF n = 0 THEN value ELSE Shortened(value, f[n - 1])]
  <2>1. n \in 0 .. n
    OBVIOUS
  <2>2. f[n] = [value \in Value |-> IF n = 0 THEN value ELSE Shortened(value, copy(n)[n - 1])]
    BY <1>1, <2>1 DEF Copies
  <2>3. n # 0 => f[n - 1] = copy(n)[n - 1]
    <3>1. SUFFICES ASSUME n # 0 PROVE copy(n - 1)[n - 1] = copy(n)[n - 1]
      OBVIOUS
    <3>2. n - 1 \in Nat /\ n - 1 <= n /\ n - 1 \in 0 .. n - 1
      BY <3>1
    <3> QED
      BY <1>1, <3>2, CopiesAgree
  <2> HIDE DEF f
  <2> QED
    BY <2>2, <2>3
<1>3. Eq(f)
  <2>1. f = [n \in Nat |-> f[n]]
    OBVIOUS
  <2> HIDE DEF f
  <2> QED
    BY <1>2, <2>1
<1>4. truncated = CHOOSE g : Eq(g)
  BY DEF truncated
<1>5. Eq(truncated)
  <2> HIDE DEF Eq, f
  <2> QED
    BY <1>3, <1>4
<1>6. \A n \in Nat : truncated[n] = [value \in Value |-> IF n = 0 THEN value
                                                     ELSE Shortened(value, truncated[n - 1])]
  <2> HIDE DEF f
  <2> QED
    BY <1>5, Zenon
<1> HIDE DEF Eq, f
<1>7. \A value \in Value : truncated[0][value] = value
  BY <1>6
<1>8. ASSUME NEW n \in Nat, NEW value \in Value
      PROVE  truncated[n + 1][value] = Shortened(value, truncated[n])
  <2>1. n + 1 \in Nat /\ n + 1 # 0 /\ (n + 1) - 1 = n
    OBVIOUS
  <2>2. truncated[n + 1] = [v \in Value |-> Shortened(v, truncated[n])]
    BY <1>6, <2>1
  <2> QED
    BY <2>2
<1> QED
  BY <1>7, <1>8

\* What becomes of a value of each kind.
LEMMA ShortenedKinds ==
    ASSUME NEW w \in Value, NEW h
    PROVE  LET p == Shortened(w, h)
           IN  \/ w.t = "num" /\ p = w
               \/ w.t = "str" /\ w.len \in Nat /\ w.len <= StrLen /\ p = w
               \/ w.t = "str" /\ w.len \in Nat /\ w.len > StrLen /\ p = CutString(StrLen, w.len)
               \/ /\ w.t = "arr" /\ w.items \in Seq(Value) /\ Len(w.items) <= Items
                  /\ p = [t |-> "arr", items |-> [i \in 1 .. Len(w.items) |-> h[w.items[i]]]]
               \/ /\ w.t = "arr" /\ w.items \in Seq(Value) /\ Len(w.items) > Items
                  /\ p = [t |-> "arr",
                          items |-> Append([i \in 1 .. Items |-> h[w.items[i]]],
                                           MoreItems(LeftOut(w.items)))]
               \/ /\ w.t = "obj" /\ w.members \in [DOMAIN w.members -> Value]
                  /\ p = [t |-> "obj", members |-> [k \in DOMAIN w.members |-> h[w.members[k]]]]
<1>1. Items \in Nat /\ StrLen \in Nat
  BY TextToolsAssumption DEF TextToolsAssumption
<1>2. CASE w.t = "num"
  BY <1>2 DEF Shortened
<1>3. CASE w.t = "str"
  <2>1. w.len \in Nat
    BY <1>3, ValueAssumption DEF ValueAssumption
  <2> QED
    BY <1>1, <1>3, <2>1 DEF Shortened
<1>4. CASE w.t = "arr"
  <2>1. w.items \in Seq(Value) /\ Len(w.items) \in Nat
    BY <1>4, ValueAssumption DEF ValueAssumption
  <2>2. CASE Len(w.items) > Items
    BY <1>1, <1>4, <2>1, <2>2 DEF Shortened
  <2>3. CASE ~(Len(w.items) > Items)
    <3> DEFINE shown == IF Len(w.items) > Items THEN Items ELSE Len(w.items)
               cut == [i \in 1 .. shown |-> h[w.items[i]]]
    <3>1. Shortened(w, h) = [t |-> "arr", items |-> cut]
      BY <1>4, <2>3, Zenon DEF Shortened
    <3>2. shown = Len(w.items) /\ Len(w.items) <= Items
      BY <1>1, <2>1, <2>3
    <3> QED
      BY <1>4, <2>1, <3>1, <3>2
  <2> QED
    BY <2>2, <2>3
<1>5. CASE w.t = "obj"
  <2>1. w.members \in [DOMAIN w.members -> Value]
    BY <1>5, ValueAssumption DEF ValueAssumption
  <2> QED
    BY <1>5, <2>1 DEF Shortened
<1> QED
  BY <1>2, <1>3, <1>4, <1>5, ValueAssumption DEF ValueAssumption

\* A copy of a value is no note of items left out.
LEMMA CopyIsNoNote == ASSUME NEW n \in Nat, NEW w \in Value PROVE truncated[n][w].t # "more"
<1>1. w.t # "more"
  BY ValueAssumption DEF ValueAssumption
<1>2. CASE n = 0
  BY <1>1, <1>2, TruncatedDef
<1>3. CASE n # 0
  <2>1. n - 1 \in Nat /\ (n - 1) + 1 = n
    BY <1>3
  <2> DEFINE h == truncated[n - 1]
             p == Shortened(w, h)
  <2>2. truncated[n][w] = p
    BY <2>1, TruncatedDef
  <2> HIDE DEF h
  <2>3. p.t # "more"
    BY <1>1, ShortenedKinds DEF CutString
  <2> QED
    BY <2>2, <2>3
<1> QED
  BY <1>2, <1>3

\* The parts of an object, of a number or of a string.
LEMMA PartsOfWhole ==
    ASSUME NEW w \in Value, NEW k \in Shown(w)
    PROVE  Part(w, k) \in Value
<1>1. CASE w.t = "arr"
  <2>1. w.items \in Seq(Value)
    BY <1>1, ValueAssumption DEF ValueAssumption
  <2>2. k \in DOMAIN w.items
    BY <1>1 DEF Shown
  <2> QED
    BY <1>1, <2>1, <2>2 DEF Part
<1>2. CASE w.t = "obj"
  <2>1. w.members \in [DOMAIN w.members -> Value]
    BY <1>2, ValueAssumption DEF ValueAssumption
  <2>2. k \in DOMAIN w.members
    BY <1>2 DEF Shown
  <2> QED
    BY <1>2, <2>1, <2>2 DEF Part
<1>3. w.t \in {"arr", "obj"}
  BY ValueAssumption DEF ValueAssumption, Shown
<1> QED
  BY <1>1, <1>2, <1>3

\* A shortened value stands for the value, and its parts are copies of the parts.
LEMMA ShortenedStandsFor ==
    ASSUME NEW n \in Nat, NEW w \in Value, NEW h, h = truncated[n], NEW p, p = Shortened(w, h)
    PROVE  /\ StandsFor(p, w) /\ Short(p)
           /\ \A k \in Shown(p) : Part(w, k) \in Value /\ Part(p, k) = h[Part(w, k)]
<1>1. Items \in Nat /\ StrLen \in Nat
  BY TextToolsAssumption DEF TextToolsAssumption
<1>2. \A v \in Value : h[v].t # "more"
  BY CopyIsNoNote
<1>3. CASE w.t = "num" /\ p = w
  BY <1>3 DEF StandsFor, Short, Shown
<1>4. CASE w.t = "str" /\ w.len \in Nat /\ w.len <= StrLen /\ p = w
  BY <1>4 DEF StandsFor, Short, Shown
<1>5. CASE w.t = "str" /\ w.len \in Nat /\ w.len > StrLen /\ p = CutString(StrLen, w.len)
  BY <1>1, <1>5 DEF StandsFor, Short, Shown, CutString
<1>6. CASE /\ w.t = "arr" /\ w.items \in Seq(Value) /\ Len(w.items) <= Items
           /\ p = [t |-> "arr", items |-> [i \in 1 .. Len(w.items) |-> h[w.items[i]]]]
  <2>1. p.t = "arr" /\ p.items = [i \in 1 .. Len(w.items) |-> h[w.items[i]]]
    BY <1>6
  <2>2. Len(w.items) \in Nat /\ DOMAIN w.items = 1 .. Len(w.items)
        /\ \A i \in DOMAIN w.items : w.items[i] \in Value
    BY <1>6
  <2>3. Len(p.items) = Len(w.items) /\ DOMAIN p.items = DOMAIN w.items
        /\ \A i \in DOMAIN w.items : p.items[i] = h[w.items[i]]
    BY <2>1, <2>2
  <2>4. Shown(p) = DOMAIN w.items
    BY <1>2, <2>1, <2>2, <2>3 DEF Shown
  <2>5. StandsFor(p, w)
    BY <1>6, <2>1, <2>3, <2>4 DEF StandsFor
  <2>6. Short(p)
    BY <1>1, <1>6, <2>1, <2>2, <2>3 DEF Short
  <2> QED
    BY <1>6, <2>1, <2>2, <2>3, <2>4, <2>5, <2>6 DEF Part
<1>7. CASE /\ w.t = "arr" /\ w.items \in Seq(Value) /\ Len(w.items) > Items
           /\ p = [t |-> "arr",
                   items |-> Append([i \in 1 .. Items |-> h[w.items[i]]],
                                    MoreItems(LeftOut(w.items)))]
  <2> DEFINE cut == [i \in 1 .. Items |-> h[w.items[i]]]
             note == MoreItems(LeftOut(w.items))
             items == Append(cut, note)
  <2>1. p.t = "arr" /\ p.items = Append(cut, note)
    <3>1. p = [t |-> "arr", items |-> items]
      BY <1>7, Zenon
    <3> HIDE DEF items
    <3>2. p.t = "arr" /\ p.items = items
      BY <3>1
    <3> QED
      BY <3>2, Zenon DEF items
  <2>2. Len(w.items) \in Nat /\ DOMAIN w.items = 1 .. Len(w.items)
        /\ 1 .. Items \subseteq DOMAIN w.items
        /\ \A i \in DOMAIN w.items : w.items[i] \in Value
    BY <1>1, <1>7
  <2>3. Len(cut) = Items /\ \A i \in 1 .. Items : cut[i] = h[w.items[i]]
    BY <1>1
  <2>4. note.t = "more" /\ note = MoreItems(Len(w.items) - Items)
    BY DEF MoreItems, LeftOut
  <2>5. cut \in Seq({h[v] : v \in Value})
    BY <1>1, <2>2
  <2> HIDE DEF cut, note
  <2>6. /\ Len(p.items) = Items + 1 /\ DOMAIN p.items = 1 .. Items + 1
        /\ p.items[Items + 1] = note
        /\ \A i \in 1 .. Items : p.items[i] = cut[i]
    <3>1. cut \in Seq({h[v] : v \in Value} \cup {note}) /\ note \in {h[v] : v \in Value} \cup {note}
      BY <2>5
    <3>2. /\ Append(cut, note) \in Seq({h[v] : v \in Value} \cup {note})
          /\ Len(Append(cut, note)) = Len(cut) + 1
          /\ \A i \in 1 .. Len(cut) : Append(cut, note)[i] = cut[i]
          /\ Append(cut, note)[Len(cut) + 1] = note
      BY <3>1, AppendProperties
    <3>3. DOMAIN Append(cut, note) = 1 .. Len(Append(cut, note))
      BY <3>2
    <3> QED
      BY <2>1, <2>3, <3>2, <3>3
  <2>7. Shown(p) = 1 .. Items
    <3>1. Shown(p) = {i \in 1 .. Items + 1 : p.items[i].t # "more"}
      BY <2>1, <2>6 DEF Shown
    <3>2. \A i \in 1 .. Items : p.items[i].t # "more"
      <4>1. \A i \in 1 .. Items : p.items[i] = h[w.items[i]] /\ w.items[i] \in Value
        BY <2>2, <2>3, <2>6
      <4> QED
        BY <1>2, <4>1
    <3>3. p.items[Items + 1].t = "more"
      BY <2>4, <2>6
    <3> QED
      BY <1>1, <3>1, <3>2, <3>3
  <2>8. StandsFor(p, w)
    <3>1. Items \in 0 .. Len(w.items)
      BY <1>1, <1>7, <2>2
    <3>2. \E m \in 0 .. Len(w.items) :
             /\ Len(p.items) = m + 1 /\ Shown(p) = 1 .. m
             /\ p.items[m + 1] = MoreItems(Len(w.items) - m)
      BY <2>4, <2>6, <2>7, <3>1
    <3> QED
      BY <1>7, <2>1, <3>2 DEF StandsFor
  <2>9. Short(p)
    BY <1>1, <2>1, <2>6 DEF Short
  <2>10. ASSUME NEW k \in Shown(p) PROVE Part(w, k) \in Value /\ Part(p, k) = h[Part(w, k)]
    <3>1. k \in 1 .. Items /\ k \in DOMAIN w.items
      BY <2>2, <2>7
    <3>2. Part(w, k) = w.items[k] /\ Part(p, k) = p.items[k]
      BY <1>7, <2>1 DEF Part
    <3> QED
      BY <2>2, <2>3, <2>6, <3>1, <3>2
  <2> QED
    BY <2>8, <2>9, <2>10
<1>8. CASE /\ w.t = "obj" /\ w.members \in [DOMAIN w.members -> Value]
           /\ p = [t |-> "obj", members |-> [k \in DOMAIN w.members |-> h[w.members[k]]]]
  <2>1. p.t = "obj" /\ p.members = [k \in DOMAIN w.members |-> h[w.members[k]]]
    BY <1>8
  <2>2. DOMAIN p.members = DOMAIN w.members
    BY <2>1
  <2>3. StandsFor(p, w) /\ Short(p)
    BY <1>8, <2>1, <2>2 DEF StandsFor, Short
  <2>4. Shown(p) = DOMAIN w.members
    BY <2>1, <2>2 DEF Shown
  <2> QED
    BY <1>8, <2>1, <2>3, <2>4 DEF Part
<1> QED
  BY <1>3, <1>4, <1>5, <1>6, <1>7, <1>8, ShortenedKinds, Zenon

\* The values, each beside its copy shortened down to n levels, and all such pairs.
Level(n) == {<<truncated[n][w], w>> : w \in Value}
Levels == UNION {Level(n) : n \in Nat}

\* The parts that some previews show, beside the parts they are shown of.
PartsOf(S) == UNION {{<<Part(x[1], k), Part(x[2], k)>> : k \in Shown(x[1])} : x \in S}

\* One level down, the copies are shortened down to one level less.
LEMMA PartsAreCopies ==
    ASSUME NEW n \in Nat, NEW S, S \subseteq Level(n)
    PROVE  PartsOf(S) \subseteq Level(IF n = 0 THEN 0 ELSE n - 1)
<1> SUFFICES ASSUME NEW x \in S, NEW k \in Shown(x[1])
             PROVE  <<Part(x[1], k), Part(x[2], k)>> \in Level(IF n = 0 THEN 0 ELSE n - 1)
  BY DEF PartsOf
<1>1. PICK w \in Value : x = <<truncated[n][w], w>>
  BY DEF Level
<1>2. x[1] = truncated[n][w] /\ x[2] = w
  BY <1>1
<1>3. CASE n = 0
  <2>1. truncated[n][w] = w
    BY <1>3, TruncatedDef
  <2> DEFINE u == Part(w, k)
  <2>2. u \in Value
    BY <1>2, <2>1, PartsOfWhole
  <2> HIDE DEF u
  <2>3. u = truncated[0][u]
    BY <2>2, TruncatedDef
  <2>4. <<u, u>> \in Level(0)
    BY <2>2, <2>3, Zenon DEF Level
  <2> QED
    BY <1>2, <1>3, <2>1, <2>4 DEF u
<1>4. CASE n # 0
  <2> DEFINE h == truncated[n - 1]
             p == Shortened(w, h)
             u == Part(w, k)
  <2>1. n - 1 \in Nat /\ (n - 1) + 1 = n
    BY <1>4
  <2>2. truncated[n][w] = p
    BY <2>1, TruncatedDef
  <2>3. u \in Value /\ Part(p, k) = h[u]
    <3>1. k \in Shown(p)
      BY <1>2, <2>2
    <3> QED
      BY <2>1, <3>1, ShortenedStandsFor
  <2> HIDE DEF u, p
  <2>4. <<h[u], u>> \in Level(n - 1)
    BY <2>3, Zenon DEF Level
  <2>5. Part(x[1], k) = h[u] /\ Part(x[2], k) = u
    BY <1>2, <2>2, <2>3 DEF u
  <2> QED
    BY <1>4, <2>4, <2>5
<1> QED
  BY <1>3, <1>4

\* What a preview shows, level by level.
LEMMA ShownOfDef ==
    ASSUME NEW n \in Nat, NEW v \in Value
    PROVE  LET S == ShownOf(truncated[n][v], v)
           IN  /\ S[0] = {<<truncated[n][v], v>>}
               /\ \A d \in Nat : S[d + 1] = PartsOf(S[d])
<1> DEFINE first == {<<truncated[n][v], v>>}
           S == ShownOf(truncated[n][v], v)
           G == [d \in Nat |-> [X \in SUBSET Levels |-> PartsOf(X)]]
           Eq(f) == f = [depth \in Nat |-> IF depth = 0 THEN first ELSE PartsOf(f[depth - 1])]
<1>1. first \in SUBSET Levels
  <2>1. <<truncated[n][v], v>> \in Level(n)
    BY Zenon DEF Level
  <2>2. <<truncated[n][v], v>> \in Levels
    BY <2>1, Zenon DEF Levels
  <2> QED
    BY <2>2
<1>2. ASSUME NEW X \in SUBSET Levels PROVE PartsOf(X) \in SUBSET Levels
  <2>1. SUFFICES ASSUME NEW x \in X, NEW k \in Shown(x[1])
                 PROVE  <<Part(x[1], k), Part(x[2], k)>> \in Levels
    BY DEF PartsOf
  <2>2. PICK m \in Nat : x \in Level(m)
    BY DEF Levels
  <2>3. PartsOf({x}) \subseteq Level(IF m = 0 THEN 0 ELSE m - 1)
    BY <2>2, PartsAreCopies
  <2>4. <<Part(x[1], k), Part(x[2], k)>> \in PartsOf({x})
    BY Zenon DEF PartsOf
  <2>5. (IF m = 0 THEN 0 ELSE m - 1) \in Nat
    OBVIOUS
  <2> QED
    BY <2>3, <2>4, <2>5 DEF Levels
<1>3. G \in [Nat -> [SUBSET Levels -> SUBSET Levels]]
  BY <1>2
<1> HIDE DEF first
<1>4. PICK f \in [Nat -> SUBSET Levels] : Iterates(f, G, first)
  <2> HIDE DEF G
  <2> QED
    BY <1>1, <1>3, Iterate
<1>5. \A d \in Nat : f[d + 1] = PartsOf(f[d])
  <2>1. \A d \in Nat : f[d] \in SUBSET Levels /\ f[d + 1] = G[d][f[d]]
    BY <1>4 DEF Iterates
  <2> QED
    BY <2>1
<1>6. f[0] = first
  <2> HIDE DEF G
  <2> QED
    BY <1>4 DEF Iterates
<1>7. Eq(f)
  <2>1. ASSUME NEW d \in Nat PROVE f[d] = IF d = 0 THEN first ELSE PartsOf(f[d - 1])
    <3>1. CASE d = 0
      BY <1>6, <3>1
    <3>2. CASE d # 0
      <4>1. d - 1 \in Nat /\ (d - 1) + 1 = d
        BY <3>2
      <4> QED
        BY <1>5, <3>2, <4>1
    <3> QED
      BY <3>1, <3>2
  <2> HIDE DEF G
  <2> QED
    BY <1>4, <2>1
<1>8. S = CHOOSE g : Eq(g)
  BY Zenon DEF ShownOf, PartsOf, first
<1> HIDE DEF S
<1>9. Eq(S)
  <2> HIDE DEF Eq
  <2> QED
    BY <1>7, <1>8
<1>10. \A d \in Nat : S[d] = IF d = 0 THEN first ELSE PartsOf(S[d - 1])
  BY <1>9, Zenon
<1> HIDE DEF Eq
<1>11. S[0] = first
  BY <1>10
<1>12. ASSUME NEW d \in Nat PROVE S[d + 1] = PartsOf(S[d])
  <2>1. d + 1 \in Nat /\ d + 1 # 0 /\ (d + 1) - 1 = d
    OBVIOUS
  <2> QED
    BY <1>10, <2>1
<1> QED
  BY <1>11, <1>12 DEF S, first

\* So many levels down, the copies are shortened down to as many less.
LEMMA ShownAreCopies ==
    ASSUME NEW n \in Nat, NEW v \in Value, NEW d \in 0 .. n
    PROVE  ShownOf(truncated[n][v], v)[d] \subseteq Level(n - d)
<1> DEFINE S == ShownOf(truncated[n][v], v)
           T == {i \in Nat : i <= n => S[i] \subseteq Level(n - i)}
<1>1. S[0] = {<<truncated[n][v], v>>} /\ \A i \in Nat : S[i + 1] = PartsOf(S[i])
  BY ShownOfDef
<1> HIDE DEF S
<1>2. 0 \in T
  <2>1. n - 0 = n
    OBVIOUS
  <2> QED
    BY <1>1, <2>1, Zenon DEF Level
<1>3. ASSUME NEW i \in Nat, i \in T PROVE i + 1 \in T
  <2>1. SUFFICES ASSUME i + 1 <= n PROVE S[i + 1] \subseteq Level(n - (i + 1))
    OBVIOUS
  <2>2. n - i \in Nat /\ n - i # 0 /\ (n - i) - 1 = n - (i + 1) /\ i <= n
    BY <2>1
  <2>3. S[i] \subseteq Level(n - i)
    BY <1>3, <2>2
  <2>4. PartsOf(S[i]) \subseteq Level((n - i) - 1)
    BY <2>2, <2>3, PartsAreCopies
  <2> QED
    BY <1>1, <2>2, <2>4
<1> HIDE DEF T
<1>4. Nat \subseteq T
  BY <1>2, <1>3, Induction
<1>5. d \in T /\ d <= n
  BY <1>4
<1> QED
  BY <1>5 DEF T, S

\* For previews of any depth and width and results of any shape: what the structured
\* content of a reply says of the result is true, and what it leaves out is counted
\* (mcp.cpp truncate_value, mcp_tools_call).
THEOREM PreviewIsTrueAlways == Spec => []PreviewIsTrue
<1>1. AnswerInv => PreviewIsTrue
  <2>1. SUFFICES ASSUME AnswerInv, answer.tool = "tools/call"
                 PROVE  PreviewIsTrue
    BY DEF PreviewIsTrue
  <2>2. PICK result \in Result :
            answer = [tool |-> "tools/call", about |-> result, text |-> Size[result],
                      total |-> IF Size[Structured(result)] > MaxChars
                                THEN Size[Structured(result)] ELSE 0,
                      content |-> IF Size[Structured(result)] > MaxChars
                                  THEN truncate_value(Structured(result), 0)
                                  ELSE Structured(result)]
    BY <2>1 DEF AnswerInv, Called
  <2> DEFINE whole == Structured(result)
  <2>3. /\ answer.about = result
        /\ answer.total = IF Size[whole] > MaxChars THEN Size[whole] ELSE 0
        /\ answer.content = IF Size[whole] > MaxChars THEN truncate_value(whole, 0) ELSE whole
    BY <2>2
  <2>4. whole \in Value /\ MaxChars \in Nat
    BY CallAssumption DEF CallAssumption
  <2> HIDE DEF whole
  <2>5. CASE answer.total = 0
    <3>1. ~(Size[whole] > MaxChars)
      BY <2>3, <2>4, <2>5
    <3> QED
      BY <2>3, <2>5, <3>1 DEF PreviewIsTrue, whole
  <2>6. CASE answer.total # 0
    <3> DEFINE n == MaxDepth + 1
               S == ShownOf(answer.content, whole)
    <3>1. answer.total = Size[whole] /\ answer.content = truncate_value(whole, 0)
      BY <2>3, <2>6
    <3>2. MaxDepth \in Nat /\ n \in Nat /\ MaxDepth + 1 - 0 = n
      BY TextToolsAssumption DEF TextToolsAssumption
    <3>3. answer.content = truncated[n][whole]
      BY <3>1, <3>2 DEF truncate_value
    <3> HIDE DEF n
    <3>4. ASSUME NEW d \in 0 .. n PROVE S[d] \subseteq Level(n - d)
      BY <2>4, <3>2, <3>3, ShownAreCopies
    <3> HIDE DEF S
    <3>5. ASSUME NEW d \in 0 .. MaxDepth, NEW x \in S[d] PROVE StandsFor(x[1], x[2]) /\ Short(x[1])
      <4>1. d \in 0 .. n /\ n - d \in Nat /\ (n - d) - 1 \in Nat /\ ((n - d) - 1) + 1 = n - d
        BY <3>2 DEF n
      <4>2. x \in Level(n - d)
        BY <3>4, <4>1
      <4>3. PICK w \in Value : x = <<truncated[n - d][w], w>>
        BY <4>2 DEF Level
      <4>4. truncated[n - d][w] = Shortened(w, truncated[(n - d) - 1])
        BY <4>1, TruncatedDef
      <4> DEFINE h == truncated[(n - d) - 1]
                 p == Shortened(w, h)
      <4>5. x[1] = p /\ x[2] = w
        BY <4>3, <4>4
      <4> HIDE DEF p
      <4>6. StandsFor(p, w) /\ Short(p)
        BY <4>1, ShortenedStandsFor DEF p
      <4> QED
        BY <4>5, <4>6
    <3>6. ASSUME NEW x \in S[MaxDepth + 1] PROVE x[1] = x[2]
      <4>1. n \in 0 .. n /\ n - n = 0
        BY <3>2
      <4>2. x \in Level(0)
        BY <3>4, <4>1 DEF n
      <4>3. PICK w \in Value : x = <<truncated[0][w], w>>
        BY <4>2 DEF Level
      <4> QED
        BY <4>3, TruncatedDef
    <3> QED
      BY <2>3, <2>6, <3>1, <3>5, <3>6 DEF PreviewIsTrue, whole, S
  <2> QED
    BY <2>5, <2>6
<1> QED
  BY <1>1, AnswerInvCorrect, PTL

-----------------------------------------------------------------------------
(* Sequences                                                                *)

\* The least of a set of naturals.
LEMMA MinDef ==
    ASSUME NEW S \in SUBSET Nat, S # {}
    PROVE  Min(S) \in S /\ \A k \in S : Min(S) <= k
<1>1. PICK m \in S : \A k \in S : m <= k
  BY Least
<1> QED
  BY <1>1 DEF Min

\* The elements of a sequence.
LEMMA ElementsDef ==
    ASSUME NEW E, NEW seq \in Seq(E)
    PROVE  /\ Len(seq) \in Nat /\ DOMAIN seq = 1 .. Len(seq) /\ Range(seq) \subseteq E
           /\ \A i \in 1 .. Len(seq) : seq[i] \in E /\ seq[i] \in Range(seq)
           /\ \A e \in Range(seq) : \E i \in 1 .. Len(seq) : seq[i] = e
BY DEF Range

\* What is selected of the elements up to each index.
Selects(sel, seq, kept) ==
    /\ sel[0] = <<>>
    /\ \A n \in Nat : sel[n + 1] = IF n + 1 \in kept THEN Append(sel[n], seq[n + 1]) ELSE sel[n]

\* The recursion of Selected: it has a selection for every index.
LEMMA SelectedRounds ==
    ASSUME NEW E, NEW seq \in Seq(E), NEW kept
    PROVE  \E sel : Selects(sel, seq, kept) /\ Selected(seq, kept) = sel[Len(seq)]
<1> DEFINE V == Seq(E \cup {seq[i] : i \in Nat})
           G == [i \in Nat |-> [s \in V |-> IF i + 1 \in kept THEN Append(s, seq[i + 1]) ELSE s]]
           Eq(f) == f = [n \in Nat |-> IF n = 0 THEN <<>>
                                       ELSE IF n \in kept THEN Append(f[n - 1], seq[n]) ELSE f[n - 1]]
<1>1. G \in [Nat -> [V -> V]]
  <2> DEFINE W == E \cup {seq[i] : i \in Nat}
  <2>1. \A i \in Nat : seq[i + 1] \in W
    OBVIOUS
  <2> HIDE DEF W
  <2>2. \A s \in Seq(W) : \A i \in Nat : Append(s, seq[i + 1]) \in Seq(W)
    BY <2>1, AppendProperties
  <2> QED
    BY <2>2 DEF W
<1>2. <<>> \in V
  OBVIOUS
<1> HIDE DEF V
<1>3. PICK f \in [Nat -> V] : Iterates(f, G, <<>>)
  <2> HIDE DEF G
  <2> QED
    BY <1>1, <1>2, Iterate
<1>4. Eq(f)
  <2>1. \A i \in Nat : f[i + 1] = IF i + 1 \in kept THEN Append(f[i], seq[i + 1]) ELSE f[i]
    <3>1. \A i \in Nat : f[i] \in V /\ f[i + 1] = G[i][f[i]]
      BY <1>3 DEF Iterates
    <3> QED
      BY <3>1
  <2>2. f[0] = <<>>
    <3> HIDE DEF G
    <3> QED
      BY <1>3 DEF Iterates
  <2>3. ASSUME NEW n \in Nat
        PROVE  f[n] = IF n = 0 THEN <<>>
                      ELSE IF n \in kept THEN Append(f[n - 1], seq[n]) ELSE f[n - 1]
    <3>1. CASE n = 0
      BY <2>2, <3>1
    <3>2. CASE n # 0
      <4>1. n - 1 \in Nat /\ (n - 1) + 1 = n
        BY <3>2
      <4> QED
        BY <2>1, <3>2, <4>1
    <3> QED
      BY <3>1, <3>2
  <2> HIDE DEF G
  <2> QED
    BY <1>3, <2>3
<1> DEFINE sel == CHOOSE h : Eq(h)
<1>5. Eq(sel)
  <2> HIDE DEF Eq
  <2> QED
    BY <1>4
<1>6. Selected(seq, kept) = sel[Len(seq)]
  BY DEF Selected
<1> HIDE DEF sel
<1>7. \A n \in Nat : sel[n] = IF n = 0 THEN <<>>
                             ELSE IF n \in kept THEN Append(sel[n - 1], seq[n]) ELSE sel[n - 1]
  BY <1>5, Zenon
<1> HIDE DEF Eq
<1>8. ASSUME NEW n \in Nat
      PROVE  sel[n + 1] = IF n + 1 \in kept THEN Append(sel[n], seq[n + 1]) ELSE sel[n]
  <2>1. n + 1 \in Nat /\ n + 1 # 0 /\ (n + 1) - 1 = n
    OBVIOUS
  <2> QED
    BY <1>7, <2>1
<1>9. Selects(sel, seq, kept)
  BY <1>7, <1>8 DEF Selects
<1> QED
  BY <1>6, <1>9

\* The selected elements of a sequence are those of its indices that are kept.
LEMMA SelectedDef ==
    ASSUME NEW E, NEW seq \in Seq(E), NEW kept
    PROVE  /\ Selected(seq, kept) \in Seq(E)
           /\ Range(Selected(seq, kept)) = {seq[i] : i \in {j \in DOMAIN seq : j \in kept}}
<1>1. PICK sel : /\ sel[0] = <<>>
                 /\ \A n \in Nat : sel[n + 1] = IF n + 1 \in kept THEN Append(sel[n], seq[n + 1])
                                               ELSE sel[n]
                 /\ Selected(seq, kept) = sel[Len(seq)]
  <2>1. \E sel : Selects(sel, seq, kept) /\ Selected(seq, kept) = sel[Len(seq)]
    BY SelectedRounds
  <2> QED
    BY <2>1 DEF Selects
<1> DEFINE Picked(n) == {seq[i] : i \in {j \in 1 .. n : j \in kept}}
           T == {n \in Nat : n <= Len(seq) => sel[n] \in Seq(E) /\ Range(sel[n]) = Picked(n)}
<1>2. 0 \in T
  <2>1. sel[0] = <<>>
    BY <1>1
  <2>2. Range(<<>>) = {} /\ Picked(0) = {}
    BY DEF Range
  <2>3. <<>> \in Seq(E)
    OBVIOUS
  <2> HIDE DEF Picked
  <2> QED
    BY <2>1, <2>2, <2>3
<1>3. ASSUME NEW n \in Nat, n \in T PROVE n + 1 \in T
  <2>1. SUFFICES ASSUME n + 1 <= Len(seq)
                 PROVE  sel[n + 1] \in Seq(E) /\ Range(sel[n + 1]) = Picked(n + 1)
    OBVIOUS
  <2> DEFINE s == sel[n]
             e == seq[n + 1]
  <2>2. s \in Seq(E) /\ Range(s) = Picked(n) /\ e \in E
    BY <1>3, <2>1
  <2>3. sel[n + 1] = IF n + 1 \in kept THEN Append(s, e) ELSE s
    BY <1>1
  <2>4. Picked(n + 1) = IF n + 1 \in kept THEN Picked(n) \cup {e} ELSE Picked(n)
    <3>1. \A i : i \in 1 .. n + 1 <=> i \in 1 .. n \/ i = n + 1
      OBVIOUS
    <3> QED
      BY <3>1
  <2> HIDE DEF s, e, Picked
  <2>5. Append(s, e) \in Seq(E) /\ Range(Append(s, e)) = Range(s) \cup {e}
    <3>1. /\ Append(s, e) \in Seq(E) /\ Len(Append(s, e)) = Len(s) + 1
          /\ \A i \in 1 .. Len(s) : Append(s, e)[i] = s[i]
          /\ Append(s, e)[Len(s) + 1] = e
      BY <2>2, AppendProperties
    <3>2. DOMAIN Append(s, e) = 1 .. Len(s) + 1 /\ DOMAIN s = 1 .. Len(s) /\ Len(s) \in Nat
      BY <2>2, <3>1
    <3>3. \A i : i \in 1 .. Len(s) + 1 <=> i \in 1 .. Len(s) \/ i = Len(s) + 1
      BY <3>2
    <3> QED
      BY <3>1, <3>2, <3>3 DEF Range
  <2> QED
    BY <2>2, <2>3, <2>4, <2>5
<1> HIDE DEF T
<1>4. Nat \subseteq T
  BY <1>2, <1>3, Induction
<1>5. Len(seq) \in Nat /\ Len(seq) \in T /\ DOMAIN seq = 1 .. Len(seq)
  BY <1>4
<1>6. Selected(seq, kept) = sel[Len(seq)]
  BY <1>1
<1> QED
  BY <1>5, <1>6 DEF T

\* All elements selected are the sequence.
LEMMA SelectedAll ==
    ASSUME NEW E, NEW seq \in Seq(E), NEW kept, DOMAIN seq \subseteq kept
    PROVE  Selected(seq, kept) = seq
<1>1. PICK sel : /\ sel[0] = <<>>
                 /\ \A n \in Nat : sel[n + 1] = IF n + 1 \in kept THEN Append(sel[n], seq[n + 1])
                                               ELSE sel[n]
                 /\ Selected(seq, kept) = sel[Len(seq)]
  <2>1. \E sel : Selects(sel, seq, kept) /\ Selected(seq, kept) = sel[Len(seq)]
    BY SelectedRounds
  <2> QED
    BY <2>1 DEF Selects
<1> DEFINE L == Len(seq)
           first(n) == [i \in 1 .. n |-> seq[i]]
           T == {n \in Nat : n <= L => sel[n] = first(n)}
<1>2. L \in Nat /\ DOMAIN seq = 1 .. L /\ seq = first(L) /\ \A i \in 1 .. L : seq[i] \in E
  BY ElementsDef
<1>3. 0 \in T
  BY <1>1
<1>4. ASSUME NEW n \in Nat, n \in T PROVE n + 1 \in T
  <2>1. SUFFICES ASSUME n + 1 <= L PROVE sel[n + 1] = first(n + 1)
    OBVIOUS
  <2> HIDE DEF L
  <2>2. n + 1 \in 1 .. L /\ n <= L /\ 1 .. n \subseteq 1 .. L
    BY <1>2, <2>1
  <2>3. sel[n] = first(n) /\ n + 1 \in kept
    BY <1>2, <1>4, <2>2
  <2>4. sel[n + 1] = Append(first(n), seq[n + 1])
    BY <1>1, <2>3
  <2>5. first(n) \in Seq(E) /\ Len(first(n)) = n /\ seq[n + 1] \in E
    <3>1. /\ seq[n + 1] \in E
          /\ \A i \in 1 .. n : seq[i] \in E
      BY <1>2, <2>2
    <3>2. first(n) \in [1 .. n -> E]
      BY <3>1
    <3> HIDE DEF first
    <3> QED
      BY <3>1, <3>2
  <2>6. Append(first(n), seq[n + 1]) = first(n + 1)
    <3> DEFINE s == first(n)
               e == seq[n + 1]
    <3>1. s \in Seq(E) /\ Len(s) = n /\ e \in E /\ \A i \in 1 .. n : s[i] = seq[i]
      BY <2>5
    <3> HIDE DEF s
    <3>2. /\ Append(s, e) \in Seq(E) /\ Len(Append(s, e)) = n + 1
          /\ \A i \in 1 .. n : Append(s, e)[i] = seq[i]
          /\ Append(s, e)[n + 1] = seq[n + 1]
      BY <3>1, AppendProperties
    <3>3. \A i \in 1 .. n + 1 : Append(s, e)[i] = seq[i]
      BY <3>2
    <3>4. Append(s, e) = [i \in 1 .. n + 1 |-> Append(s, e)[i]]
      BY <3>2
    <3> QED
      BY <3>3, <3>4 DEF s
  <2> QED
    BY <2>4, <2>6
<1> HIDE DEF T
<1>5. Nat \subseteq T
  BY <1>3, <1>4, Induction
<1> QED
  BY <1>1, <1>2, <1>5 DEF T

\* The beginning of a sequence.
LEMMA PaginateDef ==
    ASSUME NEW E, NEW seq \in Seq(E), NEW count \in Nat
    PROVE  LET page == paginate(seq, count)
           IN  /\ page \in Seq(E) /\ Len(page) <= Len(seq)
               /\ \A i \in DOMAIN page : i \in DOMAIN seq /\ page[i] = seq[i]
               /\ page = seq \/ Len(page) = count
<1> DEFINE L == Len(seq)
           n == IF count = 0 \/ count > L THEN L ELSE count
           page == SubSeq(seq, 1, n)
<1>1. L \in Nat /\ DOMAIN seq = 1 .. L /\ \A i \in 1 .. L : seq[i] \in E
  OBVIOUS
<1>2. paginate(seq, count) = page
  BY DEF paginate
<1> HIDE DEF L
<1>3. n \in Nat /\ n <= L /\ (n = L \/ n = count)
  BY <1>1
<1> HIDE DEF n
<1>4. 1 .. n \subseteq 1 .. L /\ \A i \in 1 .. n : 1 + i - 1 = i
  BY <1>1, <1>3
<1>5. page = [i \in 1 .. n |-> seq[i]]
  <2>1. n \in 0 .. L
    BY <1>1, <1>3
  <2>2. n \in 0 .. Len(seq)
    BY <2>1, Zenon DEF L
  <2> QED
    BY <2>2, SubSeqRestrict DEF Restrict
<1> HIDE DEF page
<1>6. Len(page) = n /\ DOMAIN page = 1 .. n /\ page \in Seq(E)
  BY <1>1, <1>3, <1>4, <1>5
<1>7. n = L => page = seq
  <2>1. seq = [i \in 1 .. L |-> seq[i]]
    BY DEF L
  <2> QED
    BY <1>5, <2>1
<1> QED
  BY <1>1, <1>2, <1>3, <1>4, <1>5, <1>6, <1>7 DEF L

-----------------------------------------------------------------------------
(* What is found by its name                                                *)

\* The first of three addresses that is one.
LEMMA FirstOfThree ==
    ASSUME NEW a, NEW b, NEW c
    PROVE  FirstOf(<<a, b, c>>) = IF a # BADADDR THEN a
                                  ELSE IF b # BADADDR THEN b ELSE c
<1> DEFINE s == <<a, b, c>>
           S == {i \in 1 .. Len(s) : s[i] # BADADDR}
<1>1. s[1] = a /\ s[2] = b /\ s[3] = c /\ 1 .. Len(s) = {1, 2, 3}
  OBVIOUS
<1>2. FirstOf(s) = LET i == IF S # {} THEN Min(S) ELSE 0
                   IN  IF i = 0 THEN BADADDR ELSE s[i]
  BY Zenon DEF FirstOf, SelectInSeq
<1> HIDE DEF s
<1>3. S = {i \in {1, 2, 3} : s[i] # BADADDR}
  BY <1>1
<1> HIDE DEF S
<1>4. CASE S = {}
  BY <1>1, <1>2, <1>3, <1>4 DEF s
<1>5. CASE S # {}
  <2>1. S \in SUBSET Nat
    BY <1>3
  <2>2. Min(S) \in S /\ \A k \in S : Min(S) <= k
    BY <1>5, <2>1, MinDef
  <2>3. FirstOf(s) = s[Min(S)]
    BY <1>2, <1>3, <1>5, <2>2
  <2>4. Min(S) = IF a # BADADDR THEN 1 ELSE IF b # BADADDR THEN 2 ELSE 3
    BY <1>1, <1>3, <2>2
  <2> QED
    BY <1>1, <1>3, <2>2, <2>3, <2>4 DEF s
<1> QED
  BY <1>4, <1>5

\* A name that begins with no "0" is no address in hexadecimal.
LEMMA NameIsNoAddress ==
    ASSUME NEW q \in Seq(STRING), q[1] # "0"
    PROVE  HexAddress(q) = BADADDR
<1>1. ~(Len(q) > 2 /\ SubSeq(q, 1, 2) = <<"0", "x">>)
  <2>1. SUFFICES ASSUME Len(q) > 2, SubSeq(q, 1, 2) = <<"0", "x">>
                 PROVE  FALSE
    OBVIOUS
  <2>2. SubSeq(q, 1, 2)[1] = q[1]
    OBVIOUS
  <2>3. SubSeq(q, 1, 2)[1] = "0"
    <3>1. <<"0", "x">>[1] = "0"
      OBVIOUS
    <3> QED
      BY <2>1, <3>1, Zenon
  <2> QED
    BY <2>2, <2>3
<1> QED
  BY <1>1, Zenon DEF HexAddress

\* get_name_ea finds what bears the name.
LEMMA NameFound ==
    ASSUME base \in Database, NEW n \in Range(base.names)
    PROVE  NameAddress(n.name) = n.at /\ n.at \in Nat
<1> DEFINE names == base.names
           S == {i \in 1 .. Len(names) : names[i].name = n.name}
<1>1. /\ names \in Seq([at : Nat, name : Seq(STRING)])
      /\ \A m \in Range(names) : m.name = n.name => m = n
  BY DatabaseAssumption DEF DatabaseAssumption
<1>2. NameAddress(n.name) = LET i == IF S # {} THEN Min(S) ELSE 0
                            IN  IF i = 0 THEN BADADDR ELSE names[i].at
  BY Zenon DEF NameAddress, SelectInSeq
<1>3. n \in Range(names)
  OBVIOUS
<1> HIDE DEF names
<1> DEFINE E == [at : Nat, name : Seq(STRING)]
<1>4. PICK k \in 1 .. Len(names) : names[k] = n
  <2> HIDE DEF E
  <2> QED
    BY <1>1, <1>3, ElementsDef
<1>5. k \in S /\ S \in SUBSET Nat
  BY <1>4
<1>6. n.at \in Nat
  <2>1. names \in Seq(E)
    BY <1>1
  <2>2. n \in E
    <3> HIDE DEF E
    <3> QED
      BY <1>3, <2>1, ElementsDef
  <2> QED
    BY <2>2
<1> HIDE DEF S
<1>7. Min(S) \in S
  BY <1>5, MinDef
<1>8. names[Min(S)] \in Range(names) /\ names[Min(S)].name = n.name /\ Min(S) # 0
  <2>1. Min(S) \in 1 .. Len(names) /\ names[Min(S)].name = n.name
    BY <1>7 DEF S
  <2> HIDE DEF E
  <2>2. names \in Seq(E) /\ Len(names) \in Nat
    BY <1>1 DEF E
  <2> QED
    BY <2>1, <2>2, ElementsDef
<1>9. names[Min(S)] = n
  BY <1>1, <1>8
<1> QED
  BY <1>2, <1>5, <1>6, <1>8, <1>9

\* get_func finds the function that begins at an address.
LEMMA FunctionFound ==
    ASSUME base \in Database, NEW f \in Range(base.funcs)
    PROVE  /\ FunctionAt(f.at) \in DOMAIN base.funcs /\ FunctionAt(f.at) # 0
           /\ base.funcs[FunctionAt(f.at)].at = f.at
<1> DEFINE funcs == base.funcs
           S == {i \in 1 .. Len(funcs) : f.at \in funcs[i].at .. funcs[i].end - 1}
<1>1. /\ funcs \in Seq([at : Nat, end : Nat, name : Seq(STRING)])
      /\ f.at < f.end
      /\ \A g \in Range(funcs) \ {f} : f.end <= g.at \/ g.end <= f.at
  BY DatabaseAssumption DEF DatabaseAssumption
<1>2. FunctionAt(f.at) = IF S # {} THEN Min(S) ELSE 0
  BY Zenon DEF FunctionAt, SelectInSeq
<1>3. f \in Range(funcs)
  OBVIOUS
<1> HIDE DEF funcs
<1> DEFINE E == [at : Nat, end : Nat, name : Seq(STRING)]
<1>4. /\ Range(funcs) \subseteq E /\ Len(funcs) \in Nat /\ DOMAIN funcs = 1 .. Len(funcs)
      /\ \A i \in 1 .. Len(funcs) : funcs[i] \in Range(funcs)
      /\ \A e \in Range(funcs) : \E i \in 1 .. Len(funcs) : funcs[i] = e
  <2>1. funcs \in Seq(E)
    BY <1>1
  <2> HIDE DEF E
  <2> QED
    BY <2>1, ElementsDef
<1>5. PICK k \in 1 .. Len(funcs) : funcs[k] = f
  BY <1>3, <1>4
<1>6. f.at \in Nat /\ f.end \in Nat
  <2>1. f \in E
    BY <1>3, <1>4
  <2> QED
    BY <2>1
<1>7. f.at \in f.at .. f.end - 1
  BY <1>1, <1>6
<1>8. k \in S /\ S \in SUBSET Nat
  BY <1>5, <1>7
<1> HIDE DEF S
<1>9. Min(S) \in S
  BY <1>8, MinDef
<1> DEFINE m == Min(S)
           g == funcs[m]
<1>10. m \in 1 .. Len(funcs) /\ f.at \in g.at .. g.end - 1
  BY <1>9 DEF S
<1> HIDE DEF m
<1>11. g \in Range(funcs) /\ g.at \in Nat /\ g.end \in Nat
  <2>1. g \in Range(funcs)
    BY <1>10, <1>4
  <2>2. g \in E
    BY <1>4, <2>1
  <2> QED
    BY <2>1, <2>2
<1>12. g = f
  <2>1. g.at <= f.at /\ f.at <= g.end - 1
    BY <1>6, <1>10, <1>11
  <2>2. ~(f.end <= g.at) /\ ~(g.end <= f.at)
    <3>1. f.at < f.end
      BY <1>1
    <3> HIDE DEF g
    <3> QED
      BY <1>6, <1>11, <2>1, <3>1
  <2> QED
    BY <1>1, <1>11, <2>2
<1>13. DOMAIN funcs = 1 .. Len(funcs) /\ m # 0
  BY <1>10, <1>4
<1>14. FunctionAt(f.at) = m
  BY <1>2, <1>8 DEF m
<1> QED
  BY <1>10, <1>12, <1>13, <1>14 DEF funcs

\* lookup_funcs resolves a function's name to its address, unless it reads another
\* address out of it.
LEMMA FunctionNamed ==
    ASSUME base \in Database, NEW f \in Range(base.funcs), ~Misread(f)
    PROVE  LookupAddress(f.name) = f.at /\ f.name \notin {<<>>, <<"*">>}
<1>1. PICK n \in Range(base.names) : n.at = f.at /\ n.name = f.name
  BY DatabaseAssumption DEF DatabaseAssumption
<1>2. /\ n.name \in Seq(STRING) /\ n.name # <<>> /\ n.name[1] # "0"
      /\ "*" \notin Range(n.name)
  <2>1. base.names \in Seq([at : Nat, name : Seq(STRING)])
    BY DatabaseAssumption DEF DatabaseAssumption
  <2>2. n \in [at : Nat, name : Seq(STRING)]
    BY <2>1, ElementsDef
  <2> QED
    BY <2>2, DatabaseAssumption DEF DatabaseAssumption
<1>3. f.name # <<"*">>
  <2>1. "*" \in Range(<<"*">>)
    BY DEF Range
  <2> QED
    BY <1>1, <1>2, <2>1
<1>4. HexAddress(f.name) = BADADDR
  BY <1>1, <1>2, NameIsNoAddress
<1>5. NameAddress(f.name) = f.at /\ f.at \in Nat
  BY <1>1, NameFound
<1>6. SubAddress(f.name) \in {BADADDR, f.at}
  BY DEF Misread
<1>7. f.at # BADADDR
  BY <1>5 DEF BADADDR
<1>8. LookupAddress(f.name) = IF HexAddress(f.name) # BADADDR THEN HexAddress(f.name)
                              ELSE IF SubAddress(f.name) # BADADDR THEN SubAddress(f.name)
                              ELSE NameAddress(f.name)
  BY FirstOfThree DEF LookupAddress
<1> QED
  BY <1>1, <1>2, <1>3, <1>4, <1>5, <1>6, <1>7, <1>8

\* The entry that has a name, or one before it of the same name, is what is found.
FirstFound(entries, text, found) ==
    \A j \in DOMAIN entries : entries[j].name = text =>
        \E i \in 1 .. j : entries[i].name = text /\ found = <<entries[i].at>>

\* A resource finds the first entry of the name.
LEMMA FirstOfName ==
    ASSUME NEW E, NEW entries \in Seq(E), NEW text, NEW S,
           S = {i \in 1 .. Len(entries) : entries[i].name = text},
           NEW found,
           found = LET i == IF S # {} THEN Min(S) ELSE 0
                   IN  IF i # 0 THEN <<entries[i].at>> ELSE <<>>
    PROVE  FirstFound(entries, text, found)
<1>1. SUFFICES ASSUME NEW j \in DOMAIN entries, entries[j].name = text
               PROVE  \E i \in 1 .. j : entries[i].name = text /\ found = <<entries[i].at>>
  BY DEF FirstFound
<1>2. j \in S /\ S \in SUBSET Nat
  BY <1>1
<1>3. Min(S) \in S /\ Min(S) <= j
  BY <1>2, MinDef
<1>4. Min(S) \in 1 .. j /\ entries[Min(S)].name = text /\ Min(S) # 0
  BY <1>3
<1>5. found = <<entries[Min(S)].at>>
  BY <1>2, <1>4
<1> QED
  BY <1>4, <1>5

\* What was found of what was asked about, by each of the calls.
FoundOf(a, funcs, names, imports, entries, structs) ==
    /\ a.tool = "lookup_funcs" =>
         \A f \in Range(funcs) : a.about = f.name /\ ~Misread(f) => a.found = <<f.at>>
    /\ a.tool = "get_global_value" =>
         \A n \in Range(names) : a.about = n.name => a.found = <<n.at>>
    /\ a.tool = "import" /\ IsParameter(a.about) => FirstFound(imports, a.about, a.found)
    /\ a.tool = "export" /\ IsParameter(a.about) => FirstFound(entries, a.about, a.found)
    /\ a.tool = "struct" /\ IsParameter(a.about) => FirstFound(structs, a.about, a.found)
    /\ a.tool = "read_struct" /\ a.about # <<>> => FirstFound(structs, a.about, a.found)

\* Which part of the database a listing shows.
ListedOf(l, funcs, names, imports, entries, structs) ==
    /\ l.tool \in {"none", "list_funcs", "list_globals", "imports", "entrypoints", "search_structs"}
    /\ l.tool = "none" => l.page = <<>>
    /\ l.tool = "list_funcs" => Range(l.page) \subseteq Range(funcs)
    /\ l.tool = "list_globals" => Range(l.page) \subseteq Range(names)
    /\ l.tool = "imports" =>
         DOMAIN l.page = 1 .. Len(l.page) /\ Len(l.page) \in 0 .. Len(imports)
         /\ \A i \in DOMAIN l.page : l.page[i] = imports[i]
    /\ l.tool = "entrypoints" => l.page = entries
    /\ l.tool = "search_structs" =>
         /\ Range(l.page) \subseteq Range(structs)
         /\ \A t \in Range(structs) : \A e \in Range(l.page) :
               t.name = e.name => t \in Range(l.page)

NamedInv ==
    /\ base \in Database
    /\ FoundOf(answer, base.funcs, base.names, AllImports, base.entries, Structs)
    /\ ListedOf(listing, base.funcs, base.names, AllImports, base.entries, Structs)

\* The parts of the database are sequences.
LEMMA DatabaseParts ==
    ASSUME base \in Database
    PROVE  /\ base.funcs \in Seq([at : Nat, end : Nat, name : Seq(STRING)])
           /\ base.names \in Seq([at : Nat, name : Seq(STRING)])
           /\ base.entries \in Seq([at : Nat, name : Seq(STRING)])
           /\ Structs \in Seq([at : Nat, name : Seq(STRING), udt : BOOLEAN])
           /\ Globals \in Seq([at : Nat, name : Seq(STRING)])
           /\ AllImports \in Seq(Range(AllImports))
<1>1. /\ base.funcs \in Seq([at : Nat, end : Nat, name : Seq(STRING)])
      /\ base.names \in Seq([at : Nat, name : Seq(STRING)])
      /\ base.imports \in Seq(Seq([at : Nat, name : Seq(STRING), ordinal : Nat]))
      /\ base.entries \in Seq([at : Nat, name : Seq(STRING)])
      /\ base.types \in Seq([at : Nat, name : Seq(STRING), udt : BOOLEAN])
  BY DatabaseAssumption DEF DatabaseAssumption
<1>2. Structs \in Seq([at : Nat, name : Seq(STRING), udt : BOOLEAN])
  BY <1>1, SelectedDef DEF Structs
<1>3. Globals \in Seq([at : Nat, name : Seq(STRING)])
  BY <1>1, SelectedDef DEF Globals
<1>4. AllImports \in Seq(Range(AllImports))
  <2> DEFINE flat == FlattenSeq(base.imports)
             E == [at : Nat, name : Seq(STRING), ordinal : Nat]
  <2>1. flat \in Seq(E)
    <3>1. base.imports \in Seq(Seq(E))
      BY <1>1
    <3> HIDE DEF E
    <3> QED
      BY <3>1, FlattenType
  <2>2. DOMAIN AllImports = DOMAIN flat
    BY DEF AllImports
  <2> HIDE DEF flat, E
  <2>3. DOMAIN flat = 1 .. Len(flat) /\ Len(flat) \in Nat
    BY <2>1, ElementsDef
  <2>4. AllImports = [i \in 1 .. Len(flat) |-> AllImports[i]]
    BY <2>2, <2>3 DEF AllImports, flat
  <2>5. \A i \in 1 .. Len(flat) : AllImports[i] \in Range(AllImports)
    BY <2>2, <2>3 DEF Range
  <2> QED
    BY <2>3, <2>4, <2>5
<1> QED
  BY <1>1, <1>2, <1>3, <1>4

\* A page of what a filter keeps is of the data.
LEMMA FilteredIsOfData ==
    ASSUME NEW E, NEW data \in Seq(E), NEW pattern, NEW count \in Nat
    PROVE  /\ pattern_filter(data, pattern) \in Seq(E)
           /\ Range(paginate(pattern_filter(data, pattern), count)) \subseteq Range(data)
<1> DEFINE kept == {i \in DOMAIN data : Keeps(pattern, data[i].name)}
           some == pattern_filter(data, pattern)
           page == paginate(some, count)
<1>1. some \in Seq(E) /\ Range(some) \subseteq Range(data)
  <2>1. CASE pattern = <<>>
    BY <2>1 DEF pattern_filter
  <2>2. CASE pattern # <<>>
    <3>1. some = Selected(data, kept)
      BY <2>2 DEF pattern_filter
    <3> HIDE DEF kept, some
    <3>2. some \in Seq(E) /\ Range(some) = {data[i] : i \in {j \in DOMAIN data : j \in kept}}
      BY <3>1, SelectedDef
    <3> QED
      BY <3>2 DEF Range
  <2> QED
    BY <2>1, <2>2
<1> HIDE DEF some
<1>2. /\ \A i \in DOMAIN page : i \in DOMAIN some /\ page[i] = some[i]
  BY <1>1, PaginateDef
<1> HIDE DEF page
<1>3. Range(page) \subseteq Range(some)
  BY <1>2 DEF Range
<1> QED
  BY <1>1, <1>3 DEF page, some

\* A listing shows the part of the database that it is of.
LEMMA ListingIsOfPart ==
    ASSUME base \in Database, UNCHANGED base,
           \/ \E f \in Filter, n \in PageCount : ListFuncs(f, n) \/ ListGlobals(f, n)
           \/ \E n \in PageCount : Imports(n)
           \/ \E f \in Filter : SearchStructs(f)
           \/ Entrypoints
    PROVE  ListedOf(listing', base.funcs, base.names, AllImports, base.entries, Structs)
<1>1. PageCount \subseteq Nat
  BY FilterAssumption DEF FilterAssumption
<1>2. ASSUME NEW f \in Filter, NEW n \in PageCount, ListFuncs(f, n)
      PROVE  ListedOf(listing', base.funcs, base.names, AllImports, base.entries, Structs)
  <2>1. listing'.tool = "list_funcs"
        /\ listing'.page = paginate(pattern_filter(base.funcs, Effective(f)), n)
    BY <1>2 DEF ListFuncs, List
  <2>2. Range(listing'.page) \subseteq Range(base.funcs)
    BY <1>1, <2>1, DatabaseParts, FilteredIsOfData
  <2> QED
    BY <2>1, <2>2 DEF ListedOf
<1>3. ASSUME NEW f \in Filter, NEW n \in PageCount, ListGlobals(f, n)
      PROVE  ListedOf(listing', base.funcs, base.names, AllImports, base.entries, Structs)
  <2>1. listing'.tool = "list_globals"
        /\ listing'.page = paginate(pattern_filter(Globals, Effective(f)), n)
    BY <1>3 DEF ListGlobals, List
  <2>2. Range(listing'.page) \subseteq Range(Globals)
    BY <1>1, <2>1, DatabaseParts, FilteredIsOfData
  <2>3. Range(Globals) \subseteq Range(base.names)
    <3>1. Range(Globals) = {base.names[i] : i \in {j \in DOMAIN base.names :
                j \in {k \in DOMAIN base.names : FunctionAt(base.names[k].at) = 0}}}
      BY DatabaseParts, SelectedDef DEF Globals
    <3> QED
      BY <3>1 DEF Range
  <2> QED
    BY <2>1, <2>2, <2>3 DEF ListedOf
<1>4. ASSUME NEW n \in PageCount, Imports(n)
      PROVE  ListedOf(listing', base.funcs, base.names, AllImports, base.entries, Structs)
  <2> DEFINE page == paginate(AllImports, n)
             E == Range(AllImports)
  <2>1. listing'.tool = "imports" /\ listing'.page = page
    BY <1>4 DEF Imports, List
  <2>2. AllImports \in Seq(E)
    BY DatabaseParts
  <2> HIDE DEF E
  <2>3. /\ page \in Seq(E) /\ Len(page) <= Len(AllImports)
        /\ \A i \in DOMAIN page : page[i] = AllImports[i]
    BY <1>1, <2>2, PaginateDef
  <2> HIDE DEF page
  <2>4. DOMAIN page = 1 .. Len(page) /\ Len(page) \in Nat /\ Len(AllImports) \in Nat
    BY <2>2, <2>3, ElementsDef
  <2> QED
    BY <2>1, <2>3, <2>4 DEF ListedOf
<1>5. ASSUME NEW f \in Filter, SearchStructs(f)
      PROVE  ListedOf(listing', base.funcs, base.names, AllImports, base.entries, Structs)
  <2> DEFINE fits(name) == HasPart(to_lower(name), to_lower(f))
             kept == {i \in DOMAIN Structs : fits(Structs[i].name)}
             page == Selected(Structs, kept)
  <2>1. listing'.tool = "search_structs" /\ listing'.page = page
    BY <1>5 DEF SearchStructs, List
  <2>2. Range(page) = {Structs[i] : i \in {j \in DOMAIN Structs : j \in kept}}
    BY DatabaseParts, SelectedDef
  <2> HIDE DEF fits, page
  <2>3. Range(page) \subseteq Range(Structs) /\ \A e \in Range(page) : fits(e.name)
    BY <2>2 DEF Range
  <2>4. \A t \in Range(Structs) : fits(t.name) => t \in Range(page)
    BY <2>2 DEF Range
  <2>5. \A t \in Range(Structs) : \A e \in Range(page) : t.name = e.name => t \in Range(page)
    BY <2>3, <2>4
  <2> QED
    BY <2>1, <2>3, <2>5 DEF ListedOf
<1>6. ASSUME Entrypoints
      PROVE  ListedOf(listing', base.funcs, base.names, AllImports, base.entries, Structs)
  BY <1>6 DEF Entrypoints, List, ListedOf
<1> QED
  BY <1>2, <1>3, <1>4, <1>5, <1>6

\* A resource answers about the first entry of the name.
LEMMA ByNameFound ==
    ASSUME NEW E, NEW entries \in Seq(E), NEW resource, NEW text, ByName(resource, entries, text)
    PROVE  /\ answer'.tool = resource /\ answer'.about = text
           /\ IsParameter(text) => FirstFound(entries, text, answer'.found)
<1> DEFINE S == {i \in 1 .. Len(entries) : entries[i].name = text}
           k == IF S # {} THEN Min(S) ELSE 0
<1>1. Reply(resource, text, IF IsParameter(text) /\ k # 0 THEN <<entries[k].at>> ELSE <<>>)
  BY Zenon DEF ByName, SelectInSeq
<1> HIDE DEF S
<1>2. answer'.tool = resource /\ answer'.about = text
      /\ (IsParameter(text) => answer'.found = IF k # 0 THEN <<entries[k].at>> ELSE <<>>)
  BY <1>1 DEF Reply
<1>3. ASSUME IsParameter(text) PROVE FirstFound(entries, text, answer'.found)
  BY <1>2, <1>3, FirstOfName DEF S
<1> QED
  BY <1>2, <1>3

\* An answer is about the thing of the name.
LEMMA AnswerIsOfPart ==
    ASSUME base \in Database, NEW q,
           \/ LookupFuncs(q) \/ GetGlobalValue(q)
           \/ ImportByName(q) \/ ExportByName(q) \/ StructByName(q)
           \/ \E ea : ReadStruct(ea, q)
    PROVE  FoundOf(answer', base.funcs, base.names, AllImports, base.entries, Structs)
<1>1. CASE LookupFuncs(q)
  <2>1. ASSUME NEW f \in Range(base.funcs), q = f.name, ~Misread(f)
        PROVE  answer'.found = <<f.at>>
    <3>1. LookupAddress(q) = f.at /\ q \notin {<<>>, <<"*">>}
      BY <2>1, FunctionNamed
    <3>2. FunctionAt(f.at) # 0 /\ base.funcs[FunctionAt(f.at)].at = f.at
      BY FunctionFound
    <3> DEFINE i == FunctionAt(LookupAddress(q))
    <3>3. Reply("lookup_funcs", q,
                IF q \in {<<>>, <<"*">>}
                THEN [k \in DOMAIN paginate(base.funcs, AllCap) |-> base.funcs[k].at]
                ELSE IF i = 0 THEN <<>> ELSE <<base.funcs[i].at>>)
      BY <1>1 DEF LookupFuncs
    <3>4. i # 0 /\ base.funcs[i].at = f.at
      BY <3>1, <3>2
    <3> HIDE DEF i
    <3>5. Reply("lookup_funcs", q, <<base.funcs[i].at>>)
      BY <3>1, <3>3, <3>4
    <3> QED
      BY <3>4, <3>5 DEF Reply
  <2>2. answer'.tool = "lookup_funcs" /\ answer'.about = q
    BY <1>1 DEF LookupFuncs, Reply
  <2> QED
    BY <2>1, <2>2 DEF FoundOf
<1>2. CASE GetGlobalValue(q)
  <2>1. ASSUME NEW n \in Range(base.names), q = n.name
        PROVE  answer'.found = <<n.at>>
    <3>1. n.name \in Seq(STRING) /\ n.name[1] # "0"
      <4>1. base.names \in Seq([at : Nat, name : Seq(STRING)])
        BY DatabaseParts
      <4>2. n \in [at : Nat, name : Seq(STRING)]
        BY <4>1, ElementsDef
      <4> QED
        BY <4>2, DatabaseAssumption DEF DatabaseAssumption
    <3>2. HexAddress(q) = BADADDR
      BY <2>1, <3>1, NameIsNoAddress
    <3>3. NameAddress(q) = n.at /\ n.at \in Nat
      BY <2>1, NameFound
    <3>4. n.at # BADADDR
      BY <3>3 DEF BADADDR
    <3> DEFINE ea == FirstOf(<<HexAddress(q), NameAddress(q), PlainAddress(q)>>)
    <3>5. ea = n.at
      BY <3>2, <3>3, <3>4, FirstOfThree
    <3>6. Reply("get_global_value", q, IF ea = BADADDR THEN <<>> ELSE <<ea>>)
      BY <1>2 DEF GetGlobalValue
    <3> HIDE DEF ea
    <3> QED
      BY <3>4, <3>5, <3>6 DEF Reply
  <2>2. answer'.tool = "get_global_value" /\ answer'.about = q
    BY <1>2 DEF GetGlobalValue, Reply
  <2> QED
    BY <2>1, <2>2 DEF FoundOf
<1>3. CASE ImportByName(q)
  <2>1. answer'.tool = "import" /\ answer'.about = q
        /\ (IsParameter(q) => FirstFound(AllImports, q, answer'.found))
    BY <1>3, DatabaseParts, ByNameFound DEF ImportByName
  <2> QED
    BY <2>1 DEF FoundOf
<1>4. CASE ExportByName(q)
  <2>1. answer'.tool = "export" /\ answer'.about = q
        /\ (IsParameter(q) => FirstFound(base.entries, q, answer'.found))
    BY <1>4, DatabaseParts, ByNameFound DEF ExportByName
  <2> QED
    BY <2>1 DEF FoundOf
<1>5. CASE StructByName(q)
  <2>1. answer'.tool = "struct" /\ answer'.about = q
        /\ (IsParameter(q) => FirstFound(Structs, q, answer'.found))
    BY <1>5, DatabaseParts, ByNameFound DEF StructByName
  <2> QED
    BY <2>1 DEF FoundOf
<1>6. ASSUME NEW ea, ReadStruct(ea, q)
      PROVE  FoundOf(answer', base.funcs, base.names, AllImports, base.entries, Structs)
  <2> DEFINE struct == IF q = <<>> /\ ea # BADADDR THEN StructAt(ea) ELSE q
             S == {i \in 1 .. Len(Structs) : struct # <<>> /\ Structs[i].name = struct}
             k == IF S # {} THEN Min(S) ELSE 0
  <2>1. answer' = [tool |-> "read_struct", about |-> q,
                   found |-> IF k = 0 THEN <<>> ELSE <<Structs[k].at>>,
                   given |-> ea, read |-> IF k = 0 THEN BADADDR ELSE ea]
    BY <1>6, Zenon DEF ReadStruct, SelectInSeq
  <2>2. ASSUME q # <<>> PROVE S = {i \in 1 .. Len(Structs) : Structs[i].name = q}
    BY <2>2
  <2> HIDE DEF S
  <2>3. /\ answer'.tool = "read_struct" /\ answer'.about = q
        /\ answer'.found = IF k # 0 THEN <<Structs[k].at>> ELSE <<>>
    BY <2>1
  <2>4. q # <<>> => FirstFound(Structs, q, answer'.found)
    BY <2>2, <2>3, DatabaseParts, FirstOfName
  <2> QED
    BY <2>3, <2>4 DEF FoundOf
<1> QED
  BY <1>1, <1>2, <1>3, <1>4, <1>5, <1>6

\* Listings and answers stay what the database has under the names.
LEMMA NamedStep == ASSUME NamedInv, [Next]_vars PROVE NamedInv'
<1> DEFINE Lists == \/ \E f \in Filter, n \in PageCount : ListFuncs(f, n) \/ ListGlobals(f, n)
                    \/ \E n \in PageCount : Imports(n)
                    \/ \E f \in Filter : SearchStructs(f)
                    \/ Entrypoints
           Answers(q) == \/ LookupFuncs(q) \/ GetGlobalValue(q)
                         \/ ImportByName(q) \/ ExportByName(q) \/ StructByName(q)
                         \/ \E ea : ReadStruct(ea, q)
           Others == \/ \E text \in Number, size \in ByteCount : Convert(text, size)
                     \/ \E result \in Result : CallTool(result)
<1>1. base \in Database
  BY DEF NamedInv
<1>2. UNCHANGED base
  BY DEF Next, vars, List, ListFuncs, ListGlobals, Imports, SearchStructs, Entrypoints, Reply,
         LookupFuncs, GetGlobalValue, ByName, ImportByName, ExportByName, StructByName,
         ReadStruct, Convert, CallTool
<1>3. UNCHANGED <<AllImports, Structs>>
  BY <1>2 DEF AllImports, Structs
<1>4. Lists \/ (\E q : Answers(q)) \/ Others \/ UNCHANGED vars
  BY DEF Next
<1>5. FoundOf(answer', base.funcs, base.names, AllImports, base.entries, Structs)
  <2>1. CASE UNCHANGED answer
    BY <2>1 DEF NamedInv
  <2>2. CASE \E q : Answers(q)
    BY <1>1, <2>2, AnswerIsOfPart
  <2>3. CASE Others
    <3>1. answer'.tool \in {"int_convert", "tools/call"}
      BY <2>3 DEF Convert, CallTool
    <3> HIDE DEF Others
    <3> QED
      BY <3>1 DEF FoundOf
  <2>4. Lists => UNCHANGED answer
    BY DEF List, ListFuncs, ListGlobals, Imports, SearchStructs, Entrypoints
  <2> QED
    BY <1>4, <2>1, <2>2, <2>3, <2>4 DEF vars
<1>6. ListedOf(listing', base.funcs, base.names, AllImports, base.entries, Structs)
  <2>1. CASE UNCHANGED listing
    BY <2>1 DEF NamedInv
  <2>2. CASE Lists
    BY <1>1, <1>2, <2>2, ListingIsOfPart
  <2>3. (\E q : Answers(q)) \/ Others => UNCHANGED listing
    BY DEF Reply, LookupFuncs, GetGlobalValue, ByName, ImportByName, ExportByName,
           StructByName, ReadStruct, Convert, CallTool
  <2> QED
    BY <1>4, <2>1, <2>2, <2>3 DEF vars
<1> QED
  BY <1>1, <1>2, <1>3, <1>5, <1>6 DEF NamedInv

\* The listings and the answers are always of the database.
LEMMA NamedInvCorrect == Spec => []NamedInv
<1>1. Init => NamedInv
  BY DEF Init, None, NamedInv, FoundOf, ListedOf
<1> QED
  BY <1>1, NamedStep, PTL DEF Spec

\* For databases of any size: what a listing names can be asked about by that name,
\* and the answer is about a listed entry of the name (core.cpp tool_lookup_funcs,
\* memory.cpp tool_get_global_value, types.cpp tool_read_struct, resources.cpp).
THEOREM ListedIsFoundAlways == Spec => []ListedIsFound
<1>1. NamedInv => ListedIsFound
  <2>1. SUFFICES ASSUME NamedInv, NEW e \in Range(listing.page),
                        answer.tool \in Follows[listing.tool], answer.about = e.name,
                        Nameable(e)
                 PROVE  \E f \in Range(listing.page) : f.name = e.name /\ answer.found = <<f.at>>
    BY DEF ListedIsFound
  <2> DEFINE page == listing.page
  <2>2. /\ FoundOf(answer, base.funcs, base.names, AllImports, base.entries, Structs)
        /\ ListedOf(listing, base.funcs, base.names, AllImports, base.entries, Structs)
        /\ base \in Database
    BY <2>1 DEF NamedInv
  <2> DEFINE Pairs == {<<"list_funcs", "lookup_funcs">>, <<"list_globals", "get_global_value">>,
                       <<"imports", "import">>, <<"entrypoints", "export">>,
                       <<"search_structs", "struct">>, <<"search_structs", "read_struct">>}
  <2>3. CASE listing.tool = "list_funcs" /\ answer.tool = "lookup_funcs"
    <3>1. e \in Range(base.funcs) /\ ~Misread(e)
      BY <2>1, <2>2, <2>3 DEF ListedOf, Nameable
    <3>2. answer.found = <<e.at>>
      BY <2>1, <2>2, <2>3, <3>1 DEF FoundOf
    <3> QED
      BY <3>2
  <2>4. CASE listing.tool = "list_globals" /\ answer.tool = "get_global_value"
    <3>1. e \in Range(base.names)
      BY <2>2, <2>4 DEF ListedOf
    <3>2. answer.found = <<e.at>>
      BY <2>1, <2>2, <2>4, <3>1 DEF FoundOf
    <3> QED
      BY <3>2
  <2>5. CASE listing.tool = "imports" /\ answer.tool = "import"
    <3>1. FirstFound(AllImports, e.name, answer.found)
      BY <2>1, <2>2, <2>5 DEF FoundOf, Nameable
    <3>2. /\ DOMAIN page = 1 .. Len(page) /\ Len(page) \in 0 .. Len(AllImports)
          /\ \A i \in DOMAIN page : page[i] = AllImports[i]
      BY <2>2, <2>5 DEF ListedOf
    <3>3. DOMAIN AllImports = 1 .. Len(AllImports) /\ Len(AllImports) \in Nat
      BY <2>2, DatabaseParts, ElementsDef
    <3>4. PICK j \in DOMAIN page : page[j] = e
      BY DEF Range
    <3> HIDE DEF page
    <3>5. j \in DOMAIN AllImports /\ AllImports[j].name = e.name
      BY <3>2, <3>3, <3>4
    <3>6. PICK i \in 1 .. j : AllImports[i].name = e.name /\ answer.found = <<AllImports[i].at>>
      BY <3>1, <3>5 DEF FirstFound
    <3>7. i \in DOMAIN page /\ page[i] = AllImports[i]
      BY <3>2, <3>4, <3>6
    <3> QED
      BY <3>6, <3>7 DEF page, Range
  <2>6. CASE listing.tool = "entrypoints" /\ answer.tool = "export"
    <3>1. FirstFound(base.entries, e.name, answer.found)
      BY <2>1, <2>2, <2>6 DEF FoundOf, Nameable
    <3>2. page = base.entries
      BY <2>2, <2>6 DEF ListedOf
    <3>3. DOMAIN base.entries = 1 .. Len(base.entries) /\ Len(base.entries) \in Nat
      BY <2>2, DatabaseParts, ElementsDef
    <3>4. PICK j \in DOMAIN base.entries : base.entries[j] = e
      BY <3>2 DEF Range
    <3>5. PICK i \in 1 .. j : base.entries[i].name = e.name /\ answer.found = <<base.entries[i].at>>
      BY <3>1, <3>4 DEF FirstFound
    <3>6. i \in DOMAIN base.entries
      BY <3>3, <3>4, <3>5
    <3> QED
      BY <3>2, <3>5, <3>6 DEF Range
  <2>7. CASE listing.tool = "search_structs" /\ answer.tool \in {"struct", "read_struct"}
    <3>1. FirstFound(Structs, e.name, answer.found)
      BY <2>1, <2>2, <2>7 DEF FoundOf, Nameable
    <3>2. Range(page) \subseteq Range(Structs)
          /\ \A t \in Range(Structs) : t.name = e.name => t \in Range(page)
      BY <2>2, <2>7 DEF ListedOf
    <3>3. DOMAIN Structs = 1 .. Len(Structs) /\ Len(Structs) \in Nat
      BY <2>2, DatabaseParts, ElementsDef
    <3>4. PICK j \in DOMAIN Structs : Structs[j] = e
      BY <3>2 DEF Range
    <3>5. PICK i \in 1 .. j : Structs[i].name = e.name /\ answer.found = <<Structs[i].at>>
      BY <3>1, <3>4 DEF FirstFound
    <3>6. i \in DOMAIN Structs
      BY <3>3, <3>4, <3>5
    <3>7. Structs[i] \in Range(page)
      BY <3>2, <3>5, <3>6 DEF Range
    <3> QED
      BY <3>5, <3>7
  <2>8. <<listing.tool, answer.tool>> \in Pairs
    <3>1. listing.tool # "none"
      BY <2>1, <2>2 DEF ListedOf, Range
    <3>2. listing.tool \in {"list_funcs", "list_globals", "imports", "entrypoints", "search_structs"}
      BY <2>2, <3>1 DEF ListedOf
    <3> QED
      BY <2>1, <3>2 DEF Follows
  <2> QED
    BY <2>3, <2>4, <2>5, <2>6, <2>7, <2>8
<1> QED
  BY <1>1, NamedInvCorrect, PTL

-----------------------------------------------------------------------------
(* Globs                                                                    *)

\* A pattern and a text without stars.
Texts(P, T) ==
    /\ Len(P) \in Nat /\ DOMAIN P = 1 .. Len(P)
    /\ Len(T) \in Nat /\ \A i \in 1 .. Len(T) : T[i] # "*"

\* Whether the pattern from p on matches the text from t on.
Matches(P, T, p, t) ==
    \E cut \in [p - 1 .. Len(P) -> 0 .. Len(T)] :
        /\ cut[p - 1] = t - 1 /\ cut[Len(P)] = Len(T)
        /\ \A i \in p .. Len(P) :
              IF P[i] = "*" THEN cut[i] >= cut[i - 1]
              ELSE /\ cut[i] = cut[i - 1] + 1
                   /\ P[i] \in {"?", T[cut[i]]}

\* Whether the pattern's character p may stand for the text from t up to u.
Fits(P, T, p, t, u) ==
    IF P[p] = "*" THEN u >= t ELSE u = t + 1 /\ P[p] \in {"?", T[t]}

\* What is matched does not lie beyond the text.
LEMMA MatchBound ==
    ASSUME NEW P, NEW T, Texts(P, T), NEW p \in 1 .. Len(P) + 1, NEW t \in Int, Matches(P, T, p, t)
    PROVE  t \in 1 .. Len(T) + 1
<1>1. PICK cut \in [p - 1 .. Len(P) -> 0 .. Len(T)] : cut[p - 1] = t - 1
  BY DEF Matches
<1>2. p - 1 \in p - 1 .. Len(P) /\ Len(T) \in Nat
  BY DEF Texts
<1>3. t - 1 \in 0 .. Len(T)
  BY <1>1, <1>2
<1> QED
  BY <1>2, <1>3

\* The first character of a pattern fits, and the rest matches the rest.
LEMMA MatchFirst ==
    ASSUME NEW P, NEW T, Texts(P, T), NEW p \in 1 .. Len(P), NEW t \in Int, Matches(P, T, p, t)
    PROVE  \E u \in 1 .. Len(T) + 1 : Fits(P, T, p, t, u) /\ Matches(P, T, p + 1, u)
<1> DEFINE N == Len(P)
           L == Len(T)
<1>1. PICK cut \in [p - 1 .. N -> 0 .. L] :
        /\ cut[p - 1] = t - 1 /\ cut[N] = L
        /\ \A i \in p .. N :
              IF P[i] = "*" THEN cut[i] >= cut[i - 1]
              ELSE /\ cut[i] = cut[i - 1] + 1
                   /\ P[i] \in {"?", T[cut[i]]}
  BY DEF Matches
<1>2. N \in Nat /\ L \in Nat
  BY DEF Texts
<1> HIDE DEF N, L
<1>3. p \in p .. N /\ (p + 1) - 1 = p /\ p \in p - 1 .. N /\ p - 1 \in p - 1 .. N
  BY <1>2 DEF N
<1>4. cut[p] \in 0 .. L
  BY <1>1, <1>3
<1> DEFINE u == cut[p] + 1
           rest == [i \in p .. N |-> cut[i]]
<1>5. u \in 1 .. L + 1 /\ u - 1 = cut[p]
  BY <1>2, <1>4
<1>6. Fits(P, T, p, t, u)
  <2>1. IF P[p] = "*" THEN cut[p] >= cut[p - 1]
        ELSE cut[p] = cut[p - 1] + 1 /\ P[p] \in {"?", T[cut[p]]}
    BY <1>1, <1>3
  <2>2. CASE P[p] = "*"
    <3>1. u >= t
      BY <1>1, <1>2, <1>4, <2>1, <2>2
    <3> QED
      BY <2>2, <3>1 DEF Fits
  <2>3. CASE P[p] # "*"
    <3>1. cut[p] = t
      BY <1>1, <2>1, <2>3
    <3> QED
      BY <2>1, <2>3, <3>1 DEF Fits
  <2> QED
    BY <2>2, <2>3
<1>7. Matches(P, T, p + 1, u)
  <2>1. rest \in [(p + 1) - 1 .. N -> 0 .. L]
    BY <1>1, <1>3
  <2>2. N \in p .. N
    BY <1>2 DEF N
  <2>3. rest[(p + 1) - 1] = u - 1 /\ rest[N] = L
    BY <1>1, <1>3, <1>5, <2>2
  <2>4. \A i \in p + 1 .. N : i \in p .. N /\ i - 1 \in p .. N
    BY <1>2
  <2>5. \A i \in p + 1 .. N : rest[i] = cut[i] /\ rest[i - 1] = cut[i - 1]
    BY <2>4
  <2> HIDE DEF rest, u
  <2>6. \A i \in p + 1 .. N :
           IF P[i] = "*" THEN rest[i] >= rest[i - 1]
           ELSE /\ rest[i] = rest[i - 1] + 1
                /\ P[i] \in {"?", T[rest[i]]}
    BY <1>1, <2>4, <2>5
  <2> QED
    BY <2>1, <2>3, <2>6 DEF Matches, N, L
<1> HIDE DEF u
<1> QED
  BY <1>5, <1>6, <1>7 DEF L

\* A character that fits goes before a match of the rest.
LEMMA MatchRest ==
    ASSUME NEW P, NEW T, Texts(P, T), NEW p \in 1 .. Len(P), NEW t \in Nat \ {0}, NEW u \in Int,
           Fits(P, T, p, t, u), Matches(P, T, p + 1, u)
    PROVE  Matches(P, T, p, t)
<1> DEFINE N == Len(P)
           L == Len(T)
<1>1. N \in Nat /\ L \in Nat /\ p \in 1 .. N
  BY DEF Texts
<1>2. (p + 1) - 1 = p
  OBVIOUS
<1>3. PICK cut \in [p .. N -> 0 .. L] :
        /\ cut[p] = u - 1 /\ cut[N] = L
        /\ \A i \in p + 1 .. N :
              IF P[i] = "*" THEN cut[i] >= cut[i - 1]
              ELSE /\ cut[i] = cut[i - 1] + 1
                   /\ P[i] \in {"?", T[cut[i]]}
  BY <1>2 DEF Matches
<1> HIDE DEF N, L
<1> DEFINE all == [i \in p - 1 .. N |-> IF i = p - 1 THEN t - 1 ELSE cut[i]]
<1>4. p \in p .. N /\ cut[p] \in 0 .. L
  BY <1>1, <1>3
<1>5. t - 1 \in 0 .. L
  <2>1. u >= t
    BY DEF Fits
  <2> QED
    BY <1>1, <1>3, <1>4, <2>1
<1>6. \A i \in p - 1 .. N : i # p - 1 => i \in p .. N
  BY <1>1
<1>7. all \in [p - 1 .. N -> 0 .. L]
  BY <1>3, <1>5, <1>6
<1>8. p - 1 \in p - 1 .. N /\ N \in p - 1 .. N /\ N # p - 1
  BY <1>1
<1>9. all[p - 1] = t - 1 /\ all[N] = L
  BY <1>3, <1>8
<1>10. \A i \in p .. N : i \in p - 1 .. N /\ i # p - 1 /\ i - 1 \in p - 1 .. N
                         /\ (i # p => i - 1 # p - 1 /\ i \in p + 1 .. N)
  BY <1>1
<1>11. \A i \in p .. N : all[i] = cut[i] /\ (i # p => all[i - 1] = cut[i - 1])
  BY <1>10
<1> HIDE DEF all
<1>12. ASSUME NEW i \in p .. N
       PROVE  IF P[i] = "*" THEN all[i] >= all[i - 1]
              ELSE /\ all[i] = all[i - 1] + 1
                   /\ P[i] \in {"?", T[all[i]]}
  <2>1. CASE i # p
    BY <1>3, <1>10, <1>11, <2>1
  <2>2. CASE i = p
    <3>1. all[i] = u - 1 /\ all[i - 1] = t - 1
      BY <1>3, <1>9, <1>11, <2>2
    <3>2. CASE P[p] = "*"
      BY <2>2, <3>1, <3>2 DEF Fits
    <3>3. CASE P[p] # "*"
      <4>1. u = t + 1 /\ P[p] \in {"?", T[t]}
        BY <3>3 DEF Fits
      <4>2. all[i] = t /\ t = (t - 1) + 1
        BY <3>1, <4>1
      <4> QED
        BY <2>2, <3>1, <3>3, <4>1, <4>2
    <3> QED
      BY <3>2, <3>3
  <2> QED
    BY <2>1, <2>2
<1> QED
  BY <1>7, <1>9, <1>12 DEF Matches, N, L

\* Nothing of the pattern matches nothing of the text.
LEMMA MatchEnd ==
    ASSUME NEW P, NEW T, Texts(P, T), NEW t \in Int, Matches(P, T, Len(P) + 1, t)
    PROVE  t = Len(T) + 1
<1>1. Len(P) \in Nat /\ Len(T) \in Nat /\ (Len(P) + 1) - 1 = Len(P)
  BY DEF Texts
<1>2. PICK cut : cut[Len(P)] = t - 1 /\ cut[Len(P)] = Len(T)
  BY <1>1 DEF Matches
<1> QED
  BY <1>1, <1>2

\* At the end of the text, what is left of the pattern are stars.
LEMMA MatchStars ==
    ASSUME NEW P, NEW T, Texts(P, T), NEW p \in 1 .. Len(P) + 1
    PROVE  Matches(P, T, p, Len(T) + 1) <=> \A i \in p .. Len(P) : P[i] = "*"
<1> DEFINE N == Len(P)
           L == Len(T)
<1>1. N \in Nat /\ L \in Nat /\ p \in 1 .. N + 1
  BY DEF Texts
<1>2. ASSUME \A i \in p .. N : P[i] = "*" PROVE Matches(P, T, p, L + 1)
  <2> DEFINE cut == [i \in p - 1 .. N |-> L]
  <2> HIDE DEF N, L
  <2>1. cut \in [p - 1 .. N -> 0 .. L]
    BY <1>1
  <2>2. p - 1 \in p - 1 .. N /\ N \in p - 1 .. N /\ (L + 1) - 1 = L
    BY <1>1
  <2>3. cut[p - 1] = (L + 1) - 1 /\ cut[N] = L
    BY <2>2
  <2>4. \A i \in p .. N : i \in p - 1 .. N /\ i - 1 \in p - 1 .. N
    BY <1>1
  <2>5. \A i \in p .. N : cut[i] >= cut[i - 1]
    BY <1>1, <2>4
  <2> HIDE DEF cut
  <2> QED
    BY <1>2, <2>1, <2>3, <2>5 DEF Matches, N, L
<1>3. ASSUME Matches(P, T, p, L + 1) PROVE \A i \in p .. N : P[i] = "*"
  <2> DEFINE S == {k \in Nat : p + k <= N + 1 =>
                        Matches(P, T, p + k, L + 1) /\ \A i \in p .. p + k - 1 : P[i] = "*"}
  <2>1. 0 \in S
    <3>1. p + 0 = p /\ p .. p + 0 - 1 = {}
      BY <1>1
    <3> QED
      BY <1>3, <3>1
  <2>2. ASSUME NEW k \in Nat, k \in S PROVE k + 1 \in S
    <3>1. SUFFICES ASSUME p + (k + 1) <= N + 1
                   PROVE  /\ Matches(P, T, p + (k + 1), L + 1)
                          /\ \A i \in p .. p + (k + 1) - 1 : P[i] = "*"
      OBVIOUS
    <3> DEFINE q == p + k
    <3>2. q \in 1 .. N /\ q <= N + 1 /\ p + (k + 1) = q + 1 /\ p + (k + 1) - 1 = q /\ p + k - 1 = q - 1
      BY <1>1, <3>1
    <3>3. Matches(P, T, q, L + 1) /\ \A i \in p .. q - 1 : P[i] = "*"
      BY <2>2, <3>2
    <3> HIDE DEF q
    <3>4. PICK u \in 1 .. L + 1 : Fits(P, T, q, L + 1, u) /\ Matches(P, T, q + 1, u)
      <4>1. L + 1 \in Int
        BY <1>1
      <4> QED
        BY <3>2, <3>3, <4>1, MatchFirst
    <3>5. P[q] = "*" /\ u = L + 1
      <4> HIDE DEF L
      <4> QED
        BY <1>1, <3>4 DEF Fits
    <3>6. \A i \in p .. q : i = q \/ i \in p .. q - 1
      BY <1>1, <3>2
    <3> QED
      BY <3>2, <3>3, <3>4, <3>5, <3>6
  <2> HIDE DEF S
  <2>3. Nat \subseteq S
    BY <2>1, <2>2, Induction
  <2> DEFINE k == N + 1 - p
  <2>4. k \in Nat /\ p + k = N + 1 /\ p + k - 1 = N
    BY <1>1
  <2> HIDE DEF k
  <2>5. k \in S
    BY <2>3, <2>4
  <2> QED
    BY <2>4, <2>5 DEF S
<1> QED
  BY <1>2, <1>3

\* A part of the pattern without stars takes up as many characters as it has.
LEMMA MatchSegment ==
    ASSUME NEW P, NEW T, Texts(P, T), NEW a \in 1 .. Len(P) + 1, NEW k \in Nat, a + k <= Len(P) + 1,
           \A i \in a .. a + k - 1 : P[i] # "*",
           NEW t \in Int, Matches(P, T, a, t)
    PROVE  Matches(P, T, a + k, t + k)
<1> DEFINE S == {j \in Nat : j <= k => Matches(P, T, a + j, t + j)}
<1>1. Len(P) \in Nat
  BY DEF Texts
<1>2. 0 \in S
  <2>1. a + 0 = a /\ t + 0 = t
    OBVIOUS
  <2> QED
    BY <2>1
<1>3. ASSUME NEW j \in Nat, j \in S PROVE j + 1 \in S
  <2>1. SUFFICES ASSUME j + 1 <= k PROVE Matches(P, T, a + (j + 1), t + (j + 1))
    OBVIOUS
  <2>2. /\ a + j \in 1 .. Len(P) /\ t + j \in Int /\ j <= k /\ a + j \in a .. a + k - 1
        /\ a + (j + 1) = (a + j) + 1 /\ t + (j + 1) = (t + j) + 1
    BY <1>1, <2>1
  <2>3. Matches(P, T, a + j, t + j) /\ P[a + j] # "*"
    BY <1>3, <2>2
  <2> DEFINE q == a + j
             v == t + j
  <2>4. q \in 1 .. Len(P) /\ v \in Int /\ Matches(P, T, q, v) /\ P[q] # "*"
    BY <2>2, <2>3
  <2> HIDE DEF q, v
  <2>5. PICK u \in 1 .. Len(T) + 1 : Fits(P, T, q, v, u) /\ Matches(P, T, q + 1, u)
    BY <2>4, MatchFirst
  <2>6. u = v + 1
    BY <2>4, <2>5 DEF Fits
  <2> QED
    BY <2>2, <2>5, <2>6 DEF q, v
<1> HIDE DEF S
<1>4. Nat \subseteq S
  BY <1>2, <1>3, Induction
<1>5. k \in S
  BY <1>4
<1> QED
  BY <1>5 DEF S

\* What every round of the loop keeps: the pattern matches the text if what is left
\* of it matches what is left, or if the last star can be made to take up more.
\* Since that star the pattern has none, so it has stood for as many characters.
GlobInv(P, T, s) ==
    /\ s \in [p : 1 .. Len(P) + 1, t : 1 .. Len(T) + 1, star : 0 .. Len(P), from : 0 .. Len(T) + 1]
    /\ s.star < s.p /\ s.from <= s.t
    /\ s.star # 0 => /\ s.p - s.star - 1 = s.t - s.from
                     /\ \A i \in s.star + 1 .. s.p - 1 : P[i] # "*"
    /\ Matches(P, T, 1, 1) <=>
         \/ Matches(P, T, s.p, s.t)
         \/ s.star # 0 /\ \E u \in Nat : u > s.from /\ Matches(P, T, s.star + 1, u)

\* How far the loop has come.
Weight(T, s) == s.from * Len(T) + s.t + s.star

\* A character that matches is passed.
LEMMA RoundPasses ==
    ASSUME NEW P, NEW T, Texts(P, T), NEW s, GlobInv(P, T, s), s.t <= Len(T),
           s.p <= Len(P), P[s.p] \in {"?", T[s.t]},
           NEW r, r = [s EXCEPT !.p = s.p + 1, !.t = s.t + 1]
    PROVE  GlobInv(P, T, r) /\ Weight(T, r) > Weight(T, s) /\ r # s
<1> DEFINE p == s.p
           t == s.t
           star == s.star
           from == s.from
           N == Len(P)
           L == Len(T)
<1>1. /\ N \in Nat /\ L \in Nat /\ p \in 1 .. N /\ t \in 1 .. L /\ star \in 0 .. N /\ from \in 0 .. L + 1
      /\ star < p /\ from <= t
  BY DEF GlobInv, Texts
<1>2. r.p = p + 1 /\ r.t = t + 1 /\ r.star = star /\ r.from = from
  BY DEF GlobInv
<1>3. P[p] # "*"
  BY <1>1 DEF Texts
<1>4. Matches(P, T, p, t) <=> Matches(P, T, p + 1, t + 1)
  <2>1. ASSUME Matches(P, T, p, t) PROVE Matches(P, T, p + 1, t + 1)
    <3>1. PICK u \in 1 .. Len(T) + 1 : Fits(P, T, p, t, u) /\ Matches(P, T, p + 1, u)
      BY <1>1, <2>1, MatchFirst
    <3> QED
      BY <1>3, <3>1 DEF Fits
  <2>2. ASSUME Matches(P, T, p + 1, t + 1) PROVE Matches(P, T, p, t)
    <3>1. Fits(P, T, p, t, t + 1)
      BY <1>3 DEF Fits
    <3>2. p \in 1 .. Len(P) /\ t \in Nat \ {0} /\ t + 1 \in Int
      BY <1>1
    <3> HIDE DEF p, t
    <3> QED
      BY <2>2, <3>1, <3>2, MatchRest
  <2> QED
    BY <2>1, <2>2
<1>5. /\ star # 0 => p - star - 1 = t - from /\ \A i \in star + 1 .. p - 1 : P[i] # "*"
      /\ Matches(P, T, 1, 1) <=>
           \/ Matches(P, T, p, t)
           \/ star # 0 /\ \E u \in Nat : u > from /\ Matches(P, T, star + 1, u)
  BY DEF GlobInv
<1>6. r \in [p : 1 .. N + 1, t : 1 .. L + 1, star : 0 .. N, from : 0 .. L + 1]
  <2>1. p + 1 \in 1 .. N + 1 /\ t + 1 \in 1 .. L + 1
    BY <1>1, SMTT(30)
  <2>2. r = [p |-> p + 1, t |-> t + 1, star |-> star, from |-> from]
    BY DEF GlobInv
  <2> HIDE DEF p, t, star, from, N, L
  <2> QED
    BY <1>1, <2>1, <2>2
<1> HIDE DEF p, t, star, from, N, L
<1>7. star # 0 => /\ (p + 1) - star - 1 = (t + 1) - from
                  /\ \A i \in star + 1 .. (p + 1) - 1 : P[i] # "*"
  <2>1. \A i \in star + 1 .. (p + 1) - 1 : i = p \/ i \in star + 1 .. p - 1
    BY <1>1, SMTT(30)
  <2>2. p - star - 1 = t - from => (p + 1) - star - 1 = (t + 1) - from
    <3>1. p \in Int /\ star \in Int /\ t \in Int /\ from \in Int
      BY <1>1, SMTT(30)
    <3> QED
      BY <3>1, SMTT(30)
  <2> QED
    BY <1>3, <1>5, <2>1, <2>2
<1>8. GlobInv(P, T, r)
  <2>1. star < p + 1 /\ from <= t + 1
    BY <1>1, SMTT(30)
  <2> QED
    BY <1>2, <1>4, <1>5, <1>6, <1>7, <2>1 DEF GlobInv, N, L
<1>9. Weight(T, r) > Weight(T, s) /\ r # s
  <2>1. Weight(T, r) = from * L + (t + 1) + star /\ Weight(T, s) = from * L + t + star
    BY <1>2 DEF Weight, L, t, star, from
  <2> DEFINE x == from * L
  <2>2. x \in Int /\ t \in Int /\ star \in Int
    BY <1>1, SMTT(30)
  <2>3. r # s
    <3>1. r.t # s.t
      BY <1>1, <1>2 DEF t
    <3> QED
      BY <3>1, Zenon
  <2> HIDE DEF x
  <2>4. Weight(T, r) = x + (t + 1) + star /\ Weight(T, s) = x + t + star
    BY <2>1 DEF x
  <2>5. Weight(T, r) > Weight(T, s)
    BY <2>2, <2>4
  <2> QED
    BY <2>3, <2>5
<1> QED
  BY <1>8, <1>9

\* A star stands for no character at first.
LEMMA RoundStars ==
    ASSUME NEW P, NEW T, Texts(P, T), NEW s, GlobInv(P, T, s), s.t <= Len(T),
           s.p <= Len(P), P[s.p] = "*",
           NEW r, r = [s EXCEPT !.p = s.p + 1, !.star = s.p, !.from = s.t]
    PROVE  GlobInv(P, T, r) /\ Weight(T, r) > Weight(T, s) /\ r # s
<1> DEFINE p == s.p
           t == s.t
           star == s.star
           from == s.from
           N == Len(P)
           L == Len(T)
<1>1. /\ N \in Nat /\ L \in Nat /\ p \in 1 .. N /\ t \in 1 .. L /\ star \in 0 .. N /\ from \in 0 .. L + 1
      /\ star < p /\ from <= t
  BY DEF GlobInv, Texts
<1>2. r.p = p + 1 /\ r.t = t /\ r.star = p /\ r.from = t
  BY DEF GlobInv
<1>3. P[p] = "*"
  OBVIOUS
<1>4. /\ star # 0 => p - star - 1 = t - from /\ \A i \in star + 1 .. p - 1 : P[i] # "*"
      /\ Matches(P, T, 1, 1) <=>
           \/ Matches(P, T, p, t)
           \/ star # 0 /\ \E u \in Nat : u > from /\ Matches(P, T, star + 1, u)
  BY DEF GlobInv
<1>5. r \in [p : 1 .. N + 1, t : 1 .. L + 1, star : 0 .. N, from : 0 .. L + 1]
  <2>1. p + 1 \in 1 .. N + 1 /\ t \in 1 .. L + 1 /\ p \in 0 .. N /\ t \in 0 .. L + 1
    BY <1>1, SMTT(30)
  <2>2. r = [p |-> p + 1, t |-> t, star |-> p, from |-> t]
    BY DEF GlobInv
  <2> HIDE DEF p, t, star, from, N, L
  <2> QED
    BY <2>1, <2>2
<1> HIDE DEF p, t, star, from
<1>6. Matches(P, T, p, t) <=> \E u \in Nat : u >= t /\ Matches(P, T, p + 1, u)
  <2>1. ASSUME Matches(P, T, p, t) PROVE \E u \in Nat : u >= t /\ Matches(P, T, p + 1, u)
    <3>1. PICK u \in 1 .. Len(T) + 1 : Fits(P, T, p, t, u) /\ Matches(P, T, p + 1, u)
      BY <1>1, <2>1, MatchFirst
    <3> QED
      BY <1>1, <1>3, <3>1 DEF Fits
  <2>2. ASSUME NEW u \in Nat, u >= t, Matches(P, T, p + 1, u) PROVE Matches(P, T, p, t)
    <3>1. Fits(P, T, p, t, u)
      BY <1>3, <2>2 DEF Fits
    <3>2. p \in 1 .. Len(P) /\ t \in Nat \ {0} /\ u \in Int
      BY <1>1
    <3> QED
      BY <2>2, <3>1, <3>2, MatchRest
  <2> QED
    BY <2>1, <2>2
<1>7. ASSUME star # 0, NEW u \in Nat, u > from, Matches(P, T, star + 1, u)
      PROVE  Matches(P, T, p, t)
  <2> DEFINE k == p - star - 1
             v == u + k
  <2>1. k \in Nat /\ star + 1 \in 1 .. N + 1 /\ (star + 1) + k = p /\ p <= N + 1 /\ (star + 1) + k - 1 = p - 1
    <3>1. N \in Nat /\ p \in 1 .. N /\ star \in 0 .. N /\ star < p
      BY <1>1
    <3> HIDE DEF N, L
    <3>2. p - star - 1 \in Nat /\ (star + 1) + (p - star - 1) = p
      BY <3>1, SMTT(30)
    <3>3. star + 1 \in 1 .. N + 1 /\ p <= N + 1
      BY <3>1, SMTT(30)
    <3>4. (star + 1) + (p - star - 1) - 1 = p - 1
      BY <3>1
    <3> QED
      BY <3>2, <3>3, <3>4
  <2>2. \A i \in star + 1 .. (star + 1) + k - 1 : P[i] # "*"
    BY <1>4, <1>7, <2>1
  <2>3. k = t - from
    BY <1>4, <1>7
  <2> HIDE DEF k
  <2>4. Matches(P, T, p, u + k)
    <3> DEFINE a == star + 1
    <3>1. a \in 1 .. Len(P) + 1 /\ a + k <= Len(P) + 1 /\ a + k = p /\ u \in Int /\ k \in Nat
          /\ \A i \in a .. a + k - 1 : P[i] # "*"
      BY <2>1, <2>2
    <3>2. Matches(P, T, a, u)
      BY <1>7
    <3> HIDE DEF a
    <3> QED
      BY <3>1, <3>2, MatchSegment
  <2>5. PICK w \in 1 .. Len(T) + 1 : Fits(P, T, p, u + k, w) /\ Matches(P, T, p + 1, w)
    <3>1. p \in 1 .. Len(P) /\ u + k \in Int
      BY <1>1, <2>1
    <3> QED
      BY <2>4, <3>1, MatchFirst
  <2>6. w >= u + k
    BY <1>3, <2>5 DEF Fits
  <2>7. w \in Nat /\ w >= t
    <3>1. w \in Nat /\ u \in Nat /\ u > from /\ k \in Nat
      BY <1>1, <1>7, <2>1, <2>5
    <3> QED
      BY <1>1, <2>3, <2>6, <3>1
  <2> QED
    BY <1>6, <2>5, <2>7
<1>8. Matches(P, T, 1, 1) <=>
        \/ Matches(P, T, p + 1, t)
        \/ p # 0 /\ \E u \in Nat : u > t /\ Matches(P, T, p + 1, u)
  <2>1. Matches(P, T, 1, 1) <=> Matches(P, T, p, t)
    BY <1>4, <1>7
  <2>2. \A u \in Nat : u >= t <=> u = t \/ u > t
    BY <1>1, SMTT(30)
  <2>3. p # 0 /\ t \in Nat
    BY <1>1
  <2> QED
    BY <1>6, <2>1, <2>2, <2>3
<1>9. GlobInv(P, T, r)
  <2>1. p < p + 1 /\ t <= t /\ (p + 1) - p - 1 = t - t /\ p + 1 .. (p + 1) - 1 = {}
    BY <1>1, SMTT(30)
  <2> QED
    BY <1>2, <1>5, <1>8, <2>1 DEF GlobInv, N, L
<1>10. Weight(T, r) > Weight(T, s) /\ r # s
  <2>1. Weight(T, r) = t * L + t + p /\ Weight(T, s) = from * L + t + star
    BY <1>2 DEF Weight, L, t, star, from
  <2> HIDE DEF N, L
  <2>2. from * L \in Int /\ t * L \in Int /\ from * L <= t * L
    <3>1. (t - from) \in Nat /\ t = from + (t - from)
      BY <1>1, SMTT(30)
    <3>2. (t - from) * L \in Nat
      BY <1>1, <3>1
    <3>3. t * L = from * L + (t - from) * L
      BY <1>1
    <3>4. from * L \in Int
      BY <1>1, SMTT(30)
    <3> DEFINE x == from * L
               y == t * L
               z == (t - from) * L
    <3>5. z \in Nat /\ y = x + z /\ x \in Int
      BY <3>2, <3>3, <3>4
    <3> HIDE DEF x, y, z
    <3>6. x \in Int /\ y \in Int /\ x <= y
      BY <3>5
    <3> QED
      BY <3>6 DEF x, y
  <2>3. r # s
    <3>1. r.p # s.p
      BY <1>1, <1>2 DEF p
    <3> QED
      BY <3>1
  <2> DEFINE x == from * L
             y == t * L
  <2>4. x \in Int /\ y \in Int /\ x <= y /\ Weight(T, r) = y + t + p /\ Weight(T, s) = x + t + star
    BY <2>1, <2>2
  <2> HIDE DEF x, y
  <2>5. Weight(T, r) > Weight(T, s)
    BY <1>1, <2>4
  <2> QED
    BY <2>3, <2>5
<1> QED
  BY <1>9, <1>10

\* At a mismatch the last star takes up a character more.
LEMMA RoundRetries ==
    ASSUME NEW P, NEW T, Texts(P, T), NEW s, GlobInv(P, T, s), s.t <= Len(T),
           ~(s.p <= Len(P) /\ P[s.p] \in {"?", T[s.t]}), ~(s.p <= Len(P) /\ P[s.p] = "*"),
           s.star # 0,
           NEW r, r = [s EXCEPT !.p = s.star + 1, !.t = Retry(s), !.from = Retry(s)]
    PROVE  GlobInv(P, T, r) /\ Weight(T, r) > Weight(T, s) /\ r # s
<1> DEFINE p == s.p
           t == s.t
           star == s.star
           from == s.from
           N == Len(P)
           L == Len(T)
<1>1. /\ N \in Nat /\ L \in Nat /\ p \in 1 .. N + 1 /\ t \in 1 .. L /\ star \in 1 .. N
      /\ from \in 0 .. L + 1 /\ star < p /\ from <= t
  BY DEF GlobInv, Texts
<1>2. r.p = star + 1 /\ r.t = from + 1 /\ r.star = star /\ r.from = from + 1
  BY DEF GlobInv, Retry
<1>3. Matches(P, T, 1, 1) <=>
        \/ Matches(P, T, p, t)
        \/ star # 0 /\ \E u \in Nat : u > from /\ Matches(P, T, star + 1, u)
  BY DEF GlobInv
<1>4. r \in [p : 1 .. N + 1, t : 1 .. L + 1, star : 0 .. N, from : 0 .. L + 1]
  <2>1. star + 1 \in 1 .. N + 1 /\ from + 1 \in 1 .. L + 1 /\ star \in 0 .. N /\ from + 1 \in 0 .. L + 1
    <3>1. N \in Nat /\ L \in Nat /\ star \in 1 .. N /\ from \in 0 .. L
      BY <1>1, SMTT(30)
    <3> HIDE DEF star, from, N, L
    <3> QED
      BY <3>1, SMTT(30)
  <2>2. r = [p |-> star + 1, t |-> from + 1, star |-> star, from |-> from + 1]
    BY DEF GlobInv, Retry
  <2> HIDE DEF p, t, star, from, N, L
  <2> QED
    BY <2>1, <2>2
<1>5. ~Matches(P, T, p, t)
  <2>1. CASE p = N + 1
    <3>1. Matches(P, T, N + 1, t) => t = L + 1
      BY <1>1, MatchEnd
    <3> QED
      BY <1>1, <2>1, <3>1
  <2>2. CASE p # N + 1
    <3>1. p \in 1 .. N /\ p <= N
      BY <1>1, <2>2
    <3>2. P[p] # "*" /\ P[p] \notin {"?", T[t]}
      BY <3>1
    <3> HIDE DEF p, t
    <3>3. SUFFICES ASSUME Matches(P, T, p, t) PROVE FALSE
      OBVIOUS
    <3>4. PICK u : Fits(P, T, p, t, u)
      BY <1>1, <3>1, <3>3, MatchFirst
    <3> QED
      BY <3>2, <3>4 DEF Fits
  <2> QED
    BY <2>1, <2>2
<1> HIDE DEF p, t, star, from
<1>6. Matches(P, T, 1, 1) <=>
        \/ Matches(P, T, star + 1, from + 1)
        \/ star # 0 /\ \E u \in Nat : u > from + 1 /\ Matches(P, T, star + 1, u)
  <2>1. \A u \in Nat : u > from <=> u = from + 1 \/ u > from + 1
    BY <1>1, SMTT(30)
  <2>2. star # 0 /\ from + 1 \in Nat
    BY <1>1
  <2> QED
    BY <1>3, <1>5, <2>1, <2>2
<1>7. GlobInv(P, T, r)
  <2>1. /\ star < star + 1 /\ from + 1 <= from + 1 /\ (star + 1) - star - 1 = (from + 1) - (from + 1)
        /\ star + 1 .. (star + 1) - 1 = {}
    BY <1>1
  <2> QED
    BY <1>2, <1>4, <1>6, <2>1 DEF GlobInv, N, L
<1>8. Weight(T, r) > Weight(T, s) /\ r # s
  <2>1. Weight(T, r) = (from + 1) * L + (from + 1) + star /\ Weight(T, s) = from * L + t + star
    BY <1>2 DEF Weight, L, t, star, from
  <2> HIDE DEF N, L
  <2>2. from * L \in Int /\ (from + 1) * L = from * L + L
    BY <1>1, SMTT(30)
  <2>3. r # s
    <3>1. r.from # s.from
      BY <1>1, <1>2 DEF from
    <3> QED
      BY <3>1
  <2> DEFINE x == from * L
  <2>4. x \in Int /\ Weight(T, r) = (x + L) + (from + 1) + star /\ Weight(T, s) = x + t + star
    BY <2>1, <2>2
  <2> HIDE DEF x
  <2>5. Weight(T, r) > Weight(T, s)
    BY <1>1, <2>4
  <2> QED
    BY <2>3, <2>5
<1> QED
  BY <1>7, <1>8

\* A round keeps the invariant; the loop gets on or has come to its end.
LEMMA RoundStep ==
    ASSUME NEW P, NEW T, Texts(P, T), NEW s, GlobInv(P, T, s), NEW r, r = GlobRound(P, T, s)
    PROVE  /\ GlobInv(P, T, r)
           /\ r = s \/ (s.t <= Len(T) /\ Weight(T, r) > Weight(T, s))
<1>1. CASE s.t > Len(T)
  BY <1>1 DEF GlobRound
<1>2. CASE ~(s.t > Len(T)) /\ s.p <= Len(P) /\ P[s.p] \in {"?", T[s.t]}
  <2>1. r = [s EXCEPT !.p = s.p + 1, !.t = s.t + 1]
    BY <1>2 DEF GlobRound
  <2>2. s.t <= Len(T)
    BY <1>2 DEF GlobInv, Texts
  <2> QED
    BY <1>2, <2>1, <2>2, RoundPasses
<1>3. CASE ~(s.t > Len(T)) /\ ~(s.p <= Len(P) /\ P[s.p] \in {"?", T[s.t]})
           /\ s.p <= Len(P) /\ P[s.p] = "*"
  <2>1. r = [s EXCEPT !.p = s.p + 1, !.star = s.p, !.from = s.t]
    BY <1>3 DEF GlobRound
  <2>2. s.t <= Len(T)
    BY <1>3 DEF GlobInv, Texts
  <2> QED
    BY <1>3, <2>1, <2>2, RoundStars
<1>4. CASE ~(s.t > Len(T)) /\ ~(s.p <= Len(P) /\ P[s.p] \in {"?", T[s.t]})
           /\ ~(s.p <= Len(P) /\ P[s.p] = "*") /\ s.star # 0
  <2>1. r = [s EXCEPT !.p = s.star + 1, !.t = Retry(s), !.from = Retry(s)]
    BY <1>4 DEF GlobRound
  <2>2. s.t <= Len(T)
    BY <1>4 DEF GlobInv, Texts
  <2> QED
    BY <1>4, <2>1, <2>2, RoundRetries
<1>5. CASE ~(s.t > Len(T)) /\ ~(s.p <= Len(P) /\ P[s.p] \in {"?", T[s.t]})
           /\ ~(s.p <= Len(P) /\ P[s.p] = "*") /\ ~(s.star # 0)
  BY <1>5 DEF GlobRound
<1> QED
  BY <1>1, <1>2, <1>3, <1>4, <1>5

\* Where the loop ends the answer is right.
LEMMA RoundEnd ==
    ASSUME NEW P, NEW T, Texts(P, T), NEW s, GlobInv(P, T, s), GlobRound(P, T, s) = s
    PROVE  Matches(P, T, 1, 1) <=> s.t > Len(T) /\ \A i \in s.p .. Len(P) : P[i] = "*"
<1> DEFINE p == s.p
           t == s.t
           star == s.star
           from == s.from
           N == Len(P)
           L == Len(T)
<1>1. /\ N \in Nat /\ L \in Nat /\ p \in 1 .. N + 1 /\ t \in 1 .. L + 1 /\ star \in 0 .. N
      /\ from \in 0 .. L + 1 /\ star < p /\ from <= t
  BY DEF GlobInv, Texts
<1>2. /\ star # 0 => p - star - 1 = t - from /\ \A i \in star + 1 .. p - 1 : P[i] # "*"
      /\ Matches(P, T, 1, 1) <=>
           \/ Matches(P, T, p, t)
           \/ star # 0 /\ \E u \in Nat : u > from /\ Matches(P, T, star + 1, u)
  BY DEF GlobInv
<1>3. CASE t > L
  <2>1. t = L + 1
    <3> HIDE DEF t, L
    <3> QED
      BY <1>1, <1>3
  <2>2. ASSUME star # 0, NEW u \in Nat, u > from, Matches(P, T, star + 1, u)
        PROVE  FALSE
    <3> HIDE DEF p, t, star, from
    <3> DEFINE a == star + 1
               k == p - star - 1
    <3>1. a \in 1 .. N + 1 /\ a + k = p /\ a + k <= N + 1 /\ k \in Nat /\ a + k - 1 = p - 1
      <4>1. N \in Nat /\ p \in 1 .. N + 1 /\ star \in 0 .. N /\ star < p
        BY <1>1
      <4> HIDE DEF N, L
      <4>2. p - star - 1 \in Nat /\ (star + 1) + (p - star - 1) = p
        BY <4>1
      <4>3. star + 1 \in 1 .. N + 1 /\ p <= N + 1
        BY <4>1
      <4> QED
        BY <4>2, <4>3
    <3>2. k = t - from /\ \A i \in a .. a + k - 1 : P[i] # "*"
      BY <1>2, <2>2, <3>1
    <3>3. Matches(P, T, a, u) /\ u \in Int
      BY <2>2
    <3> HIDE DEF a, k
    <3>4. Matches(P, T, a + k, u + k)
      BY <3>1, <3>2, <3>3, MatchSegment
    <3>5. u + k \in Int /\ a + k \in 1 .. Len(P) + 1
      BY <1>1, <2>2, <3>1
    <3>6. u + k \in 1 .. L + 1
      BY <3>4, <3>5, MatchBound
    <3> HIDE DEF N, L
    <3> QED
      BY <1>1, <2>1, <2>2, <3>1, <3>2, <3>6
  <2>3. Matches(P, T, 1, 1) <=> Matches(P, T, p, L + 1)
    BY <1>2, <2>1, <2>2
  <2>4. Matches(P, T, p, L + 1) <=> \A i \in p .. N : P[i] = "*"
    BY <1>1, MatchStars
  <2> QED
    BY <1>3, <2>3, <2>4
<1>4. CASE ~(t > L)
  <2>1. t \in 1 .. L /\ t <= L
    <3> HIDE DEF t, L
    <3> QED
      BY <1>1, <1>4
  <2>2. ~(p <= N /\ P[p] \in {"?", T[t]})
    <3>1. SUFFICES ASSUME p <= N, P[p] \in {"?", T[t]} PROVE FALSE
      OBVIOUS
    <3>2. GlobRound(P, T, s) = [s EXCEPT !.p = s.p + 1, !.t = s.t + 1]
      BY <1>4, <3>1 DEF GlobRound
    <3> QED
      BY <2>1, <3>1, <3>2, RoundPasses
  <2>3. ~(p <= N /\ P[p] = "*")
    <3>1. SUFFICES ASSUME p <= N, P[p] = "*" PROVE FALSE
      OBVIOUS
    <3>2. GlobRound(P, T, s) = [s EXCEPT !.p = s.p + 1, !.star = s.p, !.from = s.t]
      BY <1>4, <2>2, <3>1 DEF GlobRound
    <3> QED
      BY <2>1, <3>1, <3>2, RoundStars
  <2>4. star = 0
    <3>1. SUFFICES ASSUME star # 0 PROVE FALSE
      OBVIOUS
    <3>2. GlobRound(P, T, s) = [s EXCEPT !.p = s.star + 1, !.t = Retry(s), !.from = Retry(s)]
      BY <1>4, <2>2, <2>3, <3>1 DEF GlobRound
    <3> QED
      BY <2>1, <2>2, <2>3, <3>1, <3>2, RoundRetries
  <2>5. ~Matches(P, T, p, t)
    <3>1. CASE p = N + 1
      <4>1. Matches(P, T, N + 1, t) => t = L + 1
        BY <1>1, MatchEnd
      <4> QED
        BY <1>1, <2>1, <3>1, <4>1
    <3>2. CASE p # N + 1
      <4>1. p \in 1 .. N /\ p <= N
        BY <1>1, <3>2
      <4>2. P[p] # "*" /\ P[p] \notin {"?", T[t]}
        BY <2>2, <2>3, <4>1
      <4> HIDE DEF p, t
      <4>3. SUFFICES ASSUME Matches(P, T, p, t) PROVE FALSE
        OBVIOUS
      <4>4. PICK u : Fits(P, T, p, t, u)
        BY <1>1, <4>1, <4>3, MatchFirst
      <4> QED
        BY <4>2, <4>4 DEF Fits
    <3> QED
      BY <3>1, <3>2
  <2> QED
    BY <1>2, <1>4, <2>4, <2>5
<1> QED
  BY <1>3, <1>4

\* The states of the loop.
Looped(P, T, loop) ==
    loop[0] = GlobStart /\ \A n \in Nat : loop[n + 1] = GlobRound(P, T, loop[n])

\* glob_match answers from the state after some rounds.
LEMMA GlobMatchDef ==
    ASSUME NEW P, NEW T, Texts(P, T)
    PROVE  \E loop : /\ Looped(P, T, loop)
                     /\ glob_match(P, T) <=>
                          LET end == loop[Rounds(P, T)]
                          IN  end.t > Len(T) /\ \A i \in end.p .. Len(P) : P[i] = "*"
<1> DEFINE V == [p : Int, t : Int, star : Int, from : Int]
           G == [n \in Nat |-> [s \in V |-> GlobRound(P, T, s)]]
           Eq(f) == f = [n \in Nat |-> IF n = 0 THEN GlobStart ELSE GlobRound(P, T, f[n - 1])]
<1>1. GlobStart \in V
  BY DEF GlobStart
<1>2. ASSUME NEW s \in V PROVE GlobRound(P, T, s) \in V
  <2>1. s.p + 1 \in Int /\ s.t + 1 \in Int /\ s.star + 1 \in Int /\ Retry(s) \in Int
    BY DEF Retry
  <2> QED
    BY <2>1 DEF GlobRound
<1> HIDE DEF V
<1>3. G \in [Nat -> [V -> V]]
  BY <1>2
<1>4. PICK f \in [Nat -> V] : Iterates(f, G, GlobStart)
  <2> HIDE DEF G
  <2> QED
    BY <1>1, <1>3, Iterate
<1>5. f[0] = GlobStart
  <2> HIDE DEF G
  <2> QED
    BY <1>4 DEF Iterates
<1>6. \A n \in Nat : f[n + 1] = GlobRound(P, T, f[n])
  <2>1. \A n \in Nat : f[n] \in V /\ f[n + 1] = G[n][f[n]]
    BY <1>4 DEF Iterates
  <2> QED
    BY <2>1
<1>7. Eq(f)
  <2>1. ASSUME NEW n \in Nat PROVE f[n] = IF n = 0 THEN GlobStart ELSE GlobRound(P, T, f[n - 1])
    <3>1. CASE n = 0
      BY <1>5, <3>1
    <3>2. CASE n # 0
      <4>1. n - 1 \in Nat /\ (n - 1) + 1 = n
        BY <3>2
      <4> QED
        BY <1>6, <3>2, <4>1
    <3> QED
      BY <3>1, <3>2
  <2> HIDE DEF G
  <2> QED
    BY <1>4, <2>1
<1> DEFINE loop == CHOOSE h : Eq(h)
<1>8. Eq(loop)
  <2> HIDE DEF Eq
  <2> QED
    BY <1>7
<1>9. glob_match(P, T) <=>
        LET end == loop[Rounds(P, T)]
        IN  end.t > Len(T) /\ \A i \in end.p .. Len(P) : P[i] = "*"
  BY DEF glob_match
<1> HIDE DEF loop
<1>10. \A n \in Nat : loop[n] = IF n = 0 THEN GlobStart ELSE GlobRound(P, T, loop[n - 1])
  BY <1>8, Zenon
<1> HIDE DEF Eq
<1>11. loop[0] = GlobStart
  BY <1>10
<1>12. ASSUME NEW n \in Nat PROVE loop[n + 1] = GlobRound(P, T, loop[n])
  <2>1. n + 1 \in Nat /\ n + 1 # 0 /\ (n + 1) - 1 = n
    OBVIOUS
  <2> QED
    BY <1>10, <2>1
<1>13. Looped(P, T, loop)
  BY <1>11, <1>12 DEF Looped
<1> QED
  BY <1>9, <1>13

\* A state has no further weight than the loop has room for.
LEMMA WeightBound ==
    ASSUME NEW P, NEW T, Texts(P, T), NEW s, GlobInv(P, T, s), s.t <= Len(T)
    PROVE  Weight(T, s) \in Nat /\ Weight(T, s) < Rounds(P, T) /\ Rounds(P, T) \in Nat
<1> DEFINE t == s.t
           star == s.star
           from == s.from
           N == Len(P)
           L == Len(T)
<1>1. /\ N \in Nat /\ L \in Nat /\ t \in 1 .. L /\ star \in 0 .. N /\ from \in 0 .. L
  BY DEF GlobInv, Texts
<1>2. Weight(T, s) = from * L + t + star /\ Rounds(P, T) = (L + 1) * (L + 1) + N
  BY DEF Weight, Rounds
<1> HIDE DEF t, star, from, N, L
<1> DEFINE x == from * L
           y == L * L
           z == (L + 1) * (L + 1)
<1>3. x \in Nat /\ y \in Nat /\ x <= y
  <2>1. L - from \in Nat /\ (L - from) * L \in Nat
    BY <1>1
  <2>2. L * L = from * L + (L - from) * L
    BY <1>1
  <2> QED
    BY <1>1, <2>1, <2>2
<1>4. z = y + L + L + 1
  BY <1>1
<1>5. Weight(T, s) = x + t + star /\ Rounds(P, T) = z + N
  BY <1>2
<1> HIDE DEF x, y, z
<1> QED
  BY <1>1, <1>3, <1>4, <1>5

\* The loop ends with the answer.
LEMMA GlobIsExact ==
    ASSUME NEW P, NEW T, Texts(P, T)
    PROVE  glob_match(P, T) <=> Matches(P, T, 1, 1)
<1>1. PICK loop : /\ Looped(P, T, loop)
                  /\ glob_match(P, T) <=>
                       LET end == loop[Rounds(P, T)]
                       IN  end.t > Len(T) /\ \A i \in end.p .. Len(P) : P[i] = "*"
  BY GlobMatchDef
<1> DEFINE ended(n) == loop[n + 1] = loop[n]
           S == {n \in Nat : GlobInv(P, T, loop[n])
                             /\ (ended(n) \/ (loop[n].t <= Len(T) /\ Weight(T, loop[n]) > n))}
<1>2. /\ loop[0] = GlobStart
      /\ \A n \in Nat : loop[n + 1] = GlobRound(P, T, loop[n])
  BY <1>1 DEF Looped
<1>3. Len(P) \in Nat /\ Len(T) \in Nat
  BY DEF Texts
<1>4. \A n \in Nat : GlobInv(P, T, loop[n]) =>
        /\ GlobInv(P, T, loop[n + 1])
        /\ ended(n) \/ (loop[n].t <= Len(T) /\ Weight(T, loop[n + 1]) > Weight(T, loop[n]))
  BY <1>2, RoundStep
<1>5. GlobInv(P, T, GlobStart)
  <2>1. GlobStart \in [p : 1 .. Len(P) + 1, t : 1 .. Len(T) + 1, star : 0 .. Len(P), from : 0 .. Len(T) + 1]
    BY <1>3 DEF GlobStart
  <2>2. /\ GlobStart.p = 1 /\ GlobStart.t = 1 /\ GlobStart.star = 0 /\ GlobStart.from = 0
    BY DEF GlobStart
  <2> QED
    BY <2>1, <2>2 DEF GlobInv
<1>6. 0 \in S
  <2>1. Weight(T, GlobStart) = 1
    <3>1. 0 * Len(T) = 0
      BY <1>3
    <3>2. Weight(T, GlobStart) = 0 * Len(T) + 1 + 0
      BY DEF GlobStart, Weight
    <3> QED
      BY <3>1, <3>2
  <2>2. GlobInv(P, T, loop[0]) /\ Weight(T, loop[0]) > 0
    BY <1>2, <1>5, <2>1
  <2>3. ended(0) \/ loop[0].t <= Len(T)
    BY <1>4, <2>2
  <2> QED
    BY <2>2, <2>3
<1>7. ASSUME NEW n \in Nat, n \in S PROVE n + 1 \in S
  <2>1. GlobInv(P, T, loop[n]) /\ (ended(n) \/ (loop[n].t <= Len(T) /\ Weight(T, loop[n]) > n))
    BY <1>7
  <2>2. GlobInv(P, T, loop[n + 1]) /\ n + 1 \in Nat
    BY <1>4, <2>1
  <2>3. CASE ended(n)
    <3>1. loop[(n + 1) + 1] = GlobRound(P, T, loop[n + 1])
      BY <1>2, <2>2
    <3>2. ended(n + 1)
      BY <1>2, <2>3, <3>1
    <3> QED
      BY <2>2, <3>2
  <2>4. CASE ~ended(n)
    <3>1. loop[n].t <= Len(T) /\ Weight(T, loop[n]) > n /\ Weight(T, loop[n + 1]) > Weight(T, loop[n])
      BY <1>4, <2>1, <2>4
    <3>2. Weight(T, loop[n]) \in Nat
      BY <2>1, <3>1, WeightBound
    <3>3. ended(n + 1) \/ loop[n + 1].t <= Len(T)
      BY <1>4, <2>2
    <3>4. CASE ended(n + 1)
      BY <2>2, <3>4
    <3>5. CASE loop[n + 1].t <= Len(T)
      <4>1. Weight(T, loop[n + 1]) \in Nat
        BY <2>2, <3>5, WeightBound
      <4>2. Weight(T, loop[n + 1]) > n + 1
        BY <3>1, <3>2, <4>1
      <4> QED
        BY <2>2, <3>5, <4>2
    <3> QED
      BY <3>3, <3>4, <3>5
  <2> QED
    BY <2>3, <2>4
<1> DEFINE last == Rounds(P, T)
<1>8. last \in Nat
  BY <1>3 DEF Rounds
<1>9. last \in S
  <2> HIDE DEF S
  <2> QED
    BY <1>6, <1>7, <1>8, Induction
<1>10. GlobInv(P, T, loop[last]) /\ ended(last)
  <2>1. GlobInv(P, T, loop[last])
        /\ (ended(last) \/ (loop[last].t <= Len(T) /\ Weight(T, loop[last]) > last))
    BY <1>9
  <2>2. SUFFICES ASSUME ~ended(last) PROVE FALSE
    BY <2>1
  <2>3. loop[last].t <= Len(T) /\ Weight(T, loop[last]) > last
    BY <2>1, <2>2
  <2>4. Weight(T, loop[last]) \in Nat /\ Weight(T, loop[last]) < last
    BY <2>1, <2>3, WeightBound
  <2> HIDE DEF last
  <2> QED
    BY <1>8, <2>3, <2>4
<1>11. GlobRound(P, T, loop[last]) = loop[last]
  BY <1>2, <1>8, <1>10
<1> QED
  BY <1>1, <1>10, <1>11, RoundEnd

-----------------------------------------------------------------------------
(* Filters                                                                  *)

\* A glob matches when its parts do from the beginning.
LEMMA MatchesGlobDef ==
    ASSUME NEW P, NEW T, Texts(P, T)
    PROVE  MatchesGlob(P, T) <=> Matches(P, T, 1, 1)
<1>1. 1 - 1 = 0 /\ DOMAIN P = 1 .. Len(P)
  BY DEF Texts
<1> QED
  BY <1>1, Zenon DEF MatchesGlob, Matches

\* glob_match finds a match whenever there is one, of any pattern and any text
\* without stars: going back to the last star alone is enough, and the loop comes to
\* its end (utils.cpp glob_match).
THEOREM GlobMatchIsExact ==
    ASSUME NEW pattern \in Seq(STRING), NEW text \in Seq(STRING), "*" \notin Range(text)
    PROVE  glob_match(pattern, text) <=> MatchesGlob(pattern, text)
<1>1. Texts(pattern, text)
  BY DEF Texts, Range
<1> QED
  BY <1>1, GlobIsExact, MatchesGlobDef

\* to_lower takes each character for itself and leaves no star that was none.
LEMMA ToLowerDef ==
    ASSUME NEW text \in Seq(STRING)
    PROVE  /\ Len(to_lower(text)) = Len(text) /\ DOMAIN to_lower(text) = 1 .. Len(text)
           /\ Len(text) \in Nat
           /\ "*" \notin Range(text) => \A i \in 1 .. Len(text) : to_lower(text)[i] # "*"
<1> DEFINE low == to_lower(text)
<1>1. Len(text) \in Nat /\ DOMAIN text = 1 .. Len(text)
  OBVIOUS
<1>2. low = [i \in 1 .. Len(text) |-> low[i]]
  BY <1>1 DEF to_lower
<1>3. \A i \in 1 .. Len(text) : low[i] = IF text[i] \in DOMAIN LowerOf THEN LowerOf[text[i]] ELSE text[i]
  BY <1>1 DEF to_lower
<1>4. "*" \notin Range(text) => \A i \in 1 .. Len(text) : low[i] # "*"
  BY <1>1, <1>3, TextToolsAssumption DEF TextToolsAssumption, Range
<1> HIDE DEF low
<1>5. Len(low) = Len(text) /\ DOMAIN low = 1 .. Len(text)
  BY <1>1, <1>2
<1> QED
  BY <1>1, <1>4, <1>5 DEF low

\* Some successive elements of a sequence.
LEMMA SubSeqDef ==
    ASSUME NEW E, NEW seq \in Seq(E), NEW n \in Nat, NEW i \in 0 .. Len(seq) - n
    PROVE  /\ \A j \in 1 .. n : i + j \in 1 .. Len(seq)
           /\ SubSeq(seq, i + 1, i + n) = [j \in 1 .. n |-> seq[i + j]]
<1> DEFINE L == Len(seq)
           sub == SubSeq(seq, i + 1, i + n)
<1>1. L \in Nat /\ i \in 0 .. L - n
  OBVIOUS
<1> HIDE DEF L
<1>2. i \in Nat /\ i + n <= L
  BY <1>1
<1>3. \A j \in 1 .. n : (i + 1) + j - 1 = i + j /\ i + j \in 1 .. L
  BY <1>1, <1>2
<1>4. i + 1 \in Int /\ i + n \in Int /\ i + 1 <= (i + n) + 1 /\ (i + n) - (i + 1) + 1 = n
  BY <1>2
<1>5. i + 1 \in 1 .. L + 1 /\ i + n \in i .. L
  BY <1>1, <1>2
<1>6. /\ sub \in Seq(E) /\ Len(sub) = n
      /\ \A j \in 1 .. n : sub[j] = seq[i + j]
  BY <1>1, <1>2, <1>3, <1>4, <1>5, SubSeqProperties DEF L
<1>7. sub = [j \in 1 .. n |-> sub[j]]
  BY <1>6
<1> HIDE DEF sub
<1>8. sub = [j \in 1 .. n |-> seq[i + j]]
  BY <1>6, <1>7
<1> QED
  BY <1>3, <1>8 DEF L, sub

\* A part of a text stays one when the case is left aside.
LEMMA PartWhateverCase ==
    ASSUME NEW text \in Seq(STRING), NEW part \in Seq(STRING), HasPart(text, part)
    PROVE  HasPart(to_lower(text), to_lower(part))
<1> DEFINE L == Len(text)
           n == Len(part)
           low == to_lower(text)
           lpart == to_lower(part)
           lower(c) == IF c \in DOMAIN LowerOf THEN LowerOf[c] ELSE c
<1>1. PICK i \in 0 .. L - n : SubSeq(text, i + 1, i + n) = part
  BY DEF HasPart
<1>2. /\ L \in Nat /\ n \in Nat /\ DOMAIN text = 1 .. L /\ DOMAIN part = 1 .. n
      /\ part = [j \in 1 .. n |-> part[j]]
  OBVIOUS
<1>3. Len(low) = L /\ Len(lpart) = n
  BY ToLowerDef
<1>4. low = [j \in 1 .. L |-> lower(text[j])] /\ lpart = [j \in 1 .. n |-> lower(part[j])]
  BY <1>2 DEF to_lower
<1>5. \A j \in 1 .. n : part[j] = text[i + j] /\ i + j \in 1 .. L
  <2>1. /\ \A j \in 1 .. n : i + j \in 1 .. L
        /\ SubSeq(text, i + 1, i + n) = [j \in 1 .. n |-> text[i + j]]
    <3>1. n \in Nat /\ i \in 0 .. Len(text) - n
      BY <1>1, <1>2
    <3> HIDE DEF n
    <3> QED
      BY <3>1, SubSeqDef DEF L
  <2> HIDE DEF L, n
  <2> QED
    BY <1>1, <2>1
<1> HIDE DEF L, n, low, lpart, lower
<1>6. \A j \in 1 .. n : lpart[j] = low[i + j]
  BY <1>2, <1>4, <1>5
<1>7. SubSeq(low, i + 1, i + n) = lpart
  <2>1. low \in Seq(Range(low))
    <3> DEFINE R == Range(low)
    <3>1. \A j \in 1 .. L : low[j] \in R
      BY <1>4 DEF Range
    <3> HIDE DEF R
    <3>2. low \in [1 .. L -> R] /\ L \in Nat
      BY <1>2, <1>4, <3>1
    <3>3. low \in Seq(R)
      BY <3>2
    <3> QED
      BY <3>3 DEF R
  <2>2. SubSeq(low, i + 1, i + n) = [j \in 1 .. n |-> low[i + j]]
    <3>1. n \in Nat /\ i \in 0 .. Len(low) - n
      BY <1>1, <1>2, <1>3
    <3> QED
      BY <2>1, <3>1, SubSeqDef
  <2>3. lpart = [j \in 1 .. n |-> lpart[j]]
    BY <1>4
  <2> QED
    BY <1>6, <2>2, <2>3
<1>8. \E k \in 0 .. Len(low) - Len(lpart) : SubSeq(low, k + 1, k + Len(lpart)) = lpart
  BY <1>1, <1>3, <1>7
<1> QED
  BY <1>8, Zenon DEF HasPart, low, lpart

\* What is between the slashes of a pattern.
LEMMA RegexBodyDef ==
    ASSUME NEW pattern \in Seq(STRING), InSlashes(pattern)
    PROVE  RegexBody(pattern) \in Seq(STRING)
<1> DEFINE L == Len(pattern)
           Slash(i) == pattern[i] = "/" /\ \A j \in i + 1 .. L : pattern[j] # "/"
           T == {k \in Nat : k < L /\ pattern[L - k] = "/"}
<1>1. L \in Nat /\ L >= 2 /\ pattern[1] = "/" /\ LastSlash(pattern) > 1
  BY DEF InSlashes
<1>2. PICK k \in T : \A j \in T : k <= j
  <2>1. L - 1 \in T
    <3>1. L - (L - 1) = 1 /\ L - 1 \in Nat /\ L - 1 < L
      BY <1>1
    <3> QED
      BY <1>1, <3>1
  <2>2. T \in SUBSET Nat /\ T # {}
    BY <2>1
  <2> HIDE DEF T
  <2> QED
    BY <2>2, Least
<1>3. k \in Nat /\ k < L /\ pattern[L - k] = "/"
  BY <1>2
<1>4. L - k \in 1 .. L /\ Slash(L - k)
  <2>1. ASSUME NEW j \in (L - k) + 1 .. L PROVE pattern[j] # "/"
    <3>1. L - j \in Nat /\ L - j < L /\ ~(k <= L - j) /\ L - (L - j) = j
      BY <1>1, <1>3, <2>1
    <3>2. L - j \notin T
      BY <1>2, <3>1
    <3> QED
      BY <3>1, <3>2
  <2> HIDE DEF T
  <2> QED
    BY <1>1, <1>3, <2>1
<1>5. LastSlash(pattern) = CHOOSE i \in 1 .. L : Slash(i)
  BY DEF LastSlash
<1> HIDE DEF Slash, T
<1>6. LastSlash(pattern) \in 1 .. L
  BY <1>4, <1>5
<1> DEFINE m == LastSlash(pattern)
<1> HIDE DEF m, L
<1>7. m \in 1 .. L
  BY <1>6 DEF m
<1>8. \A i \in 2 .. m - 1 : i \in 1 .. L
  BY <1>1, <1>7
<1>9. m - 1 \in Int /\ 2 \in Int
  BY <1>1, <1>7
<1>10. SubSeq(pattern, 2, m - 1) \in Seq(STRING)
  BY <1>8, <1>9, SubSeqProperties DEF L
<1> QED
  BY <1>10 DEF RegexBody, m

\* pattern_filter keeps the names that are wanted.
LEMMA KeepsWanted ==
    ASSUME NEW filter \in Seq(STRING), NEW name \in Seq(STRING), "*" \notin Range(name)
    PROVE  Keeps(filter, name) <=> Wanted(filter, name)
<1> DEFINE body == RegexBody(filter)
           flags == RegexFlags(filter)
<1>1. CASE InSlashes(filter) /\ ValidRegex(body)
  <2>1. IgnoresCase(flags) <=> flags = <<>> \/ "i" \in Range(flags)
    BY DEF IgnoresCase, Range
  <2>2. HasPart(name, body) => HasPart(to_lower(name), to_lower(body))
    BY <1>1, RegexBodyDef, PartWhateverCase
  <2>3. Keeps(filter, name) <=> IF IgnoresCase(flags) THEN HasPart(to_lower(name), to_lower(body))
                                ELSE HasPart(name, body)
    BY <1>1 DEF Keeps, regex_search
  <2>4. Wanted(filter, name) <=>
          \/ HasPart(name, body)
          \/ (flags = <<>> \/ "i" \in Range(flags)) /\ HasPart(to_lower(name), to_lower(body))
    BY <1>1 DEF Wanted
  <2> QED
    BY <2>1, <2>2, <2>3, <2>4
<1>2. CASE ~(InSlashes(filter) /\ ValidRegex(body))
  <2> DEFINE P == to_lower(filter)
             T == to_lower(name)
  <2>1. (\E i \in DOMAIN filter : filter[i] \in {"*", "?"}) <=> Range(filter) \cap {"*", "?"} # {}
    BY DEF Range
  <2>2. Texts(P, T)
    BY ToLowerDef DEF Texts
  <2>3. glob_match(P, T) <=> MatchesGlob(P, T)
    BY <2>2, GlobIsExact, MatchesGlobDef
  <2>4. CASE \E i \in DOMAIN filter : filter[i] \in {"*", "?"}
    <3>1. Keeps(filter, name) <=> glob_match(P, T)
      BY <1>2, <2>4 DEF Keeps
    <3>2. Wanted(filter, name) <=> MatchesGlob(P, T)
      BY <1>2, <2>1, <2>4 DEF Wanted
    <3> QED
      BY <2>3, <3>1, <3>2
  <2>5. CASE ~ \E i \in DOMAIN filter : filter[i] \in {"*", "?"}
    <3>1. Keeps(filter, name) <=> HasPart(T, P)
      BY <1>2, <2>5 DEF Keeps
    <3>2. Wanted(filter, name) <=> HasPart(T, P)
      BY <1>2, <2>1, <2>5 DEF Wanted
    <3> QED
      BY <3>1, <3>2
  <2> QED
    BY <2>4, <2>5
<1> QED
  BY <1>1, <1>2

\* No filter and a star want every name.
LEMMA AllWanted ==
    ASSUME NEW filter \in {<<>>, <<"*">>}, NEW name \in Seq(STRING)
    PROVE  Wanted(filter, name)
<1> DEFINE P == to_lower(filter)
           T == to_lower(name)
<1>1. ~InSlashes(filter)
  BY DEF InSlashes
<1>2. Len(T) = Len(name) /\ Len(T) \in Nat
  BY ToLowerDef
<1>3. CASE filter = <<>>
  <2>1. Range(filter) = {}
    BY <1>3 DEF Range
  <2>2. P = <<>>
    BY <1>3 DEF to_lower
  <2>3. HasPart(T, <<>>)
    <3>1. Len(<<>>) = 0 /\ 0 \in 0 .. Len(T) - 0
      BY <1>2
    <3>2. SubSeq(T, 0 + 1, 0 + 0) = <<>>
      BY SubSeqEmpty
    <3> QED
      BY <3>1, <3>2 DEF HasPart
  <2> QED
    BY <1>1, <2>1, <2>2, <2>3 DEF Wanted
<1>4. CASE filter = <<"*">>
  <2>1. "*" \in Range(filter)
    BY <1>4 DEF Range
  <2>2. Len(P) = 1 /\ DOMAIN P = 1 .. 1 /\ P[1] = "*"
    <3>1. "*" \notin DOMAIN LowerOf
      BY TextToolsAssumption DEF TextToolsAssumption
    <3>2. Len(filter) = 1 /\ filter[1] = "*" /\ DOMAIN filter = 1 .. 1
      BY <1>4
    <3>3. P[1] = "*"
      BY <3>1, <3>2 DEF to_lower
    <3>4. P = [i \in 1 .. 1 |-> P[i]]
      BY <3>2 DEF to_lower
    <3> HIDE DEF P
    <3> QED
      BY <3>3, <3>4
  <2> DEFINE N == Len(T)
             cut == [i \in 0 .. 1 |-> IF i = 0 THEN 0 ELSE N]
  <2>3. cut \in [0 .. 1 -> 0 .. N] /\ cut[0] = 0 /\ cut[1] = N /\ cut[1] >= cut[1 - 1]
    <3> HIDE DEF N, T
    <3>1. N \in Nat
      BY <1>2 DEF N
    <3> QED
      BY <3>1
  <2> HIDE DEF cut
  <2>4. MatchesGlob(P, T)
    <3> HIDE DEF P, T
    <3>1. /\ cut \in [0 .. Len(P) -> 0 .. Len(T)]
          /\ cut[0] = 0 /\ cut[Len(P)] = Len(T)
          /\ \A i \in DOMAIN P : P[i] = "*" /\ cut[i] >= cut[i - 1]
      BY <2>2, <2>3
    <3> QED
      BY <3>1 DEF MatchesGlob
  <2> QED
    BY <1>1, <2>1, <2>4 DEF Wanted
<1> QED
  BY <1>3, <1>4

\* A page of exactly the wanted entries.
IsExact(page, all, filter, count) ==
    LET wanted == Selected(all, {i \in DOMAIN all : Wanted(filter, all[i].name)})
    IN  IsPrefix(page, wanted) /\ (page = wanted \/ Len(page) = count)

\* The filter keeps them in order and the page begins with the first.
LEMMA PageIsExact ==
    ASSUME NEW E, NEW all \in Seq(E), NEW filter \in Seq(STRING), NEW count \in Nat,
           \A i \in DOMAIN all : all[i].name \in Seq(STRING) /\ "*" \notin Range(all[i].name)
    PROVE  IsExact(paginate(pattern_filter(all, Effective(filter)), count), all, filter, count)
<1> DEFINE kept == {i \in DOMAIN all : Wanted(filter, all[i].name)}
           wanted == Selected(all, kept)
           page == paginate(wanted, count)
<1>1. pattern_filter(all, Effective(filter)) = wanted
  <2>1. CASE filter \in {<<>>, <<"*">>}
    <3>1. Effective(filter) = <<>>
      BY <2>1 DEF Effective
    <3>2. DOMAIN all \subseteq kept
      BY <2>1, AllWanted
    <3> HIDE DEF kept
    <3>3. wanted = all
      BY <3>2, SelectedAll
    <3> QED
      BY <3>1, <3>3 DEF pattern_filter
  <2>2. CASE filter \notin {<<>>, <<"*">>}
    <3>1. Effective(filter) = filter /\ filter # <<>>
      BY <2>2 DEF Effective
    <3>2. {i \in DOMAIN all : Keeps(filter, all[i].name)} = kept
      BY KeepsWanted
    <3> QED
      BY <3>1, <3>2 DEF pattern_filter
  <2> QED
    BY <2>1, <2>2
<1>2. wanted \in Seq(E)
  BY SelectedDef
<1> HIDE DEF kept, wanted
<1>3. /\ page \in Seq(E) /\ Len(page) <= Len(wanted)
      /\ \A i \in DOMAIN page : i \in DOMAIN wanted /\ page[i] = wanted[i]
      /\ page = wanted \/ Len(page) = count
  BY <1>2, PaginateDef
<1> HIDE DEF page
<1>4. IsPrefix(page, wanted)
  <2> DEFINE n == Len(page)
  <2>1. n \in 0 .. Len(page) /\ n \in 0 .. Len(wanted) /\ DOMAIN page = 1 .. n
    BY <1>2, <1>3
  <2>2. SubSeq(page, 1, n) = Restrict(page, 1 .. n)
    BY <1>3, <2>1, SubSeqRestrict
  <2>3. SubSeq(wanted, 1, n) = Restrict(wanted, 1 .. n)
    BY <1>2, <2>1, SubSeqRestrict
  <2>4. \A i \in 1 .. n : page[i] = wanted[i]
    BY <1>3, <2>1
  <2>5. Restrict(page, 1 .. n) = Restrict(wanted, 1 .. n)
    BY <2>4 DEF Restrict
  <2> QED
    BY <1>3, <2>2, <2>3, <2>5 DEF IsPrefix
<1> QED
  BY <1>1, <1>3, <1>4 DEF IsExact, page, wanted, kept

\* The names of the functions and of the globals are names of the database.
LEMMA NamesWithoutStar ==
    ASSUME base \in Database
    PROVE  /\ \A f \in Range(base.funcs) : f.name \in Seq(STRING) /\ "*" \notin Range(f.name)
           /\ \A n \in Range(Globals) : n.name \in Seq(STRING) /\ "*" \notin Range(n.name)
<1>1. /\ base.names \in Seq([at : Nat, name : Seq(STRING)])
      /\ \A n \in Range(base.names) : "*" \notin Range(n.name)
      /\ \A f \in Range(base.funcs) : \E n \in Range(base.names) : n.name = f.name
  BY DatabaseAssumption DEF DatabaseAssumption
<1>2. \A n \in Range(base.names) : n.name \in Seq(STRING)
  <2>1. \A n \in Range(base.names) : n \in [at : Nat, name : Seq(STRING)]
    BY <1>1, ElementsDef
  <2> QED
    BY <2>1
<1>3. Range(Globals) \subseteq Range(base.names)
  <2>1. Range(Globals) = {base.names[i] : i \in {j \in DOMAIN base.names :
              j \in {k \in DOMAIN base.names : FunctionAt(base.names[k].at) = 0}}}
    BY <1>1, SelectedDef DEF Globals
  <2> QED
    BY <2>1 DEF Range
<1> QED
  BY <1>1, <1>2, <1>3

FilterInv ==
    /\ base \in Database
    /\ listing.tool = "list_funcs" => IsExact(listing.page, base.funcs, listing.filter, listing.count)
    /\ listing.tool = "list_globals" => IsExact(listing.page, Globals, listing.filter, listing.count)

\* Every filtered listing is exact, and no call changes the database after it.
LEMMA FilterStep == ASSUME FilterInv, [Next]_vars PROVE FilterInv'
<1>1. base \in Database /\ Filter \subseteq Seq(STRING) /\ PageCount \subseteq Nat
  BY FilterAssumption DEF FilterAssumption, FilterInv
<1>2. UNCHANGED base
  BY DEF Next, vars, List, ListFuncs, ListGlobals, Imports, SearchStructs, Entrypoints, Reply,
         LookupFuncs, GetGlobalValue, ByName, ImportByName, ExportByName, StructByName,
         ReadStruct, Convert, CallTool
<1>3. UNCHANGED Globals
  <2>1. ASSUME NEW ea PROVE UNCHANGED FunctionAt(ea)
    BY <1>2, Zenon DEF FunctionAt, SelectInSeq
  <2> QED
    BY <1>2, <2>1 DEF Globals
<1> DEFINE Exact(l) ==
             /\ l.tool = "list_funcs" => IsExact(l.page, base.funcs, l.filter, l.count)
             /\ l.tool = "list_globals" => IsExact(l.page, Globals, l.filter, l.count)
<1>4. ASSUME NEW f \in Filter, NEW n \in PageCount, ListFuncs(f, n) PROVE Exact(listing')
  <2>1. listing' = [tool |-> "list_funcs", filter |-> f, count |-> n,
                    page |-> paginate(pattern_filter(base.funcs, Effective(f)), n)]
    BY <1>4 DEF ListFuncs, List
  <2>2. \A i \in DOMAIN base.funcs : base.funcs[i].name \in Seq(STRING)
                                     /\ "*" \notin Range(base.funcs[i].name)
    BY <1>1, NamesWithoutStar DEF Range
  <2>3. IsExact(paginate(pattern_filter(base.funcs, Effective(f)), n), base.funcs, f, n)
    BY <1>1, <2>2, DatabaseParts, PageIsExact
  <2> QED
    BY <2>1, <2>3
<1>5. ASSUME NEW f \in Filter, NEW n \in PageCount, ListGlobals(f, n) PROVE Exact(listing')
  <2>1. listing' = [tool |-> "list_globals", filter |-> f, count |-> n,
                    page |-> paginate(pattern_filter(Globals, Effective(f)), n)]
    BY <1>5 DEF ListGlobals, List
  <2>2. \A i \in DOMAIN Globals : Globals[i].name \in Seq(STRING)
                                  /\ "*" \notin Range(Globals[i].name)
    BY <1>1, NamesWithoutStar DEF Range
  <2>3. IsExact(paginate(pattern_filter(Globals, Effective(f)), n), Globals, f, n)
    BY <1>1, <2>2, DatabaseParts, PageIsExact
  <2> QED
    BY <2>1, <2>3
<1>6. (\E n \in PageCount : Imports(n)) \/ (\E f \in Filter : SearchStructs(f)) \/ Entrypoints
        => Exact(listing')
  <2>1. ASSUME NEW tool \in {"imports", "search_structs", "entrypoints"}, NEW f, NEW n, NEW page,
               List(tool, f, n, page)
        PROVE  Exact(listing')
    BY <2>1 DEF List
  <2> HIDE DEF Exact
  <2> QED
    BY <2>1 DEF Imports, SearchStructs, Entrypoints
<1>7. ASSUME UNCHANGED listing PROVE Exact(listing')
  BY <1>7 DEF FilterInv
<1> HIDE DEF Exact
<1>8. Exact(listing')
  <2>1. (\E q \in Asked : \/ LookupFuncs(q) \/ GetGlobalValue(q)
                          \/ ImportByName(q) \/ ExportByName(q) \/ StructByName(q)
                          \/ \E ea \in DOMAIN base.typed \cup {BADADDR} : ReadStruct(ea, q))
        \/ (\E text \in Number, size \in ByteCount : Convert(text, size))
        \/ (\E result \in Result : CallTool(result))
        \/ UNCHANGED vars
          => UNCHANGED listing
    BY DEF vars, Reply, LookupFuncs, GetGlobalValue, ByName, ImportByName, ExportByName,
           StructByName, ReadStruct, Convert, CallTool
  <2> QED
    BY <1>4, <1>5, <1>6, <1>7, <2>1 DEF Next
<1> QED
  BY <1>1, <1>2, <1>3, <1>8 DEF FilterInv, Exact

\* For databases, names and filters of any length: a listing holds exactly the names
\* that its filter wants, in order, up to the count asked for (utils.cpp
\* pattern_filter and glob_match, core.cpp tool_list_funcs and tool_list_globals).
THEOREM FilterIsExactAlways == Spec => []FilterIsExact
<1>1. Init => FilterInv
  BY DEF Init, None, FilterInv
<1>2. FilterInv => FilterIsExact
  BY DEF FilterInv, FilterIsExact, IsExact
<1> QED
  BY <1>1, <1>2, FilterStep, PTL DEF Spec
=============================================================================
