----------------------------- MODULE Paging_proofs -----------------------------
(***************************************************************************)
(* Reading a result page by page, for results of any length, any offset    *)
(* and any page size: the pages are the result, in order and without gaps, *)
(* as long as no sum of an offset and a limit leaves the C++ int.          *)
(***************************************************************************)
EXTENDS Paging, FiniteSetTheorems, SequenceTheorems, TLAPS

\* Matches before hit p, and all of them.
Upto(p) == Cardinality({j \in Reportable : j < p})
Total == Cardinality(Reportable)

\* The offset as the search counts it, and the matches a page has after k.
Skipped == IF offset < 0 THEN 0 ELSE offset
Shown(k) == IF k <= Skipped THEN 0 ELSE IF k - Skipped <= limit THEN k - Skipped ELSE limit

\* The arguments as Init and Ask leave them.
ArgsInv ==
    /\ total_on => tool = "disasm"
    /\ tool \in OnePage => start = 0
    /\ phase \in {"scan", "reply"} => limit = InForce(asked)
    /\ phase = "scan" /\ tool = "disasm" => offset >= 0

\* Half way through a search the page is the part of the matches met so far
\* that the offset and the limit cut out.
ScanInv ==
    Looping =>
        /\ seen = IF tool = "disasm" \/ Upto(pos) < Skipped THEN Upto(pos) ELSE Skipped
        /\ found = IF Once THEN {hits[j] : j \in 1 .. pos - 1} \ {Other} ELSE {}
        /\ Len(page) = Shown(Upto(pos))
        /\ \A i \in 1 .. Len(page) : page[i] = Expected[Skipped + i]
        /\ more = (tool # "export" /\ Upto(pos) > Skipped + limit)
        /\ total = IF total_on THEN Upto(pos) ELSE 0

\* A finished page is that part of all matches.
ReplyInv ==
    phase = "reply" =>
        /\ total_on => total = Total
        /\ Sane => /\ Len(page) = Shown(Total)
                   /\ \A i \in 1 .. Len(page) : page[i] = Expected[Skipped + i]
                   /\ more = (tool # "export" /\ Total > Skipped + limit)

\* A client that started sanely asks where it has stopped reading, and stays sane.
SessionInv ==
    Sane =>
        /\ phase = "ask" => Corrected(offset) = First + Len(pages)
        /\ phase \in {"scan", "reply"} => offset = First + Len(pages)
        /\ phase \in {"ask", "scan", "reply"} => First + Len(pages) + InForce(asked) <= MaxInt
        /\ Len(pages) > 0 => First + Len(pages) <= Total
        /\ \A i \in 1 .. Len(pages) : pages[i] = Expected[First + i]

Inv == TypeOK /\ ArgsInv /\ ScanInv /\ ReplyInv /\ SessionInv

-----------------------------------------------------------------------------
\* What the hits are: a sequence of bounded length, for the tools that report
\* everything one of matches only.
LEMMA HitsType ==
    ASSUME TypeOK
    PROVE  /\ hits \in Seq(Match \cup {Other})
           /\ Len(hits) \in 0 .. MaxHits
           /\ hits \in [1 .. Len(hits) -> Match \cup {Other}]
           /\ tool \in {"blocks", "list", "xrefs", "export"} =>
                 hits \in [1 .. Len(hits) -> Match]
<1>1. PICK n \in 0 .. MaxHits :
         hits \in [1 .. n -> IF tool \in {"blocks", "list", "xrefs", "export"}
                             THEN Match ELSE Match \cup {Other}]
  BY DEF TypeOK, Hits
<1>2. n \in Nat /\ hits \in [1 .. n -> Match \cup {Other}]
  BY <1>1, PagingAssumption DEF PagingAssumption
<1>3. hits \in Seq(Match \cup {Other}) /\ Len(hits) = n
  BY <1>2
<1> QED
  BY <1>1, <1>2, <1>3

\* The matches are finitely many.
LEMMA ReportableFinite ==
    ASSUME TypeOK
    PROVE  /\ Reportable \subseteq 1 .. Len(hits)
           /\ \A j \in Reportable : j \in Int /\ 1 <= j /\ j <= Len(hits)
           /\ IsFiniteSet(Reportable)
           /\ Total \in 0 .. Len(hits)
<1>1. Reportable \subseteq 1 .. Len(hits) /\ Len(hits) \in Nat
  BY HitsType DEF Reportable
<1>2. IsFiniteSet(1 .. Len(hits)) /\ Cardinality(1 .. Len(hits)) = Len(hits)
  BY <1>1, FS_Interval
<1>3. IsFiniteSet(Reportable) /\ Cardinality(Reportable) <= Len(hits)
  BY <1>1, <1>2, FS_Subset
<1> QED
  BY <1>1, <1>3, FS_CardinalityType DEF Total

\* Counting the matches, hit by hit.
LEMMA UptoCounts ==
    ASSUME TypeOK
    PROVE  /\ Upto(1) = 0
           /\ Upto(Len(hits) + 1) = Total
           /\ \A p \in 1 .. Len(hits) + 1 : Upto(p) \in 0 .. p - 1 /\ Upto(p) <= Total
           /\ \A p \in 1 .. Len(hits) :
                 Upto(p + 1) = IF p \in Reportable THEN Upto(p) + 1 ELSE Upto(p)
<1> DEFINE Before(p) == {j \in Reportable : j < p}
<1>0. /\ \A j \in Reportable : j \in Int /\ 1 <= j /\ j <= Len(hits)
      /\ IsFiniteSet(Reportable)
      /\ Len(hits) \in Nat /\ Total \in Nat
  BY ReportableFinite, HitsType, PagingAssumption DEF PagingAssumption
<1>1. Before(1) = {} /\ Before(Len(hits) + 1) = Reportable
  BY <1>0
<1>2. ASSUME NEW p \in 1 .. Len(hits) + 1
      PROVE  Upto(p) \in 0 .. p - 1 /\ Upto(p) <= Total
  <2>1. Before(p) \subseteq 1 .. p - 1 /\ Before(p) \subseteq Reportable /\ p - 1 \in Nat
    BY <1>0
  <2>2. IsFiniteSet(1 .. p - 1) /\ Cardinality(1 .. p - 1) = p - 1
    BY <2>1, FS_Interval
  <2>3. IsFiniteSet(Before(p)) /\ Cardinality(Before(p)) <= p - 1
    BY <2>1, <2>2, FS_Subset
  <2>4. Cardinality(Before(p)) <= Cardinality(Reportable)
    BY <2>1, <1>0, FS_Subset
  <2>5. Cardinality(Before(p)) \in Nat
    BY <2>3, FS_CardinalityType
  <2> QED
    BY <2>3, <2>4, <2>5, <2>1 DEF Upto, Total
<1>3. ASSUME NEW p \in 1 .. Len(hits)
      PROVE  Upto(p + 1) = IF p \in Reportable THEN Upto(p) + 1 ELSE Upto(p)
  <2>1. IsFiniteSet(Before(p))
    BY <1>0, FS_Subset, Before(p) \in SUBSET Reportable
  <2>2. CASE p \in Reportable
    <3>0. \A j \in Reportable : j < p + 1 <=> j < p \/ j = p
      BY <1>0
    <3>1. Before(p + 1) = Before(p) \cup {p} /\ p \notin Before(p)
      BY <3>0, <2>2, p < p + 1, ~(p < p)
    <3> QED
      BY <3>1, <2>1, <2>2, FS_AddElement DEF Upto
  <2>3. CASE p \notin Reportable
    <3>1. Before(p + 1) = Before(p)
      BY <2>3, <1>0
    <3> QED
      BY <3>1, <2>3 DEF Upto
  <2> QED
    BY <2>2, <2>3
<1> QED
  BY <1>1, <1>2, <1>3, FS_EmptySet DEF Upto, Total

\* The match at hit p is the one its rank names in the expected result.
LEMMA ExpectedAt ==
    ASSUME TypeOK, NEW p \in Reportable
    PROVE  Upto(p) + 1 \in 1 .. Total /\ Expected[Upto(p) + 1] = hits[p]
<1> DEFINE UpTo(i) == {j \in Reportable : j <= i}
           k == Upto(p) + 1
<1>0. /\ \A j \in Reportable : j \in Int /\ 1 <= j /\ j <= Len(hits)
      /\ IsFiniteSet(Reportable) /\ Len(hits) \in Nat
  BY ReportableFinite, HitsType, PagingAssumption DEF PagingAssumption
<1>1. p \in 1 .. Len(hits) /\ p + 1 \in 1 .. Len(hits) + 1
  BY <1>0
<1>2. Upto(p + 1) = k /\ k \in 1 .. Total
  BY <1>1, UptoCounts
<1>3. UpTo(p) = {j \in Reportable : j < p + 1}
  BY <1>0
<1>4. Cardinality(UpTo(p)) = k
  BY <1>2, <1>3 DEF Upto
<1>5. ASSUME NEW i \in Reportable, Cardinality(UpTo(i)) = k
      PROVE  i = p
  <2>1. i \in Int /\ p \in Int
    BY <1>0
  <2>2. IsFiniteSet(UpTo(i)) /\ IsFiniteSet(UpTo(p))
    BY <1>0, FS_Subset, UpTo(i) \in SUBSET Reportable, UpTo(p) \in SUBSET Reportable
  <2>3. UpTo(i) \in SUBSET UpTo(p) \/ UpTo(p) \in SUBSET UpTo(i)
    <3>1. i <= p => \A j \in Reportable : j <= i => j <= p
      BY <1>0, <2>1
    <3>2. p <= i => \A j \in Reportable : j <= p => j <= i
      BY <1>0, <2>1
    <3>3. i <= p \/ p <= i
      BY <2>1
    <3> QED
      BY <3>1, <3>2, <3>3
  <2>4. UpTo(i) = UpTo(p)
    <3> HIDE DEF UpTo
    <3> QED
      BY <2>2, <2>3, <1>4, <1>5, FS_Subset
  <2> QED
    BY <2>4, <2>1
<1>6. (CHOOSE i \in Reportable : Cardinality(UpTo(i)) = k) = p
  <2> HIDE DEF UpTo, k
  <2> QED
    BY <1>4, <1>5
<1> QED
  BY <1>2, <1>6 DEF Expected, Total

\* The expected result is a sequence with one item for each match.
LEMMA ExpectedIsSeq ==
    ASSUME TypeOK
    PROVE  /\ Len(Expected) = Total
           /\ Expected \in Seq({Expected[k] : k \in 1 .. Total})
           /\ DOMAIN Expected = 1 .. Total
<1>1. Total \in Nat
  BY ReportableFinite
<1>2. Expected \in [1 .. Total -> {Expected[k] : k \in 1 .. Total}]
  BY DEF Expected, Total
<1> HIDE DEF Expected
<1> QED
  BY <1>1, <1>2

\* For blocks and lists the expected result is what there is.
LEMMA ListExpected ==
    ASSUME TypeOK, tool \in {"blocks", "list"}
    PROVE  Total = Len(hits) /\ \A p \in 1 .. Len(hits) : Expected[p] = hits[p]
<1>0. Len(hits) \in Nat /\ DOMAIN hits = 1 .. Len(hits) /\ hits \in [1 .. Len(hits) -> Match]
  BY HitsType, PagingAssumption DEF PagingAssumption
<1>1. Reportable = 1 .. Len(hits)
  BY <1>0, PagingAssumption DEF Reportable, Once, PagingAssumption
<1>2. Total = Len(hits)
  BY <1>0, <1>1, FS_Interval DEF Total
<1>3. ASSUME NEW p \in 1 .. Len(hits)
      PROVE  Expected[p] = hits[p]
  <2>1. {j \in Reportable : j < p} = 1 .. p - 1
    BY <1>0, <1>1
  <2>2. Upto(p) = Cardinality(1 .. p - 1)
    BY <2>1 DEF Upto
  <2>3. Cardinality(1 .. p - 1) = p - 1
    BY <1>0, FS_Interval
  <2> QED
    BY <2>2, <2>3, <1>1, <1>0, ExpectedAt
<1> QED
  BY <1>2, <1>3

-----------------------------------------------------------------------------
\* A remainder lies below the divisor, and small numbers are their own.
LEMMA Remainder ==
    ASSUME NEW a \in Int, NEW b \in Nat \ {0}
    PROVE  a % b \in 0 .. b - 1 /\ (a \in 0 .. b - 1 => a % b = a)
  OBVIOUS

\* The machine's addition stays within an int, and is exact there.
LEMMA Int32Exact ==
    ASSUME NEW n \in Int
    PROVE  /\ Int32(n) \in (-MaxInt - 1) .. MaxInt
           /\ n \in (-MaxInt - 1) .. MaxInt => Int32(n) = n
<1> DEFINE b == 2 * (MaxInt + 1)
           a == n + MaxInt + 1
<1>1. MaxInt \in Nat
  BY PagingAssumption DEF PagingAssumption
<1>2. a \in Int /\ b \in Nat \ {0} /\ b - 1 = 2 * MaxInt + 1
  BY <1>1
<1>3. a % b \in 0 .. b - 1 /\ (a \in 0 .. b - 1 => a % b = a)
  <2> HIDE DEF a, b
  <2> QED
    BY <1>2, Remainder
<1>4. Int32(n) = (a % b) - MaxInt - 1
  BY DEF Int32
<1>5. n \in (-MaxInt - 1) .. MaxInt => a \in 0 .. b - 1
  BY <1>1
<1>6. a = n + MaxInt + 1
  OBVIOUS
<1> HIDE DEF a, b
<1> QED
  BY <1>1, <1>2, <1>3, <1>4, <1>5, <1>6

\* The numbers the proofs calculate with.
LEMMA Numbers ==
    ASSUME TypeOK
    PROVE  /\ MaxInt \in Nat /\ LimitCap \in 1 .. MaxInt
           /\ asked \in Int /\ asked \in (-MaxInt - 1) .. MaxInt
           /\ start \in Int /\ start \in (-MaxInt - 1) .. MaxInt
           /\ offset \in Int /\ offset \in (-MaxInt - 1) .. MaxInt
           /\ limit \in Int /\ limit \in (-MaxInt - 1) .. MaxInt
           /\ Len(hits) \in Nat /\ Len(hits) <= MaxInt
           /\ pos \in 1 .. Len(hits) + 1
           /\ Skipped \in Nat /\ First \in Nat
           /\ Len(page) \in Nat /\ Len(pages) \in Nat
<1>1. /\ MaxInt \in Nat /\ MaxHits \in 0 .. MaxInt /\ LimitCap \in 1 .. MaxInt
      /\ asked \in (-MaxInt - 1) .. MaxInt /\ start \in (-MaxInt - 1) .. MaxInt
      /\ offset \in (-MaxInt - 1) .. MaxInt /\ limit \in (-MaxInt - 1) .. MaxInt
      /\ pos \in 1 .. Len(hits) + 1
      /\ page \in Seq(Match) /\ pages \in Seq(Match)
  BY PagingAssumption DEF PagingAssumption, TypeOK
<1>2. Len(hits) \in 0 .. MaxHits
  BY HitsType
<1>3. Len(page) \in Nat /\ Len(pages) \in Nat
  BY <1>1
<1> QED
  BY <1>1, <1>2, <1>3 DEF Skipped, First

\* What limit is in force: at least 1 but in a list, where only an empty one is
\* read with none.
LEMMA LimitInForce ==
    ASSUME TypeOK
    PROVE  /\ InForce(asked) \in (-MaxInt - 1) .. MaxInt
           /\ tool # "list" => InForce(asked) >= 1
           /\ Sane => InForce(asked) >= 0
           /\ Sane /\ InForce(asked) = 0 => tool = "list" /\ Len(hits) = 0
  BY Numbers DEF InForce, Sane

\* What depends on the arguments alone does not change while they stand.
LEMMA InputSame ==
    ASSUME UNCHANGED input
    PROVE  /\ Reportable' = Reportable /\ Total' = Total /\ Expected' = Expected
           /\ Upto(pos)' = Upto(pos')
           /\ InForce(asked)' = InForce(asked)
           /\ First' = First
           /\ Sane' = Sane
           /\ Once' = Once
<1>1. tool' = tool /\ hits' = hits /\ asked' = asked /\ start' = start
  BY DEF input
<1>2. Once' = Once /\ First' = First
  BY <1>1 DEF Once, First
<1>3. Reportable' = Reportable
  BY <1>1, <1>2 DEF Reportable
<1>4. InForce(asked)' = InForce(asked)
  BY <1>1 DEF InForce
<1>5. Sane' = Sane
  BY <1>1, <1>2, <1>4 DEF Sane
<1>6. Upto(pos)' = Upto(pos') /\ Total' = Total
  BY <1>3 DEF Upto, Total
<1>7. Expected' = Expected
  BY <1>3, <1>1 DEF Expected
<1> QED
  BY <1>2, <1>3, <1>4, <1>5, <1>6, <1>7

\* A hit is left out if and only if it is not a match, and a match is the next
\* one of the expected result.
LEMMA MatchIsNext ==
    ASSUME TypeOK, ScanInv, AtHit
    PROVE  /\ pos \in 1 .. Len(hits)
           /\ Ignored <=> pos \notin Reportable
           /\ ~Ignored => Hit \in Match /\ Hit = Expected[Upto(pos) + 1]
           /\ Upto(pos + 1) = IF Ignored THEN Upto(pos) ELSE Upto(pos) + 1
           /\ Upto(pos) \in Nat
<1>1. pos \in 1 .. Len(hits) /\ pos \in Int /\ Len(hits) \in Nat /\ DOMAIN hits = 1 .. Len(hits)
  BY Numbers, HitsType DEF AtHit
<1>2. found = IF Once THEN {hits[j] : j \in 1 .. pos - 1} \ {Other} ELSE {}
  BY DEF ScanInv, AtHit
<1>3. Ignored <=> pos \notin Reportable
  BY <1>1, <1>2 DEF Ignored, Reportable, Hit
<1>4. hits[pos] \in Match \cup {Other}
  BY <1>1, HitsType
<1>5. ~Ignored => Hit \in Match
  BY <1>4 DEF Ignored, Hit
<1>6. ~Ignored => Hit = Expected[Upto(pos) + 1]
  BY <1>3, ExpectedAt DEF Hit
<1> QED
  BY <1>1, <1>3, <1>5, <1>6, UptoCounts

\* What the search remembers, one hit later.
LEMMA FoundGrows ==
    ASSUME TypeOK, ScanInv, AtHit
    PROVE  (IF Once THEN {hits[j] : j \in 1 .. pos} \ {Other} ELSE {}) =
           IF Ignored \/ ~Once THEN found ELSE found \cup {Hit}
<1>1. pos \in Int /\ 1 <= pos
  BY Numbers
<1>2. found = IF Once THEN {hits[j] : j \in 1 .. pos - 1} \ {Other} ELSE {}
  BY DEF ScanInv, AtHit
<1>3. {hits[j] : j \in 1 .. pos} = {hits[j] : j \in 1 .. pos - 1} \cup {Hit}
  <2>1. 1 .. pos = (1 .. pos - 1) \cup {pos}
    BY <1>1
  <2> QED
    BY <2>1 DEF Hit
<1> QED
  BY <1>2, <1>3 DEF Ignored

-----------------------------------------------------------------------------
\* One hit: the search stays on course, whatever it makes of the hit.
LEMMA HitStep ==
    ASSUME TypeOK, ArgsInv, ScanInv, Ignore \/ Skip \/ Take \/ Overflow, pos' = pos + 1
    PROVE  phase' = "scan" /\ ScanInv'
<1> DEFINE k == Upto(pos)
<1>1. AtHit /\ phase = "scan" /\ phase' = "scan" /\ tool \notin {"blocks", "list"}
  BY Numbers DEF Ignore, Skip, Take, Overflow, AtHit, Looping
<1>2. UNCHANGED input /\ offset' = offset /\ limit' = limit
  BY DEF Ignore, Skip, Take, Overflow
<1>3. Upto(pos)' = Upto(pos + 1) /\ Expected' = Expected /\ Once' = Once
  BY <1>2, InputSame
<1>4. /\ Ignored => Upto(pos + 1) = k
      /\ ~Ignored => Upto(pos + 1) = k + 1 /\ Hit \in Match /\ Hit = Expected[k + 1]
      /\ k \in Nat
  BY <1>1, MatchIsNext
<1>5. Skipped' = Skipped /\ \A n : Shown(n)' = Shown(n)
  BY <1>2 DEF Skipped, Shown
<1>6. tool' = tool /\ hits' = hits /\ total_on' = total_on
  BY <1>2 DEF input
<1>7. /\ seen = IF tool = "disasm" \/ k < Skipped THEN k ELSE Skipped
      /\ Len(page) = Shown(k)
      /\ \A i \in 1 .. Len(page) : page[i] = Expected[Skipped + i]
      /\ more = (tool # "export" /\ k > Skipped + limit)
      /\ total = IF total_on THEN k ELSE 0
  BY <1>1 DEF ScanInv, AtHit
<1>8. /\ limit \in Int /\ limit >= 1 /\ offset \in Int /\ Skipped \in Nat
      /\ tool = "disasm" => offset >= 0
  BY <1>1, Numbers, LimitInForce DEF ArgsInv
<1>9. found' = IF Once' THEN {hits'[j] : j \in 1 .. pos' - 1} \ {Other} ELSE {}
  <2>1. pos' - 1 = pos
    BY Numbers
  <2>2. ~Once => found = {}
    BY <1>1 DEF ScanInv, AtHit
  <2>3. found' = IF Ignored \/ ~Once THEN found ELSE found \cup {Hit}
    BY <2>2 DEF Ignore, Skip, Take, Overflow, Remember
  <2> QED
    BY <2>1, <2>3, <1>1, <1>3, <1>6, FoundGrows
<1> HIDE DEF k
<1>10. CASE Ignore
  <2>1. Ignored /\ UNCHANGED <<seen, page, more, total>>
    BY <1>10 DEF Ignore
  <2>2. Upto(pos)' = k
    BY <2>1, <1>3, <1>4
  <2> QED
    BY <2>1, <2>2, <1>1, <1>2, <1>3, <1>5, <1>6, <1>7, <1>9 DEF ScanInv
<1>11. CASE Skip
  <2>1. /\ ~Ignored /\ seen < offset /\ seen' = seen + 1 /\ UNCHANGED <<page, more>>
        /\ total' = IF total_on THEN total + 1 ELSE total
    BY <1>11 DEF Skip, CountTotal
  <2>2. Upto(pos)' = k + 1
    BY <2>1, <1>3, <1>4
  <2>3. k < Skipped
    BY <2>1, <1>7, <1>8, <1>4 DEF Skipped
  <2>4. seen' = IF tool = "disasm" \/ k + 1 < Skipped THEN k + 1 ELSE Skipped
    BY <2>1, <2>3, <1>4, <1>7, <1>8
  <2>5. Shown(k + 1) = Shown(k) /\ (k + 1 > Skipped + limit <=> k > Skipped + limit)
    BY <2>3, <1>4, <1>8 DEF Shown
  <2>6. total' = IF total_on THEN k + 1 ELSE 0
    BY <2>1, <1>7
  <2> QED
    BY <2>1, <2>2, <2>4, <2>5, <2>6, <1>1, <1>2, <1>3, <1>5, <1>6, <1>7, <1>9 DEF ScanInv
<1>12. CASE Take
  <2>1. /\ ~Ignored /\ seen >= offset /\ Len(page) < limit /\ page' = Append(page, Hit)
        /\ seen' = (IF tool = "disasm" THEN seen + 1 ELSE seen) /\ UNCHANGED more
        /\ total' = IF total_on THEN total + 1 ELSE total
    BY <1>12 DEF Take, CountTotal
  <2>2. Upto(pos)' = k + 1
    BY <2>1, <1>3, <1>4
  <2>3. k >= Skipped
    BY <2>1, <1>7, <1>8, <1>4 DEF Skipped
  <2>4. Shown(k) = k - Skipped /\ Shown(k + 1) = k - Skipped + 1
    BY <2>1, <2>3, <1>7, <1>4, <1>8 DEF Shown
  <2>5. /\ Len(page') = Len(page) + 1 /\ page'[Len(page) + 1] = Hit
        /\ \A i \in 1 .. Len(page) : page'[i] = page[i]
    BY <2>1, <1>4, AppendProperties DEF TypeOK
  <2>6. ASSUME NEW i \in 1 .. Len(page')
        PROVE  page'[i] = Expected[Skipped + i]
    <3>1. CASE i \in 1 .. Len(page)
      BY <3>1, <2>5, <1>7
    <3>2. CASE i = Len(page) + 1
      <4>1. Skipped + i = k + 1
        BY <3>2, <2>4, <1>7, <1>4, <1>8
      <4> QED
        BY <4>1, <3>2, <2>5, <2>1, <1>4
    <3>3. Len(page) \in Nat /\ i \in 1 .. Len(page) + 1
      BY <2>5, Numbers
    <3> QED
      BY <3>1, <3>2, <3>3
  <2>7. seen' = IF tool = "disasm" \/ k + 1 < Skipped THEN k + 1 ELSE Skipped
    BY <2>1, <2>3, <1>4, <1>7, <1>8
  <2>8. k + 1 > Skipped + limit <=> k > Skipped + limit
    BY <2>1, <2>4, <1>7, <1>4, <1>8
  <2>9. total' = IF total_on THEN k + 1 ELSE 0
    BY <2>1, <1>7
  <2>10. Len(page') = Shown(k + 1)
    BY <2>4, <2>5, <1>7
  <2> QED
    BY <2>1, <2>2, <2>6, <2>7, <2>8, <2>9, <2>10, <1>1, <1>2, <1>3, <1>5, <1>6, <1>7, <1>9
    DEF ScanInv
<1>13. CASE Overflow
  <2>1. /\ ~Ignored /\ seen >= offset /\ Len(page) >= limit /\ page' = page
        /\ seen' = IF tool = "disasm" THEN seen + 1 ELSE seen
        /\ more' = (tool # "export")
        /\ total' = IF total_on THEN total + 1 ELSE total
    BY <1>13 DEF Overflow, CountTotal
  <2>2. Upto(pos)' = k + 1
    BY <2>1, <1>3, <1>4
  <2>3. k >= Skipped
    BY <2>1, <1>7, <1>8, <1>4 DEF Skipped
  <2>4. Shown(k + 1) = Shown(k) /\ k + 1 > Skipped + limit
    BY <2>1, <2>3, <1>7, <1>4, <1>8 DEF Shown
  <2>5. seen' = IF tool = "disasm" \/ k + 1 < Skipped THEN k + 1 ELSE Skipped
    BY <2>1, <2>3, <1>4, <1>7, <1>8
  <2>6. total' = IF total_on THEN k + 1 ELSE 0
    BY <2>1, <1>7
  <2> QED
    BY <2>1, <2>2, <2>4, <2>5, <2>6, <1>1, <1>2, <1>3, <1>5, <1>6, <1>7, <1>9 DEF ScanInv
<1> QED
  BY <1>1, <1>10, <1>11, <1>12, <1>13

\* The first match of the next page ends the search with the page as it is.
LEMMA CutStep ==
    ASSUME TypeOK, ArgsInv, ScanInv, Overflow, phase' = "reply", pos' = pos
    PROVE  ReplyInv' /\ seen' \in 0 .. Len(hits) /\ total' \in 0 .. Len(hits)
<1> DEFINE k == Upto(pos)
<1>1. /\ AtHit /\ phase = "scan" /\ tool \notin {"blocks", "list"} /\ ~Ignored
      /\ UNCHANGED input /\ offset' = offset /\ limit' = limit /\ page' = page
      /\ seen >= offset /\ Len(page) >= limit /\ more' = (tool # "export")
      /\ seen' = IF tool = "disasm" THEN seen + 1 ELSE seen
  BY DEF Overflow, AtHit, Looping
<1>2. ~total_on /\ total' = total
  BY DEF Overflow, CountTotal, AtHit, Looping
<1>3. /\ seen = IF tool = "disasm" \/ k < Skipped THEN k ELSE Skipped
      /\ Len(page) = Shown(k)
      /\ \A i \in 1 .. Len(page) : page[i] = Expected[Skipped + i]
      /\ total = 0
  BY <1>1, <1>2 DEF ScanInv, AtHit
<1>4. /\ limit \in Int /\ limit >= 1 /\ offset \in Int /\ Skipped \in Nat
      /\ tool = "disasm" => offset >= 0
  BY <1>1, Numbers, LimitInForce DEF ArgsInv
<1>5. k \in Nat /\ pos \in Reportable /\ pos \in 1 .. Len(hits)
  BY <1>1, MatchIsNext
<1>6. k + 1 \in 1 .. Total /\ Total \in 0 .. Len(hits) /\ Len(hits) \in Nat
  BY <1>5, ExpectedAt, ReportableFinite, Numbers
<1>7. /\ Expected' = Expected /\ Total' = Total /\ tool' = tool /\ total_on' = total_on
      /\ Skipped' = Skipped /\ \A n : Shown(n)' = Shown(n)
  BY <1>1, InputSame DEF input, Skipped, Shown
<1> HIDE DEF k
<1>8. k >= Skipped
  BY <1>1, <1>3, <1>4, <1>5 DEF Skipped
<1>9. Total > Skipped + limit /\ Shown(Total) = Shown(k)
  BY <1>8, <1>1, <1>3, <1>4, <1>5, <1>6 DEF Shown
<1>10. seen' \in 0 .. Len(hits)
  BY <1>1, <1>3, <1>4, <1>5, <1>6, <1>8
<1> QED
  BY <1>1, <1>2, <1>3, <1>6, <1>7, <1>9, <1>10 DEF ReplyInv

-----------------------------------------------------------------------------
\* Every step keeps the types.
LEMMA TypeStep ==
    ASSUME TypeOK, ArgsInv, ScanInv, [Next]_vars
    PROVE  TypeOK'
<1> DEFINE Word == (-MaxInt - 1) .. MaxInt
<1>1. /\ tool \in Tool /\ hits \in Hits(tool) /\ asked \in Count /\ total_on \in BOOLEAN
      /\ start \in Offset /\ {offset, limit} \subseteq Word
      /\ phase \in {"ask", "scan", "reply", "finished", "undefined"}
      /\ pos \in 1 .. Len(hits) + 1 /\ seen \in 0 .. Len(hits) /\ total \in 0 .. Len(hits)
      /\ found \subseteq Match /\ page \in Seq(Match) /\ pages \in Seq(Match)
      /\ more \in BOOLEAN /\ (next.done \/ next.next \in Word)
  BY DEF TypeOK
<1>2. Len(hits) \in Nat /\ 0 \in Word /\ 1 \in 1 .. Len(hits) + 1 /\ MaxInt \in Nat
  BY Numbers
<1>3. ASSUME Looping
      PROVE  seen \in 0 .. pos - 1 /\ total \in 0 .. pos - 1
  <2>1. Upto(pos) \in 0 .. pos - 1
    BY <1>1, UptoCounts
  <2>2. /\ seen = IF tool = "disasm" \/ Upto(pos) < Skipped THEN Upto(pos) ELSE Skipped
        /\ total = IF total_on THEN Upto(pos) ELSE 0
    BY <1>3 DEF ScanInv
  <2>3. Skipped \in Nat /\ pos \in Int
    BY Numbers
  <2> QED
    BY <2>1, <2>2, <2>3
<1>4. CASE Ask
  <2>1. limit' \in Word
    BY <1>4, LimitInForce DEF Ask
  <2>2. offset' \in Word
    BY <1>4, <1>1, <1>2 DEF Ask, Corrected
  <2>3. /\ UNCHANGED <<tool, hits, asked, total_on, start, next, pages>> /\ phase' = "scan"
        /\ pos' = 1 /\ seen' = 0 /\ found' = {} /\ page' = <<>> /\ more' = FALSE /\ total' = 0
    BY <1>4 DEF Ask, input
  <2>4. page' \in Seq(Match) /\ found' \subseteq Match /\ more' \in BOOLEAN
    <3>1. page' = <<>> /\ found' = {} /\ more' = FALSE
      BY <2>3
    <3>2. page' \in Seq(Match)
      BY <3>1
    <3>3. found' \subseteq Match
      BY <3>1
    <3> QED
      BY <3>1, <3>2, <3>3
  <2>5. pos' \in 1 .. Len(hits) + 1 /\ seen' \in 0 .. Len(hits) /\ total' \in 0 .. Len(hits)
    BY <2>3, <1>2
  <2> HIDE DEF Word
  <2>6. {offset', limit'} \subseteq Word
    BY <2>1, <2>2
  <2> USE DEF Word
  <2> QED
    BY <1>1, <2>3, <2>4, <2>5, <2>6 DEF TypeOK
<1>5. CASE Ignore \/ Skip \/ Take \/ Overflow
  <2>1. AtHit /\ phase = "scan" /\ pos \in 1 .. Len(hits)
    BY <1>5, <1>1 DEF Ignore, Skip, Take, Overflow, AtHit, Looping
  <2>2. UNCHANGED <<tool, hits, asked, total_on, start, offset, limit, next, pages>>
    BY <1>5 DEF Ignore, Skip, Take, Overflow, input
  <2>3. pos' \in {pos, pos + 1} /\ seen' \in {seen, seen + 1} /\ phase' \in {"scan", "reply"}
    BY <1>5, <2>1 DEF Ignore, Skip, Take, Overflow, Advance
  <2>4. total' \in {total, total + 1} /\ more' \in BOOLEAN
    BY <1>5, <1>1 DEF Ignore, Skip, Take, Overflow, CountTotal
  <2>5. seen \in 0 .. pos - 1 /\ total \in 0 .. pos - 1
    BY <2>1, <1>3 DEF AtHit
  <2>6. seen' \in 0 .. Len(hits) /\ total' \in 0 .. Len(hits) /\ pos' \in 1 .. Len(hits) + 1
    BY <2>1, <2>3, <2>4, <2>5, <1>2
  <2>7. found' \subseteq Match
    BY <1>5, <1>1, <2>1, MatchIsNext DEF Ignore, Skip, Take, Overflow, Remember
  <2>8. page' \in Seq(Match)
    <3>1. page' = page \/ (~Ignored /\ page' = Append(page, Hit))
      BY <1>5 DEF Ignore, Skip, Take, Overflow
    <3>2. ~Ignored => Hit \in Match
      BY <2>1, MatchIsNext
    <3> QED
      BY <3>1, <3>2, <1>1, AppendProperties
  <2> QED
    BY <1>1, <2>2, <2>3, <2>4, <2>6, <2>7, <2>8 DEF TypeOK
<1>6. CASE EndOfHits
  <2>1. UNCHANGED <<tool, hits, asked, total_on, start, offset, limit, pos, seen, found,
                    page, total, next, pages>>
    BY <1>6 DEF EndOfHits, input
  <2>2. phase' = "reply" /\ more' \in BOOLEAN
    BY <1>6 DEF EndOfHits
  <2> QED
    BY <1>1, <2>1, <2>2 DEF TypeOK
<1>7. CASE Slice
  <2>1. UNCHANGED <<tool, hits, asked, total_on, start, offset, limit, pos, seen, found,
                    total, next, pages>>
    BY <1>7 DEF Slice, input
  <2>2. phase' \in {"reply", "undefined"} /\ more' \in BOOLEAN
    <3>1. CASE offset < 0 /\ offset < EndIndex
      BY <3>1, <1>7, <1>1 DEF Slice
    <3>2. CASE ~(offset < 0 /\ offset < EndIndex)
      <4>1. phase' = "reply" /\ more' = (Int32(offset + limit) < Len(hits))
        BY <3>2, <1>7 DEF Slice
      <4> QED
        BY <4>1
    <3> QED
      BY <3>1, <3>2
  <2>3. page' \in Seq(Match)
    <3>1. hits \in [1 .. Len(hits) -> Match] /\ offset \in Int
      BY <1>7, HitsType, Numbers DEF Slice
    <3>2. EndIndex \in Int /\ EndIndex <= Len(hits)
      <4>1. offset + limit \in Int
        BY Numbers
      <4>2. Int32(offset + limit) \in Word
        BY <4>1, Int32Exact
      <4> QED
        BY <4>2, <1>2 DEF EndIndex
    <3>3. CASE page' = page
      BY <3>3, <1>1
    <3>4. CASE page' # page
      <4>1. page' = SubSeq(hits, offset + 1, EndIndex) /\ ~(offset < 0 /\ offset < EndIndex)
        BY <3>4, <1>7 DEF Slice
      <4>2. \A i \in offset + 1 .. EndIndex : i \in 1 .. Len(hits)
        BY <3>1, <3>2, <4>1, <1>2
      <4>3. \A i \in offset + 1 .. EndIndex : hits[i] \in Match
        BY <4>2, <3>1
      <4> HIDE DEF EndIndex
      <4>4. offset + 1 \in Int
        BY <3>1
      <4> QED
        BY <4>1, <4>3, <4>4, <3>2, SubSeqProperties
    <3> QED
      BY <3>3, <3>4
  <2> QED
    BY <1>1, <2>1, <2>2, <2>3 DEF TypeOK
<1>8. CASE Reply
  <2>1. UNCHANGED <<tool, hits, asked, total_on, start, limit, pos, seen, found, page, more, total>>
    BY <1>8 DEF Reply, input, loop
  <2>2. pages' \in Seq(Match)
    BY <1>8, <1>1, ConcatProperties DEF Reply
  <2>3. Int32(offset + limit) \in Word
    <3>1. offset + limit \in Int
      BY Numbers
    <3> QED
      BY <3>1, Int32Exact
  <2>4. Cursor.done \/ Cursor.next \in Word
    BY <2>3 DEF Cursor, CursorTo, Done
  <2>5. next' = Cursor /\ phase' \in {"finished", "ask"} /\ offset' \in Word
    BY <1>8, <1>1, <2>4 DEF Reply
  <2> QED
    BY <1>1, <2>1, <2>2, <2>4, <2>5 DEF TypeOK
<1>9. CASE UNCHANGED vars
  BY <1>9 DEF TypeOK, vars
<1> QED
  BY <1>4, <1>5, <1>6, <1>7, <1>8, <1>9 DEF Next, Serve, Over

-----------------------------------------------------------------------------
\* The search starts on course, with nothing seen.
LEMMA AskStep ==
    ASSUME TypeOK, ArgsInv, Ask
    PROVE  ScanInv' /\ phase' = "scan"
<1>1. /\ UNCHANGED input /\ phase' = "scan" /\ limit' = InForce(asked) /\ offset' = Corrected(offset)
      /\ pos' = 1 /\ seen' = 0 /\ found' = {} /\ page' = <<>> /\ more' = FALSE /\ total' = 0
  BY DEF Ask
<1>2. Upto(pos)' = 0
  BY <1>1, InputSame, UptoCounts
<1>3. tool' = tool /\ Once' = Once
  BY <1>1, InputSame DEF input
<1>4. Looping' => limit' >= 1 /\ limit' \in Int
  BY <1>1, <1>3, LimitInForce, Numbers DEF Looping
<1>5. Skipped' \in Nat
  BY <1>1, Numbers DEF Skipped, Corrected
<1>6. Looping' => Shown(0)' = 0 /\ ~(0 > Skipped' + limit')
  BY <1>4, <1>5 DEF Shown
<1>7. {hits'[j] : j \in 1 .. pos' - 1} = {}
  BY <1>1
<1>8. Len(page') = 0
  BY <1>1
<1>9. Looping' => Shown(Upto(pos))' = 0
  BY <1>2, <1>5 DEF Shown
<1>10. Looping' => more' = (tool' # "export" /\ Upto(pos)' > Skipped' + limit')
  BY <1>1, <1>2, <1>6
<1>11. Looping' => seen' = IF tool' = "disasm" \/ Upto(pos)' < Skipped' THEN Upto(pos)' ELSE Skipped'
  BY <1>1, <1>2, <1>5
<1>12. \A i \in 1 .. Len(page') : page'[i] = Expected'[Skipped' + i]
  BY <1>8
<1>13. found' = IF Once' THEN {hits'[j] : j \in 1 .. pos' - 1} \ {Other} ELSE {}
  BY <1>1, <1>7
<1>14. total' = IF total_on' THEN Upto(pos)' ELSE 0
  BY <1>1, <1>2
<1> QED
  BY <1>1, <1>8, <1>9, <1>10, <1>11, <1>12, <1>13, <1>14 DEF ScanInv

\* At the end of the hits the page is what it should be of all matches.
LEMMA EndStep ==
    ASSUME TypeOK, ArgsInv, ScanInv, SessionInv, EndOfHits
    PROVE  ReplyInv'
<1>1. /\ Looping /\ phase = "scan" /\ UNCHANGED input
      /\ offset' = offset /\ limit' = limit /\ page' = page /\ total' = total
      /\ pos = Len(hits) + 1
      /\ more' = (more \/ (total_on /\ total > Int32(offset + limit)))
  BY Numbers DEF EndOfHits, Looping
<1>2. Upto(pos) = Total
  BY <1>1, UptoCounts
<1>3. /\ Len(page) = Shown(Total)
      /\ \A i \in 1 .. Len(page) : page[i] = Expected[Skipped + i]
      /\ more = (tool # "export" /\ Total > Skipped + limit)
      /\ total = IF total_on THEN Total ELSE 0
  BY <1>1, <1>2 DEF ScanInv
<1>4. /\ Expected' = Expected /\ Total' = Total /\ Sane' = Sane /\ tool' = tool
      /\ total_on' = total_on /\ Skipped' = Skipped /\ \A n : Shown(n)' = Shown(n)
  BY <1>1, InputSame DEF input, Skipped, Shown
<1>5. ASSUME Sane, total_on
      PROVE  tool # "export" /\ Int32(offset + limit) = Skipped + limit
  <2>1. tool = "disasm" /\ offset >= 0 /\ limit = InForce(asked)
    BY <1>5, <1>1 DEF ArgsInv
  <2>2. offset + limit <= MaxInt /\ offset + limit \in Int /\ offset + limit >= 0
    BY <1>5, <1>1, <2>1, Numbers, LimitInForce DEF SessionInv
  <2>3. offset + limit \in (-MaxInt - 1) .. MaxInt
    BY <2>2, Numbers
  <2>4. Int32(offset + limit) = offset + limit
    BY <2>2, <2>3, Int32Exact
  <2> QED
    BY <2>1, <2>4, Numbers DEF Skipped
<1>6. Sane => more' = (tool # "export" /\ Total > Skipped + limit)
  BY <1>1, <1>3, <1>5
<1> QED
  BY <1>1, <1>3, <1>4, <1>6 DEF ReplyInv

\* A slice is what it should be of all matches.
LEMMA SliceStep ==
    ASSUME TypeOK, ArgsInv, SessionInv, Slice
    PROVE  ReplyInv'
<1>1. /\ tool \in {"blocks", "list"} /\ phase = "scan" /\ UNCHANGED input
      /\ offset' = offset /\ limit' = limit /\ limit = InForce(asked)
      /\ ~total_on /\ tool # "export"
  BY DEF Slice, ArgsInv
<1>2. /\ Expected' = Expected /\ Total' = Total /\ Sane' = Sane /\ tool' = tool
      /\ total_on' = total_on /\ Skipped' = Skipped /\ \A n : Shown(n)' = Shown(n)
  BY <1>1, InputSame DEF input, Skipped, Shown
<1>3. ASSUME Sane
      PROVE  /\ Len(page') = Shown(Total)
             /\ \A i \in 1 .. Len(page') : page'[i] = Expected[Skipped + i]
             /\ more' = (Total > Skipped + limit)
  <2>1. offset \in Nat /\ limit \in Nat /\ offset + limit <= MaxInt /\ Skipped = offset
    BY <1>1, <1>3, Numbers, LimitInForce DEF SessionInv, Skipped
  <2>2. offset + limit \in Int /\ offset + limit \in (-MaxInt - 1) .. MaxInt
    BY <2>1, Numbers
  <2>3. Int32(offset + limit) = offset + limit
    BY <2>2, Int32Exact
  <2>4. EndIndex = IF offset + limit < Len(hits) THEN offset + limit ELSE Len(hits)
    BY <2>3 DEF EndIndex
  <2>5. page' = SubSeq(hits, offset + 1, EndIndex) /\ more' = (offset + limit < Len(hits))
    BY <2>1, <2>3 DEF Slice
  <2>6. Total = Len(hits) /\ \A p \in 1 .. Len(hits) : Expected[p] = hits[p]
    BY <1>1, ListExpected
  <2>7. Len(hits) \in Nat /\ hits \in [1 .. Len(hits) -> Match \cup {Other}]
    BY Numbers, HitsType
  <2> DEFINE e == EndIndex
  <2>8. e \in Int /\ e <= Len(hits) /\ offset + 1 \in Int /\ offset + 1 >= 1
    <3>1. CASE offset + limit < Len(hits)
      BY <3>1, <2>1, <2>4, <2>7
    <3>2. CASE ~(offset + limit < Len(hits))
      BY <3>2, <2>1, <2>4, <2>7
    <3> QED
      BY <3>1, <3>2
  <2>9. \A i \in offset + 1 .. e : hits[i] \in Match \cup {Other}
    <3> HIDE DEF e
    <3>1. \A i \in offset + 1 .. e : i \in 1 .. Len(hits)
      BY <2>8, <2>7
    <3> QED
      BY <3>1, <2>7
  <2>10. /\ Len(page') = IF offset + 1 <= e THEN e - (offset + 1) + 1 ELSE 0
         /\ \A i \in 1 .. e - (offset + 1) + 1 : page'[i] = hits[(offset + 1) + i - 1]
    <3>1. page' = SubSeq(hits, offset + 1, e)
      BY <2>5
    <3> HIDE DEF e
    <3> QED
      BY <3>1, <2>8, <2>9, SubSeqProperties
  <2>11. Len(page') = Shown(Total)
    BY <2>1, <2>4, <2>6, <2>7, <2>10 DEF Shown
  <2>12. ASSUME NEW i \in 1 .. Len(page')
         PROVE  page'[i] = Expected[Skipped + i]
    <3>1. i \in 1 .. e - (offset + 1) + 1 /\ (offset + 1) + i - 1 = offset + i
      BY <2>1, <2>8, <2>10
    <3>2. offset + i \in 1 .. Len(hits)
      <4> HIDE DEF e
      <4> QED
        BY <3>1, <2>1, <2>7, <2>8
    <3> QED
      BY <3>1, <3>2, <2>10, <2>6, <2>1
  <2> QED
    BY <2>1, <2>5, <2>6, <2>11, <2>12
<1> QED
  BY <1>1, <1>2, <1>3 DEF ReplyInv

\* The client reads on: the page continues what it has, and the cursor is where
\* it stops.
LEMMA ReadOn ==
    ASSUME TypeOK, ArgsInv, ReplyInv, SessionInv, Sane, Reply
    PROVE  /\ Len(pages') = Len(pages) + Len(page)
           /\ \A i \in 1 .. Len(pages') : pages'[i] = Expected[First + i]
           /\ Len(pages') > 0 => First + Len(pages') <= Total
           /\ more => /\ Len(page) = limit /\ limit >= 1
                      /\ First + Len(pages') = offset + limit
                      /\ First + Len(pages') < Total
                      /\ Int32(offset + limit) = offset + limit
           /\ ~more /\ tool # "export" =>
                 Len(pages') = IF Total > First THEN Total - First ELSE 0
<1>1. /\ phase = "reply" /\ pages' = pages \o page /\ limit = InForce(asked)
  BY DEF Reply, ArgsInv
<1>2. /\ offset = First + Len(pages) /\ First + Len(pages) + limit <= MaxInt
      /\ Len(pages) > 0 => First + Len(pages) <= Total
      /\ \A i \in 1 .. Len(pages) : pages[i] = Expected[First + i]
  BY <1>1 DEF SessionInv
<1>3. offset \in Nat /\ limit \in Nat /\ Skipped = offset /\ First \in Nat
      /\ Len(pages) \in Nat /\ Len(page) \in Nat /\ Total \in Nat
  <2>1. /\ offset \in Int /\ limit \in Int /\ First \in Nat /\ Len(pages) \in Nat
        /\ Len(page) \in Nat /\ Len(hits) \in Nat
    BY Numbers
  <2>2. limit >= 0 /\ Total \in 0 .. Len(hits)
    BY <1>1, LimitInForce, ReportableFinite
  <2> QED
    BY <1>2, <2>1, <2>2 DEF Skipped
<1>4. /\ Len(page) = Shown(Total)
      /\ \A i \in 1 .. Len(page) : page[i] = Expected[offset + i]
      /\ more = (tool # "export" /\ Total > offset + limit)
  BY <1>1, <1>3 DEF ReplyInv
<1>5. /\ Len(pages') = Len(pages) + Len(page)
      /\ \A i \in 1 .. Len(pages) + Len(page) :
            pages'[i] = IF i <= Len(pages) THEN pages[i] ELSE page[i - Len(pages)]
  BY <1>1, ConcatProperties DEF TypeOK
<1>6. ASSUME NEW i \in 1 .. Len(pages')
      PROVE  pages'[i] = Expected[First + i]
  <2>1. CASE i <= Len(pages)
    BY <2>1, <1>2, <1>3, <1>5
  <2>2. CASE i > Len(pages)
    <3>1. i - Len(pages) \in 1 .. Len(page) /\ offset + (i - Len(pages)) = First + i
      BY <2>2, <1>2, <1>3, <1>5
    <3>2. pages'[i] = page[i - Len(pages)]
      BY <2>2, <1>3, <1>5
    <3> QED
      BY <3>1, <3>2, <1>4
  <2> QED
    BY <2>1, <2>2, <1>3, <1>5
<1>7. Len(page) = IF Total <= offset THEN 0
                  ELSE IF Total - offset <= limit THEN Total - offset ELSE limit
  BY <1>3, <1>4 DEF Shown
<1>8. Len(pages') > 0 => First + Len(pages') <= Total
  BY <1>2, <1>3, <1>5, <1>7
\* From here on only numbers matter.
<1> DEFINE had == Len(pages)
           has == Len(pages')
           brought == Len(page)
<1>9. /\ offset = First + had /\ has = had + brought
      /\ had > 0 => First + had <= Total
      /\ brought = IF Total <= offset THEN 0
                   ELSE IF Total - offset <= limit THEN Total - offset ELSE limit
      /\ limit = 0 => Total = 0
      /\ First + had + limit <= MaxInt
  BY <1>1, <1>2, <1>3, <1>5, <1>7, LimitInForce, ReportableFinite
<1>10. offset \in Nat /\ limit \in Nat /\ First \in Nat /\ had \in Nat /\ brought \in Nat
  BY <1>3
<1>11. Total \in Nat /\ MaxInt \in Nat
  BY <1>3, Numbers
<1>12. /\ more => Total > offset + limit
       /\ ~more /\ tool # "export" => ~(Total > offset + limit)
  <2>1. more = (tool # "export" /\ Total > offset + limit)
    BY <1>4
  <2> QED
    BY <2>1
<1>13. /\ Len(pages') = has /\ Len(page) = brought /\ Len(pages) = had
  OBVIOUS
<1> HIDE DEF had, has, brought
<1>14. ASSUME more
       PROVE  /\ brought = limit /\ limit >= 1
              /\ First + has = offset + limit
              /\ First + has < Total
              /\ Int32(offset + limit) = offset + limit
  <2>1. Total > offset + limit
    BY <1>14, <1>12
  <2>2. brought = limit
    BY <2>1, <1>9, <1>10, <1>11
  <2>3. limit >= 1
    BY <2>1, <1>9, <1>10, <1>11
  <2>4. First + has = offset + limit
    BY <2>2, <1>9, <1>10
  <2>5. offset + limit \in Int /\ offset + limit \in (-MaxInt - 1) .. MaxInt
    BY <1>9, <1>10, <1>11
  <2>6. Int32(offset + limit) = offset + limit
    BY <2>5, Int32Exact
  <2> QED
    BY <2>1, <2>2, <2>3, <2>4, <2>6
<1>15. ~more /\ tool # "export" => has = IF Total > First THEN Total - First ELSE 0
  <2>1. SUFFICES ASSUME ~(Total > offset + limit)
                 PROVE  has = IF Total > First THEN Total - First ELSE 0
    BY <1>12
  <2>2. brought = IF Total <= offset THEN 0 ELSE Total - offset
    BY <2>1, <1>9, <1>10, <1>11
  <2> QED
    BY <2>2, <1>9, <1>10, <1>11
<1> QED
  BY <1>5, <1>6, <1>8, <1>13, <1>14, <1>15

-----------------------------------------------------------------------------
\* The arguments stay as Init and Ask leave them.
LEMMA ArgsStep ==
    ASSUME TypeOK, ArgsInv, [Next]_vars
    PROVE  ArgsInv'
<1>1. CASE Ask
  <2>1. offset \in Int
    BY Numbers
  <2> QED
    BY <1>1, <2>1, InputSame DEF Ask, ArgsInv, input, Corrected
<1>2. CASE Ignore \/ Skip \/ Take \/ Overflow \/ EndOfHits \/ Slice
  <2>1. UNCHANGED <<input, offset, limit>> /\ phase = "scan"
        /\ phase' \in {"scan", "reply", "undefined"}
    BY <1>2 DEF Ignore, Skip, Take, Overflow, EndOfHits, Slice, AtHit, Looping
  <2> QED
    BY <2>1, InputSame DEF ArgsInv, input
<1>3. CASE Reply
  <2>1. UNCHANGED input /\ phase' \in {"ask", "finished"}
    BY <1>3 DEF Reply
  <2> QED
    BY <2>1 DEF ArgsInv, input
<1>4. CASE UNCHANGED vars
  BY <1>4 DEF vars, ArgsInv, InForce
<1> QED
  BY <1>1, <1>2, <1>3, <1>4 DEF Next, Serve, Over

\* The search and the page, step by step.
LEMMA ScanStep ==
    ASSUME TypeOK, ArgsInv, ScanInv, ReplyInv, SessionInv, [Next]_vars
    PROVE  ScanInv' /\ ReplyInv'
<1>1. CASE Ask
  BY <1>1, AskStep DEF ReplyInv
<1>2. CASE Ignore \/ Skip \/ Take \/ Overflow
  <2>1. phase = "scan"
    BY <1>2 DEF Ignore, Skip, Take, Overflow, AtHit, Looping
  <2>2. CASE pos' = pos + 1
    BY <1>2, <2>2, HitStep DEF ReplyInv
  <2>3. CASE pos' # pos + 1
    <3>1. Overflow /\ phase' = "reply" /\ pos' = pos
      BY <1>2, <2>3 DEF Ignore, Skip, Take, Overflow, Advance
    <3> QED
      BY <3>1, CutStep DEF ScanInv, Looping
  <2> QED
    BY <2>2, <2>3
<1>3. CASE EndOfHits
  BY <1>3, EndStep DEF EndOfHits, ScanInv, Looping
<1>4. CASE Slice
  BY <1>4, SliceStep DEF Slice, ScanInv, Looping
<1>5. CASE Reply
  BY <1>5 DEF Reply, ScanInv, ReplyInv, Looping
<1>6. CASE UNCHANGED vars
  <2>1. /\ UNCHANGED input /\ pos' = pos /\ offset' = offset /\ limit' = limit /\ phase' = phase
        /\ seen' = seen /\ found' = found /\ page' = page /\ more' = more /\ total' = total
        /\ tool' = tool /\ hits' = hits /\ total_on' = total_on
    BY <1>6 DEF vars, input
  <2>2. /\ Upto(pos)' = Upto(pos) /\ Total' = Total /\ Expected' = Expected /\ Sane' = Sane
        /\ Once' = Once
    BY <2>1, InputSame
  <2>3. Shown(Upto(pos))' = Shown(Upto(pos)) /\ Shown(Total)' = Shown(Total)
        /\ Skipped' = Skipped
    BY <2>1, <2>2 DEF Shown, Skipped
  <2>4. ScanInv'
    BY <2>1, <2>2, <2>3 DEF ScanInv, Looping
  <2>5. ReplyInv'
    BY <2>1, <2>2, <2>3 DEF ReplyInv
  <2> QED
    BY <2>4, <2>5
<1> QED
  BY <1>1, <1>2, <1>3, <1>4, <1>5, <1>6 DEF Next, Serve, Over

\* What the client has read and where it goes on, step by step.
LEMMA SessionStep ==
    ASSUME TypeOK, ArgsInv, ReplyInv, SessionInv, [Next]_vars
    PROVE  SessionInv'
<1>1. CASE Ask
  <2>1. UNCHANGED input /\ pages' = pages /\ phase = "ask" /\ phase' = "scan"
        /\ offset' = Corrected(offset)
    BY <1>1 DEF Ask
  <2> QED
    BY <2>1, InputSame DEF SessionInv
<1>2. CASE Ignore \/ Skip \/ Take \/ Overflow \/ EndOfHits \/ Slice
  <2>1. UNCHANGED input /\ pages' = pages /\ offset' = offset /\ phase = "scan"
        /\ phase' \in {"scan", "reply", "undefined"}
    BY <1>2 DEF Ignore, Skip, Take, Overflow, EndOfHits, Slice, AtHit, Looping
  <2> QED
    BY <2>1, InputSame DEF SessionInv
<1>3. CASE Reply
  <2>1. /\ UNCHANGED input /\ phase = "reply"
        /\ phase' = (IF Cursor.done THEN "finished" ELSE "ask")
        /\ ~Cursor.done => offset' = Cursor.next
    BY <1>3 DEF Reply
  <2>2. ~Cursor.done => more /\ Cursor.next = Int32(offset + limit)
    BY DEF Cursor, CursorTo, Done
  <2>3. SUFFICES ASSUME Sane
                 PROVE  /\ phase' = "ask" =>
                              /\ Corrected(offset)' = First + Len(pages')
                              /\ First + Len(pages') + InForce(asked) <= MaxInt
                        /\ Len(pages') > 0 => First + Len(pages') <= Total
                        /\ \A i \in 1 .. Len(pages') : pages'[i] = Expected[First + i]
    BY <2>1, InputSame DEF SessionInv
  <2>4. /\ Len(pages') = Len(pages) + Len(page)
        /\ \A i \in 1 .. Len(pages') : pages'[i] = Expected[First + i]
        /\ Len(pages') > 0 => First + Len(pages') <= Total
        /\ more => /\ Len(page) = limit
                   /\ First + Len(pages') = offset + limit
                   /\ First + Len(pages') < Total
                   /\ Int32(offset + limit) = offset + limit
    BY <1>3, <2>3, ReadOn
  <2>5. limit = InForce(asked) /\ offset = First + Len(pages)
    BY <2>1, <2>3 DEF ArgsInv, SessionInv
  <2>6. /\ Total \in Nat /\ Total <= Len(hits) /\ Len(hits) \in Nat
        /\ 2 * (Len(hits) - 1) <= MaxInt
        /\ First \in Nat /\ Len(pages) \in Nat /\ limit \in Int /\ limit >= 0 /\ offset \in Int
        /\ MaxInt \in Nat
    BY <2>3, <2>5, ReportableFinite, Numbers, LimitInForce DEF Sane
  <2>7. ASSUME phase' = "ask"
        PROVE  /\ Corrected(offset)' = First + Len(pages')
               /\ First + Len(pages') + InForce(asked) <= MaxInt
    <3>1. more /\ offset' = Int32(offset + limit)
      BY <2>7, <2>1, <2>2
    <3>2. offset' = First + Len(pages') /\ offset' >= 0 /\ offset' = offset + limit
      BY <3>1, <2>4, <2>5, <2>6
    <3>3. First + Len(pages') <= Len(hits) - 1 /\ limit <= First + Len(pages')
          /\ First + Len(pages') \in Int
      BY <3>1, <3>2, <2>4, <2>5, <2>6
    <3>4. First + Len(pages') + limit <= MaxInt
      BY <3>3, <2>6
    <3>5. Corrected(offset)' = offset'
      BY <3>2, <3>3 DEF Corrected
    <3> QED
      BY <3>2, <3>4, <3>5, <2>5
  <2> QED
    BY <2>4, <2>7
<1>4. CASE UNCHANGED vars
  <2>1. UNCHANGED input /\ pages' = pages /\ offset' = offset /\ phase' = phase /\ tool' = tool
    BY <1>4 DEF vars, input
  <2>2. Corrected(offset)' = Corrected(offset)
    BY <2>1 DEF Corrected
  <2> QED
    BY <2>1, <2>2, InputSame DEF SessionInv
<1> QED
  BY <1>1, <1>2, <1>3, <1>4 DEF Next, Serve, Over

-----------------------------------------------------------------------------
\* The first call starts within the types, with nothing read.
LEMMA InitInv == Init => Inv
<1> SUFFICES ASSUME Init
             PROVE  Inv
  OBVIOUS
<1>1. /\ tool \in Tool /\ hits \in Hits(tool) /\ asked \in Count /\ total_on \in BOOLEAN
      /\ start \in Offset /\ offset = start /\ limit = 0 /\ phase = "ask"
      /\ pos = 1 /\ seen = 0 /\ found = {} /\ page = <<>> /\ more = FALSE /\ total = 0
      /\ next.done /\ pages = <<>>
  BY DEF Init, Done
<1>2. Len(hits) \in Nat
  <2>1. PICK n \in 0 .. MaxHits :
           hits \in [1 .. n -> IF tool \in {"blocks", "list", "xrefs", "export"}
                               THEN Match ELSE Match \cup {Other}]
    BY <1>1 DEF Hits
  <2>2. n \in Nat
    BY PagingAssumption DEF PagingAssumption
  <2> QED
    BY <2>1, <2>2
<1>3. start \in (-MaxInt - 1) .. MaxInt /\ 0 \in (-MaxInt - 1) .. MaxInt
  BY <1>1, PagingAssumption DEF PagingAssumption
<1>4. page \in Seq(Match) /\ pages \in Seq(Match) /\ Len(pages) = 0
  BY <1>1
<1>5. TypeOK
  <2>1. pos \in 1 .. Len(hits) + 1 /\ seen \in 0 .. Len(hits) /\ total \in 0 .. Len(hits)
    BY <1>1, <1>2
  <2>2. offset \in (-MaxInt - 1) .. MaxInt /\ limit \in (-MaxInt - 1) .. MaxInt
    BY <1>1, <1>3
  <2>3. found \subseteq Match /\ more \in BOOLEAN
    BY <1>1
  <2> QED
    BY <1>1, <1>4, <2>1, <2>2, <2>3 DEF TypeOK
<1>6. ArgsInv
  BY <1>1 DEF Init, ArgsInv
<1>7. ScanInv /\ ReplyInv
  BY <1>1 DEF ScanInv, ReplyInv, Looping
<1>8. SessionInv
  <2>1. SUFFICES ASSUME Sane
                 PROVE  /\ Corrected(offset) = First + Len(pages)
                        /\ First + Len(pages) + InForce(asked) <= MaxInt
    BY <1>1, <1>4 DEF SessionInv
  <2>2. start >= 0 \/ tool = "disasm"
    BY <2>1 DEF Sane
  <2>3. First + InForce(asked) <= MaxInt
    BY <2>1 DEF Sane
  <2>4. First \in Nat /\ Corrected(offset) = First
    BY <2>2, <1>1, <1>3, <1>5, Numbers DEF First, Corrected
  <2> QED
    BY <2>3, <2>4, <1>4
<1> QED
  BY <1>5, <1>6, <1>7, <1>8 DEF Inv

\* The inductive invariant: types, arguments, the page half way and finished,
\* and what the client has read, of every tool, result, offset and limit.
THEOREM InvCorrect == Spec => []Inv
<1>1. Inv /\ [Next]_vars => Inv'
  BY TypeStep, ArgsStep, ScanStep, SessionStep DEF Inv
<1> QED
  BY InitInv, <1>1, PTL DEF Spec

\* No offset, limit, counter or page of a reading leaves its range.
THEOREM TypeCorrect == Spec => []TypeOK
<1>1. Inv => TypeOK
  BY DEF Inv
<1> QED
  BY <1>1, InvCorrect, PTL

\* A page is never longer than the limit in force, and one that says there is
\* more is full and is followed by a page that is not empty.
THEOREM PagesAreFullAlways == Spec => []PagesAreFull
<1>1. ASSUME Inv
      PROVE  PagesAreFull
  <2>1. SUFFICES ASSUME phase = "reply", Sane
                 PROVE  /\ Len(page) <= limit
                        /\ more => /\ Len(page) = limit
                                   /\ Len(pages) + limit < Len(Expected) - First
    BY DEF PagesAreFull
  <2>2. TypeOK
    BY <1>1 DEF Inv
  <2>3. limit = InForce(asked) /\ offset = First + Len(pages)
    BY <1>1, <2>1 DEF Inv, ArgsInv, SessionInv
  <2>4. Len(page) = Shown(Total) /\ (more => Total > Skipped + limit)
    BY <1>1, <2>1 DEF Inv, ReplyInv
  <2>5. /\ limit \in Int /\ limit >= 0 /\ Skipped = offset /\ offset \in Int
        /\ Total \in Nat /\ First \in Nat /\ Len(pages) \in Nat
    BY <2>1, <2>2, <2>3, Numbers, LimitInForce, ReportableFinite DEF Skipped
  <2>6. Len(page) <= limit /\ (more => Len(page) = limit)
    BY <2>4, <2>5 DEF Shown
  <2>7. Len(Expected) = Total
    BY <2>2, ExpectedIsSeq
  <2> QED
    BY <2>3, <2>4, <2>5, <2>6, <2>7
<1> QED
  BY <1>1, InvCorrect, PTL

\* total_instructions is the number of instructions of the whole function,
\* whatever page it comes with.
THEOREM TotalIsWholeAlways == Spec => []TotalIsWhole
<1>1. Inv => TotalIsWhole
  BY ExpectedIsSeq DEF Inv, ReplyInv, TotalIsWhole
<1> QED
  BY <1>1, InvCorrect, PTL

-----------------------------------------------------------------------------
\* A reply to a sane client is a page of Reading.
LEMMA ReplyIsPage ==
    ASSUME Inv, Sane, Reply, tool # "export"
    PROVE  Session!Next
<1> DEFINE result == SubSeq(Expected, First + 1, Len(Expected))
           S == {Expected[k] : k \in 1 .. Total}
<1>1. TypeOK /\ ArgsInv /\ ReplyInv /\ SessionInv
  BY DEF Inv
<1>2. /\ Len(pages') = Len(pages) + Len(page)
      /\ \A i \in 1 .. Len(pages') : pages'[i] = Expected[First + i]
      /\ Len(pages') > 0 => First + Len(pages') <= Total
      /\ more => /\ Len(page) = limit /\ limit >= 1
                 /\ First + Len(pages') = offset + limit
                 /\ First + Len(pages') < Total
      /\ ~more => Len(pages') = IF Total > First THEN Total - First ELSE 0
  BY <1>1, ReadOn
<1>3. /\ First \in Nat /\ Total \in Nat /\ Len(pages) \in Nat /\ Len(page) \in Nat
      /\ Len(Expected) = Total
  BY <1>1, Numbers, ReportableFinite, ExpectedIsSeq
<1>4. \A i \in First + 1 .. Total : Expected[i] \in S
  BY <1>3
<1>5. /\ result \in Seq(S)
      /\ Len(result) = IF Total > First THEN Total - First ELSE 0
      /\ \A i \in 1 .. Total - First : result[i] = Expected[First + i]
  <2>1. First + 1 \in Int /\ Total \in Int
    BY <1>3
  <2>2. /\ result \in Seq(S)
        /\ Len(result) = IF First + 1 <= Total THEN Total - (First + 1) + 1 ELSE 0
        /\ \A i \in 1 .. Total - (First + 1) + 1 : result[i] = Expected[(First + 1) + i - 1]
    <3> HIDE DEF S
    <3> QED
      BY <1>3, <1>4, <2>1, SubSeqProperties
  <2>3. Total - (First + 1) + 1 = Total - First /\ (First + 1 <= Total <=> Total > First)
    BY <1>3
  <2>4. \A i \in 1 .. Total - First : (First + 1) + i - 1 = First + i
    BY <1>3
  <2> HIDE DEF result, S
  <2> QED
    BY <2>2, <2>3, <2>4, <1>3
<1> HIDE DEF result, S
<1>6. Len(pages') \in Len(pages) .. Len(result)
  BY <1>2, <1>3, <1>5
<1>7. pages' = SubSeq(result, 1, Len(pages'))
  <2>1. pages' \in Seq(Match)
    BY <1>1, ConcatProperties DEF TypeOK, Reply
  <2>2. \A i \in 1 .. Len(pages') : i \in 1 .. Total - First
    BY <1>2, <1>3
  <2>3. \A i \in 1 .. Len(pages') : result[i] = pages'[i]
    BY <2>2, <1>2, <1>5
  <2>4. Len(pages') \in Int /\ \A i \in 1 .. Len(pages') : pages'[i] \in Match
    BY <2>1
  <2>5. /\ SubSeq(result, 1, Len(pages')) \in Seq(Match)
        /\ Len(SubSeq(result, 1, Len(pages'))) =
              IF 1 <= Len(pages') THEN Len(pages') - 1 + 1 ELSE 0
        /\ \A i \in 1 .. Len(pages') - 1 + 1 :
              SubSeq(result, 1, Len(pages'))[i] = result[1 + i - 1]
    BY <2>3, <2>4, SubSeqProperties
  <2>6. Len(SubSeq(result, 1, Len(pages'))) = Len(pages')
    BY <2>4, <2>5, <1>2, <1>3
  <2>7. \A i \in 1 .. Len(pages') : SubSeq(result, 1, Len(pages'))[i] = pages'[i]
    BY <2>3, <2>4, <2>5
  <2> QED
    BY <2>1, <2>5, <2>6, <2>7, SeqEqual
<1>8. UNCHANGED input /\ phase = "reply" /\ more' = more
      /\ phase' = IF Cursor.done THEN "finished" ELSE "ask"
  BY DEF Reply, loop
<1>9. Told = "open" /\ Sane' /\ result' = result
  BY <1>8, InputSame DEF Told, result
<1>10. Told' \in IF Len(pages') = Len(result) THEN {"whole"} ELSE {"open", "cut"}
  <2>1. CASE more
    BY <2>1, <1>8, <1>2, <1>3, <1>5 DEF Told
  <2>2. CASE ~more
    <3>1. Cursor.done
      BY <2>2 DEF Cursor, Done
    <3> QED
      BY <3>1, <2>2, <1>8, <1>2, <1>5 DEF Told
  <2> QED
    BY <2>1, <2>2
<1>11. Told' # "whole" => Len(pages') > Len(pages)
  <2>1. Told' # "whole" => more
    BY <1>8 DEF Told, Cursor, Done
  <2> QED
    BY <2>1, <1>1, <1>2, <1>3, Numbers
<1>12. Session!Page(Len(pages'))
  BY <1>6, <1>7, <1>9, <1>10, <1>11 DEF Session!Page, result
<1> QED
  BY <1>6, <1>9, <1>12 DEF Session!Next, result

\* Reading by pages is reading: for every tool that says when it cuts, every
\* result, sane offset and limit, the client gets the whole of the result from
\* its offset on, item by item, or is told that it has not.
THEOREM ReadingImplemented ==
    ASSUME "export" \notin Tool
    PROVE  Spec => ImplementsReading
<1>1. Init => Session!Init
  BY DEF Init, Session!Init, Told
<1>2. ASSUME Inv, [Next]_vars
      PROVE  [Session!Next]_(Session!vars)
  <2>1. ASSUME UNCHANGED input, Sane => pages' = pages /\ Told' = Told
        PROVE  UNCHANGED Session!vars
    <3>1. Sane' = Sane /\ Expected' = Expected /\ First' = First
      BY <2>1, InputSame
    <3>2. SubSeq(Expected, First + 1, Len(Expected))' = SubSeq(Expected, First + 1, Len(Expected))
      BY <3>1
    <3>3. (IF Sane THEN pages ELSE <<>>)' = IF Sane THEN pages ELSE <<>>
      BY <3>1, <2>1
    <3>4. (IF Sane THEN Told ELSE "open")' = IF Sane THEN Told ELSE "open"
      BY <3>1, <2>1
    <3> QED
      BY <3>2, <3>3, <3>4 DEF Session!vars
  <2>2. CASE Reply
    <3>1. UNCHANGED input
      BY <2>2 DEF Reply
    <3>2. CASE Sane
      BY <3>2, <1>2, <2>2, ReplyIsPage DEF Inv, TypeOK
    <3>3. CASE ~Sane
      BY <3>1, <3>3, <2>1
    <3> QED
      BY <3>2, <3>3
  <2>3. CASE Ask \/ Ignore \/ Skip \/ Take \/ Overflow \/ EndOfHits \/ Slice
    <3>1. UNCHANGED input /\ pages' = pages /\ phase # "finished" /\ phase' # "finished"
      BY <2>3 DEF Ask, Ignore, Skip, Take, Overflow, EndOfHits, Slice, AtHit, Looping
    <3>2. Told' = Told
      BY <3>1 DEF Told
    <3> QED
      BY <3>1, <3>2, <2>1
  <2>4. CASE UNCHANGED vars
    <3>1. UNCHANGED input /\ pages' = pages /\ phase' = phase /\ more' = more
      BY <2>4 DEF vars, input
    <3>2. Told' = Told
      BY <3>1 DEF Told
    <3> QED
      BY <3>1, <3>2, <2>1
  <2> QED
    BY <1>2, <2>2, <2>3, <2>4 DEF Next, Serve, Over
<1> QED
  BY <1>1, <1>2, InvCorrect, PTL DEF Spec, ImplementsReading, Session!Spec

=============================================================================
