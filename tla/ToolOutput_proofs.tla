--------------------------- MODULE ToolOutput_proofs ---------------------------
(***************************************************************************)
(* Output ids, cache and links for any number of workers and results: two  *)
(* outputs share an id only if their draws overlapped, and nothing that    *)
(* has been linked is evicted before the cache has been full.              *)
(***************************************************************************)
EXTENDS ToolOutput, FiniteSetTheorems, SequenceTheorems, TLAPS

\* Workers that owe a draw, and those inside the generator.
Undrawn == {w \in Worker : step[w] \in {"draw", "drawing"}}
Drawing == {w \in Worker : step[w] = "drawing"}

\* The generator never runs ahead of the calls: with every position read there
\* is a call that has not drawn yet.
CountInv ==
    /\ IsFiniteSet(Undrawn)
    /\ rng - 1 + Cardinality(Undrawn) <= calls
    /\ \A w \in Drawing : seen[w] >= 1 /\ seen[w] - 1 + Cardinality(Undrawn) <= calls

\* What a worker holds at each step.
WorkInv ==
    \A w \in Worker :
        /\ step[w] # "idle" => call[w] \in Call
        /\ step[w] \in {"store", "link"} => id[w] \in OutputId

\* Two workers in the generator know of each other.
RaceInv == \A v, w \in Drawing : v # w => v \in racing /\ w \in racing

\* Id i stands for the output of call c: with a worker, in a link, in the cache.
Carries(w, i, c) == step[w] \in {"store", "link"} /\ id[w] = i /\ call[w] = c
Linked(i, c) == \E l \in links : l.id = i /\ l.call = c
Holds(i, c) == \/ \E w \in Worker : Carries(w, i, c)
               \/ Linked(i, c)
               \/ cache[i] = c

\* An id drawn outside races is behind the generator and behind every position
\* that is about to be written back.
FreshInv ==
    \A i \in OutputId \ raced, c \in Call :
        Holds(i, c) => i < rng /\ \A w \in Drawing : i < seen[w]

\* An id drawn outside races stands for one call.
OwnInv ==
    \A i \in OutputId \ raced : \A c, d \in Call : Holds(i, c) /\ Holds(i, d) => c = d

\* Until the cache has been full, whatever has been stored is there.
StoredInv ==
    /\ Cardinality(Cached) <= Len(inserted)
    /\ Len(inserted) <= CacheMax =>
          /\ \A l \in links : l.id \notin raced => cache[l.id] = l.call
          /\ \A w \in Worker : step[w] = "link" /\ id[w] \notin raced => cache[id[w]] = call[w]

Inv == TypeOK /\ CountInv /\ WorkInv /\ RaceInv /\ FreshInv /\ OwnInv /\ StoredInv

-----------------------------------------------------------------------------
\* How the steps change the set of workers that owe a draw.
LEMMA UndrawnGrows ==
    ASSUME TypeOK, CountInv, NEW w \in Worker, step[w] = "idle",
           step' = [step EXCEPT ![w] = "draw"]
    PROVE  IsFiniteSet(Undrawn)' /\ Cardinality(Undrawn') = Cardinality(Undrawn) + 1
<1>1. Undrawn' = Undrawn \cup {w} /\ w \notin Undrawn
  BY DEF Undrawn, TypeOK
<1> QED
  BY <1>1, FS_AddElement DEF CountInv

\* A call that has drawn is one fewer that has not.
LEMMA UndrawnShrinks ==
    ASSUME TypeOK, CountInv, NEW w \in Worker, step[w] = "drawing",
           step' = [step EXCEPT ![w] = "store"]
    PROVE  IsFiniteSet(Undrawn)' /\ Cardinality(Undrawn') = Cardinality(Undrawn) - 1
<1>1. Undrawn' = Undrawn \ {w} /\ w \in Undrawn
  BY DEF Undrawn, TypeOK
<1> QED
  BY <1>1, FS_RemoveElement DEF CountInv

\* The steps before and after a draw do not change which calls have to draw.
LEMMA UndrawnSame ==
    ASSUME TypeOK, NEW w \in Worker, NEW s \in {"drawing", "link", "idle"},
           step' = [step EXCEPT ![w] = s],
           step[w] \in (IF s = "drawing" THEN {"draw"} ELSE {"store", "link"})
    PROVE  Undrawn' = Undrawn
  BY DEF Undrawn, TypeOK

\* A position that is being drawn is an id.
LEMMA SeenIsId ==
    ASSUME TypeOK, CountInv, NEW w \in Drawing
    PROVE  seen[w] \in OutputId
<1>1. w \in Undrawn
  BY DEF Undrawn, Drawing
<1>2. Cardinality(Undrawn) \in Nat /\ Cardinality(Undrawn) # 0
  BY <1>1, FS_CardinalityType, FS_EmptySet DEF CountInv
<1> QED
  BY <1>2, ToolOutputAssumption DEF CountInv, TypeOK, OutputId, Drawing

\* The position a worker is about to read is an id.
LEMMA RngIsId ==
    ASSUME TypeOK, CountInv, NEW w \in Worker, step[w] = "draw"
    PROVE  rng \in OutputId /\ rng - 1 + Cardinality(Undrawn) <= calls
<1>1. w \in Undrawn
  BY DEF Undrawn
<1>2. Cardinality(Undrawn) \in Nat /\ Cardinality(Undrawn) # 0
  BY <1>1, FS_CardinalityType, FS_EmptySet DEF CountInv
<1> QED
  BY <1>2, ToolOutputAssumption DEF CountInv, TypeOK, OutputId

-----------------------------------------------------------------------------
\* CacheOutput stores the output under its id and evicts at most one entry, none
\* unless the cache is full.
LEMMA CacheOutputStores ==
    ASSUME NEW w \in Worker, CacheOutput(w)
    PROVE  \E without \in SUBSET Cached :
              /\ Store(w, without)
              /\ without # {} => Cardinality(Cached) >= CacheMax
  BY DEF CacheOutput

\* Every step keeps the types.
LEMMA TypeStep == TypeOK /\ CountInv /\ WorkInv /\ [Next]_vars => TypeOK'
<1> SUFFICES ASSUME TypeOK, CountInv, WorkInv, [Next]_vars PROVE TypeOK'
  OBVIOUS
<1> USE ToolOutputAssumption DEF TypeOK, Call, OutputId, Url, race
<1>1. CASE SetDownloadBaseUrl
  BY <1>1 DEF SetDownloadBaseUrl
<1>2. ASSUME NEW w \in Worker, LargeResult(w) PROVE TypeOK'
  BY <1>2 DEF LargeResult
<1>3. ASSUME NEW w \in Worker, DrawBegin(w) PROVE TypeOK'
  <2>1. rng \in OutputId
    BY <1>3, RngIsId DEF DrawBegin
  <2> QED
    BY <1>3, <2>1 DEF DrawBegin
<1>4. ASSUME NEW w \in Worker, DrawEnd(w) PROVE TypeOK'
  <2>1. seen[w] \in 1 .. MaxCalls
    BY <1>4, SeenIsId DEF DrawEnd, Drawing
  <2>2. rng' \in 1 .. MaxCalls + 1 /\ id' \in [Worker -> 0 .. MaxCalls]
    BY <1>4, <2>1 DEF DrawEnd
  <2>3. racing' \subseteq Worker /\ raced' \subseteq OutputId
    BY <1>4, <2>1 DEF DrawEnd
  <2> QED
    BY <1>4, <2>2, <2>3 DEF DrawEnd
<1>5. ASSUME NEW w \in Worker, CacheOutput(w) PROVE TypeOK'
  <2>1. PICK without : Store(w, without)
    BY <1>5, CacheOutputStores
  <2>2. step[w] = "store" /\ call[w] \in Call
    BY <1>5 DEF CacheOutput, WorkInv
  <2>3. inserted' \in Seq(Call)
    BY <2>1, <2>2, AppendProperties DEF Store
  <2> QED
    BY <2>1, <2>2, <2>3 DEF Store, Absent
<1>6. ASSUME NEW w \in Worker, AddDownloadInfo(w) PROVE TypeOK'
  BY <1>6 DEF AddDownloadInfo, Link, WorkInv
<1>7. CASE UNCHANGED vars
  BY <1>7 DEF vars
<1> QED
  BY <1>1, <1>2, <1>3, <1>4, <1>5, <1>6, <1>7 DEF Next

\* The generator is moved only by a call that thereby has drawn.
LEMMA CountStep == TypeOK /\ CountInv /\ [Next]_vars => CountInv'
<1> SUFFICES ASSUME TypeOK, CountInv, [Next]_vars PROVE CountInv'
  OBVIOUS
<1> USE ToolOutputAssumption DEF CountInv, TypeOK
<1>0. Cardinality(Undrawn) \in Nat
  BY FS_CardinalityType
<1>1. CASE SetDownloadBaseUrl
  BY <1>1 DEF SetDownloadBaseUrl, Undrawn, Drawing
<1>2. ASSUME NEW w \in Worker, LargeResult(w) PROVE CountInv'
  <2>1. IsFiniteSet(Undrawn)' /\ Cardinality(Undrawn') = Cardinality(Undrawn) + 1
    BY <1>2, UndrawnGrows DEF LargeResult
  <2>2. Drawing' = Drawing
    BY <1>2 DEF LargeResult, Drawing
  <2> QED
    BY <1>0, <1>2, <2>1, <2>2 DEF LargeResult, Drawing
<1>3. ASSUME NEW w \in Worker, DrawBegin(w) PROVE CountInv'
  <2>1. Undrawn' = Undrawn
    BY <1>3, UndrawnSame DEF DrawBegin
  <2>2. Drawing' = Drawing \cup {w}
    BY <1>3 DEF DrawBegin, Drawing
  <2>3. rng >= 1 /\ rng - 1 + Cardinality(Undrawn) <= calls
    BY <1>3, RngIsId DEF DrawBegin
  <2> QED
    BY <1>0, <1>3, <2>1, <2>2, <2>3 DEF DrawBegin, Drawing
<1>4. ASSUME NEW w \in Worker, DrawEnd(w) PROVE CountInv'
  <2>1. IsFiniteSet(Undrawn)' /\ Cardinality(Undrawn') = Cardinality(Undrawn) - 1
    BY <1>4, UndrawnShrinks DEF DrawEnd
  <2>2. Drawing' = Drawing \ {w} /\ w \in Drawing
    BY <1>4 DEF DrawEnd, Drawing
  <2>3. seen' = seen /\ calls' = calls /\ rng' = seen[w] + 1
    BY <1>4 DEF DrawEnd
  <2>4. calls \in Int /\ \A v \in Drawing : seen[v] \in Int
    BY DEF Drawing
  <2>5. rng' - 1 + Cardinality(Undrawn') <= calls'
    BY <1>0, <2>1, <2>2, <2>3, <2>4
  <2>6. ASSUME NEW v \in Drawing'
        PROVE  seen'[v] >= 1 /\ seen'[v] - 1 + Cardinality(Undrawn') <= calls'
    <3>1. seen[v] \in Int /\ seen[v] >= 1 /\ seen[v] - 1 + Cardinality(Undrawn) <= calls
      BY <2>2, <2>4
    <3>2. seen'[v] = seen[v]
      BY <2>3
    <3>3. seen[v] - 1 + Cardinality(Undrawn') <= calls
      BY <1>0, <2>1, <2>4, <3>1
    <3> QED
      BY <2>3, <3>1, <3>2, <3>3
  <2> QED
    BY <2>1, <2>5, <2>6
<1>5. ASSUME NEW w \in Worker, CacheOutput(w) PROVE CountInv'
  <2>1. PICK without : Store(w, without)
    BY <1>5, CacheOutputStores
  <2>2. step[w] = "store"
    BY <1>5 DEF CacheOutput
  <2>3. Undrawn' = Undrawn
    BY <2>1, <2>2, UndrawnSame DEF Store
  <2>4. Drawing' = Drawing
    BY <2>1, <2>2 DEF Store, Drawing
  <2> QED
    BY <2>1, <2>3, <2>4 DEF Store, Drawing
<1>6. ASSUME NEW w \in Worker, AddDownloadInfo(w) PROVE CountInv'
  <2>1. Undrawn' = Undrawn
    BY <1>6, UndrawnSame DEF AddDownloadInfo
  <2>2. Drawing' = Drawing
    BY <1>6 DEF AddDownloadInfo, Drawing
  <2> QED
    BY <1>6, <2>1, <2>2 DEF AddDownloadInfo, Drawing
<1>7. CASE UNCHANGED vars
  BY <1>7 DEF vars, Undrawn, Drawing
<1> QED
  BY <1>1, <1>2, <1>3, <1>4, <1>5, <1>6, <1>7 DEF Next

\* A worker has a call while it works, and an id once it has drawn.
LEMMA WorkStep == TypeOK /\ CountInv /\ WorkInv /\ [Next]_vars => WorkInv'
<1> SUFFICES ASSUME TypeOK, CountInv, WorkInv, [Next]_vars PROVE WorkInv'
  OBVIOUS
<1> USE ToolOutputAssumption DEF WorkInv, TypeOK
<1>1. CASE SetDownloadBaseUrl
  BY <1>1 DEF SetDownloadBaseUrl
<1>2. ASSUME NEW w \in Worker, LargeResult(w) PROVE WorkInv'
  BY <1>2 DEF LargeResult, Call
<1>3. ASSUME NEW w \in Worker, DrawBegin(w) PROVE WorkInv'
  BY <1>3 DEF DrawBegin
<1>4. ASSUME NEW w \in Worker, DrawEnd(w) PROVE WorkInv'
  <2>1. seen[w] \in OutputId
    BY <1>4, SeenIsId DEF DrawEnd, Drawing
  <2> QED
    BY <1>4, <2>1 DEF DrawEnd
<1>5. ASSUME NEW w \in Worker, CacheOutput(w) PROVE WorkInv'
  BY <1>5, CacheOutputStores DEF CacheOutput, Store
<1>6. ASSUME NEW w \in Worker, AddDownloadInfo(w) PROVE WorkInv'
  BY <1>6 DEF AddDownloadInfo
<1>7. CASE UNCHANGED vars
  BY <1>7 DEF vars
<1> QED
  BY <1>1, <1>2, <1>3, <1>4, <1>5, <1>6, <1>7 DEF Next

\* Who enters the generator while another is inside marks both.
LEMMA RaceStep == TypeOK /\ RaceInv /\ [Next]_vars => RaceInv'
<1> SUFFICES ASSUME TypeOK, RaceInv, [Next]_vars PROVE RaceInv'
  OBVIOUS
<1> USE DEF RaceInv, TypeOK, Drawing, race
<1>1. CASE SetDownloadBaseUrl
  BY <1>1 DEF SetDownloadBaseUrl
<1>2. ASSUME NEW w \in Worker, LargeResult(w) PROVE RaceInv'
  BY <1>2 DEF LargeResult
<1>3. ASSUME NEW w \in Worker, DrawBegin(w) PROVE RaceInv'
  BY <1>3 DEF DrawBegin
<1>4. ASSUME NEW w \in Worker, DrawEnd(w) PROVE RaceInv'
  BY <1>4 DEF DrawEnd
<1>5. ASSUME NEW w \in Worker, CacheOutput(w) PROVE RaceInv'
  BY <1>5, CacheOutputStores DEF CacheOutput, Store
<1>6. ASSUME NEW w \in Worker, AddDownloadInfo(w) PROVE RaceInv'
  BY <1>6 DEF AddDownloadInfo
<1>7. CASE UNCHANGED vars
  BY <1>7 DEF vars
<1> QED
  BY <1>1, <1>2, <1>3, <1>4, <1>5, <1>6, <1>7 DEF Next

-----------------------------------------------------------------------------
\* Only DrawEnd makes an id stand for a call it did not stand for before.
LEMMA HoldsStep ==
    ASSUME TypeOK, WorkInv, [Next]_vars,
           NEW i \in OutputId, NEW c \in Call, Holds(i, c)'
    PROVE  \/ Holds(i, c)
           \/ \E w \in Worker : DrawEnd(w) /\ i = seen[w] /\ c = call[w]
<1> USE DEF TypeOK, Holds, Carries, Linked
<1>1. CASE SetDownloadBaseUrl
  BY <1>1 DEF SetDownloadBaseUrl
<1>2. ASSUME NEW w \in Worker, LargeResult(w) PROVE Holds(i, c)
  BY <1>2 DEF LargeResult
<1>3. ASSUME NEW w \in Worker, DrawBegin(w) PROVE Holds(i, c)
  BY <1>3 DEF DrawBegin
<1>4. ASSUME NEW w \in Worker, DrawEnd(w)
      PROVE  Holds(i, c) \/ (i = seen[w] /\ c = call[w])
  BY <1>4 DEF DrawEnd
<1>5. ASSUME NEW w \in Worker, CacheOutput(w) PROVE Holds(i, c)
  <2>1. PICK without : Store(w, without)
    BY <1>5, CacheOutputStores
  <2>2. step[w] = "store" /\ c # Absent
    BY <1>5 DEF CacheOutput, Call, Absent
  <2>3. CASE \E v \in Worker : Carries(v, i, c)'
    BY <2>1, <2>2, <2>3 DEF Store
  <2>4. CASE Linked(i, c)'
    BY <2>1, <2>4 DEF Store
  <2>5. CASE cache'[i] = c
    BY <2>1, <2>2, <2>5 DEF Store
  <2> QED
    BY <2>3, <2>4, <2>5
<1>6. ASSUME NEW w \in Worker, AddDownloadInfo(w) PROVE Holds(i, c)
  BY <1>6 DEF AddDownloadInfo
<1>7. CASE UNCHANGED vars
  BY <1>7 DEF vars
<1> QED
  BY <1>1, <1>2, <1>3, <1>4, <1>5, <1>6, <1>7 DEF Next

\* What the steps other than DrawEnd do to the generator: at most one worker
\* more reads its position.
LEMMA DrawKept ==
    ASSUME TypeOK, [Next]_vars, \A w \in Worker : ~DrawEnd(w)
    PROVE  /\ rng' = rng /\ raced' = raced
           /\ \A w \in Drawing' : seen'[w] = IF w \in Drawing THEN seen[w] ELSE rng
<1> USE DEF TypeOK, Drawing, race
<1>1. CASE SetDownloadBaseUrl
  BY <1>1 DEF SetDownloadBaseUrl
<1>2. ASSUME NEW w \in Worker, LargeResult(w)
      PROVE  /\ rng' = rng /\ raced' = raced
             /\ \A v \in Drawing' : v \in Drawing /\ seen'[v] = seen[v]
  BY <1>2 DEF LargeResult
<1>3. ASSUME NEW w \in Worker, DrawBegin(w)
      PROVE  /\ rng' = rng /\ raced' = raced
             /\ \A v \in Drawing' : seen'[v] = IF v \in Drawing THEN seen[v] ELSE rng
  BY <1>3 DEF DrawBegin
<1>4. ASSUME NEW w \in Worker, CacheOutput(w)
      PROVE  /\ rng' = rng /\ raced' = raced
             /\ \A v \in Drawing' : v \in Drawing /\ seen'[v] = seen[v]
  BY <1>4, CacheOutputStores DEF CacheOutput, Store
<1>5. ASSUME NEW w \in Worker, AddDownloadInfo(w)
      PROVE  /\ rng' = rng /\ raced' = raced
             /\ \A v \in Drawing' : v \in Drawing /\ seen'[v] = seen[v]
  BY <1>5 DEF AddDownloadInfo
<1>6. CASE UNCHANGED vars
  BY <1>6 DEF vars
<1> QED
  BY <1>1, <1>2, <1>3, <1>4, <1>5, <1>6 DEF Next

\* What DrawEnd does to it: it goes on from the position read, and if another
\* worker is inside, the id is known to have been drawn in a race.
LEMMA DrawEnded ==
    ASSUME TypeOK, CountInv, RaceInv, NEW w \in Worker, DrawEnd(w)
    PROVE  /\ w \in Drawing /\ seen[w] \in OutputId
           /\ rng' = seen[w] + 1 /\ seen' = seen /\ raced \subseteq raced'
           /\ Drawing' = Drawing \ {w}
           /\ Drawing' # {} => seen[w] \in raced'
<1>1. w \in Drawing /\ Drawing' = Drawing \ {w}
  BY DEF DrawEnd, Drawing, TypeOK
<1>2. seen[w] \in OutputId
  BY <1>1, SeenIsId
<1>3. Drawing' # {} => w \in racing
  BY <1>1 DEF RaceInv
<1> QED
  BY <1>1, <1>2, <1>3 DEF DrawEnd

\* An id drawn outside a race is new, and stays behind the generator.
LEMMA FreshStep == TypeOK /\ CountInv /\ WorkInv /\ RaceInv /\ FreshInv /\ [Next]_vars => FreshInv'
<1> SUFFICES ASSUME TypeOK, CountInv, WorkInv, RaceInv, FreshInv, [Next]_vars,
                    NEW i \in OutputId, i \notin raced', NEW c \in Call, Holds(i, c)'
             PROVE  i < rng' /\ \A w \in Drawing' : i < seen'[w]
  BY DEF FreshInv
<1>1. CASE \A w \in Worker : ~DrawEnd(w)
  <2>1. i \notin raced /\ Holds(i, c)
    BY <1>1, HoldsStep, DrawKept
  <2> QED
    BY <1>1, <2>1, DrawKept DEF FreshInv
<1>2. ASSUME NEW w \in Worker, DrawEnd(w)
      PROVE  i < rng' /\ \A v \in Drawing' : i < seen'[v]
  <2>1. /\ w \in Drawing /\ seen[w] \in OutputId
        /\ rng' = seen[w] + 1 /\ seen' = seen /\ raced \subseteq raced'
        /\ Drawing' = Drawing \ {w}
        /\ Drawing' # {} => seen[w] \in raced'
    BY <1>2, DrawEnded
  <2>2. i \in Int /\ seen[w] \in Int
    BY <2>1, ToolOutputAssumption DEF OutputId
  <2>3. CASE Holds(i, c)
    <3>1. \A v \in Drawing : i < seen[v]
      BY <2>1, <2>3 DEF FreshInv
    <3>2. i < rng'
      BY <2>1, <2>2, <3>1
    <3> QED
      BY <2>1, <3>1, <3>2
  <2>4. CASE i = seen[w]
    <3>1. Drawing' = {}
      BY <2>1, <2>4
    <3> QED
      BY <2>1, <2>2, <2>4, <3>1
  <2>5. Holds(i, c) \/ i = seen[w]
    <3>1. \A v \in Worker : DrawEnd(v) /\ v # w => FALSE
      BY <1>2 DEF DrawEnd, TypeOK
    <3> QED
      BY <3>1, HoldsStep
  <2> QED
    BY <2>3, <2>4, <2>5
<1> QED
  BY <1>1, <1>2

\* A new id is held for one call, and passed on with it.
LEMMA OwnStep == TypeOK /\ CountInv /\ WorkInv /\ RaceInv /\ FreshInv /\ OwnInv /\ [Next]_vars
                    => OwnInv'
<1> SUFFICES ASSUME TypeOK, CountInv, WorkInv, RaceInv, FreshInv, OwnInv, [Next]_vars,
                    NEW i \in OutputId, i \notin raced', NEW c \in Call, NEW d \in Call,
                    Holds(i, c)', Holds(i, d)'
             PROVE  c = d
  BY DEF OwnInv
<1>1. CASE \A w \in Worker : ~DrawEnd(w)
  <2>1. i \notin raced /\ Holds(i, c) /\ Holds(i, d)
    BY <1>1, HoldsStep, DrawKept
  <2> QED
    BY <2>1 DEF OwnInv
<1>2. ASSUME NEW w \in Worker, DrawEnd(w) PROVE c = d
  <2>1. w \in Drawing /\ seen[w] \in Int /\ raced \subseteq raced'
    BY <1>2, DrawEnded, ToolOutputAssumption DEF OutputId
  <2>2. \A v \in Worker : DrawEnd(v) => v = w
    BY <1>2 DEF DrawEnd, TypeOK
  <2>3. \/ Holds(i, c) /\ Holds(i, d)
        \/ i = seen[w] /\ (Holds(i, c) \/ Holds(i, d) \/ c = d)
    BY <2>2, HoldsStep
  <2>4. i = seen[w] => ~Holds(i, c) /\ ~Holds(i, d)
    BY <2>1 DEF FreshInv
  <2> QED
    BY <2>1, <2>3, <2>4 DEF OwnInv
<1> QED
  BY <1>1, <1>2

-----------------------------------------------------------------------------
\* The cache is finite.
LEMMA CachedFinite == TypeOK => IsFiniteSet(Cached) /\ Cardinality(Cached) \in Nat
<1> SUFFICES ASSUME TypeOK PROVE IsFiniteSet(Cached) /\ Cardinality(Cached) \in Nat
  OBVIOUS
<1>1. IsFiniteSet(OutputId)
  BY FS_Interval, ToolOutputAssumption DEF OutputId
<1>2. Cached \subseteq OutputId
  BY DEF Cached
<1> QED
  BY <1>1, <1>2, FS_Subset, FS_CardinalityType

\* Nothing but CacheOutput touches the cache, and only it lets a worker answer.
LEMMA CacheKept ==
    ASSUME TypeOK, [Next]_vars, \A w \in Worker : ~CacheOutput(w)
    PROVE  /\ cache' = cache /\ inserted' = inserted /\ raced \subseteq raced'
           /\ \A w \in Worker : step'[w] = "link" =>
                 step[w] = "link" /\ id'[w] = id[w] /\ call'[w] = call[w]
           /\ \A l \in links' : l \in links \/
                 \E w \in Worker : step[w] = "link" /\ l.id = id[w] /\ l.call = call[w]
<1> USE DEF TypeOK, race
<1>1. CASE SetDownloadBaseUrl
  BY <1>1 DEF SetDownloadBaseUrl
<1>2. CASE \E w \in Worker : LargeResult(w)
  BY <1>2 DEF LargeResult
<1>3. CASE \E w \in Worker : DrawBegin(w)
  BY <1>3 DEF DrawBegin
<1>4. CASE \E w \in Worker : DrawEnd(w)
  BY <1>4 DEF DrawEnd
<1>5. CASE \E w \in Worker : AddDownloadInfo(w)
  <2>1. PICK w \in Worker : AddDownloadInfo(w)
    BY <1>5
  <2>2. \A l \in links' : l \in links \/ (l.id = id[w] /\ l.call = call[w])
    BY <2>1 DEF AddDownloadInfo
  <2>3. \A v \in Worker : step'[v] = "link" => step[v] = "link"
    BY <2>1 DEF AddDownloadInfo
  <2> QED
    BY <2>1, <2>2, <2>3 DEF AddDownloadInfo
<1>6. CASE UNCHANGED vars
  BY <1>6 DEF vars
<1> QED
  BY <1>1, <1>2, <1>3, <1>4, <1>5, <1>6 DEF Next

\* The cache grows by at most the entry that is stored.
LEMMA SizeStep ==
    ASSUME TypeOK, TypeOK', WorkInv, NEW w \in Worker, CacheOutput(w)
    PROVE  Cardinality(Cached') <= Cardinality(Cached) + 1
           /\ inserted \in Seq(Call) /\ Len(inserted') = Len(inserted) + 1
<1>1. PICK without \in SUBSET Cached : Store(w, without)
  BY CacheOutputStores
<1>2. \A i \in OutputId : cache'[i] \in {Absent, cache[i]} \/ i = id[w]
  BY <1>1 DEF Store
<1>3. Cached' \subseteq Cached \cup {id[w]}
  BY <1>2 DEF Cached
<1>4. IsFiniteSet(Cached \cup {id[w]})
      /\ Cardinality(Cached \cup {id[w]}) <= Cardinality(Cached) + 1
  BY CachedFinite, FS_AddElement
<1>5. Cardinality(Cached') <= Cardinality(Cached \cup {id[w]})
      /\ Cardinality(Cached') \in Nat /\ Cardinality(Cached \cup {id[w]}) \in Nat
  BY <1>3, <1>4, FS_Subset, FS_CardinalityType
<1>6. call[w] \in Call /\ inserted \in Seq(Call)
  BY DEF CacheOutput, WorkInv, TypeOK
<1>7. Len(inserted') = Len(inserted) + 1
  BY <1>1, <1>6, AppendProperties DEF Store
<1> QED
  BY <1>4, <1>5, <1>6, <1>7, CachedFinite

\* A store into a cache that has not been full evicts nothing.
LEMMA StoredStep == TypeOK /\ TypeOK' /\ WorkInv /\ OwnInv /\ StoredInv /\ [Next]_vars => StoredInv'
<1> SUFFICES ASSUME TypeOK, TypeOK', WorkInv, OwnInv, StoredInv, [Next]_vars
             PROVE  StoredInv'
  OBVIOUS
<1>1. CASE \A w \in Worker : ~CacheOutput(w)
  <2> DEFINE NewLink(l) ==
        \E w \in Worker : step[w] = "link" /\ l.id = id[w] /\ l.call = call[w]
  <2>1. /\ cache' = cache /\ inserted' = inserted /\ raced \subseteq raced'
        /\ \A w \in Worker : step'[w] = "link" =>
              step[w] = "link" /\ id'[w] = id[w] /\ call'[w] = call[w]
        /\ \A l \in links' : l \in links \/ NewLink(l)
    BY <1>1, CacheKept
  <2>2. Cached' = Cached
    BY <2>1 DEF Cached
  <2>3. ASSUME Len(inserted) <= CacheMax, NEW l \in links', l.id \notin raced'
        PROVE  cache[l.id] = l.call
    <3>1. CASE l \in links
      BY <2>1, <2>3, <3>1 DEF StoredInv
    <3>2. CASE NewLink(l)
      BY <2>1, <2>3, <3>2 DEF StoredInv
    <3> QED
      BY <2>1, <3>1, <3>2
  <2>4. ASSUME Len(inserted) <= CacheMax,
               NEW w \in Worker, step'[w] = "link", id'[w] \notin raced'
        PROVE  cache[id'[w]] = call'[w]
    BY <2>1, <2>4 DEF StoredInv
  <2>5. Cardinality(Cached') <= Len(inserted')
    BY <2>1, <2>2 DEF StoredInv
  <2> QED
    BY <2>1, <2>3, <2>4, <2>5 DEF StoredInv
<1>2. ASSUME NEW w \in Worker, CacheOutput(w) PROVE StoredInv'
  <2>1. PICK without \in SUBSET Cached :
           Store(w, without) /\ (without # {} => Cardinality(Cached) >= CacheMax)
    BY <1>2, CacheOutputStores
  <2>2. /\ step[w] = "store" /\ call[w] \in Call /\ id[w] \in OutputId
        /\ raced' = raced /\ links' = links /\ id' = id /\ call' = call
        /\ \A v \in Worker : step'[v] = "link" => v = w \/ step[v] = "link"
    BY <1>2, <2>1 DEF CacheOutput, WorkInv, Store, race, TypeOK
  <2>3. /\ Cardinality(Cached') <= Cardinality(Cached) + 1
        /\ Len(inserted') = Len(inserted) + 1
        /\ Cardinality(Cached) <= Len(inserted)
        /\ Cardinality(Cached) \in Nat /\ Len(inserted) \in Nat
        /\ Cardinality(Cached') \in Nat
    <3>1. Len(inserted) \in Nat
      BY LenProperties DEF TypeOK
    <3>2. Cardinality(Cached') \in Nat
      <4>1. cache' \in [OutputId -> 0 .. MaxCalls] /\ Cached' \subseteq OutputId
        BY DEF Cached, TypeOK
      <4>2. IsFiniteSet(OutputId)
        BY FS_Interval, ToolOutputAssumption DEF OutputId
      <4>3. IsFiniteSet(Cached')
        BY <4>1, <4>2, FS_Subset
      <4> QED
        BY <4>3, FS_CardinalityType
    <3> QED
      BY <1>2, <3>1, <3>2, SizeStep, CachedFinite DEF StoredInv
  <2>4. Cardinality(Cached') <= Len(inserted')
    BY <2>3
  <2>5. ASSUME Len(inserted') <= CacheMax
        PROVE  /\ \A l \in links' : l.id \notin raced' => cache'[l.id] = l.call
               /\ \A v \in Worker : step'[v] = "link" /\ id'[v] \notin raced'
                                        => cache'[id'[v]] = call'[v]
    <3>1. without = {} /\ Len(inserted) <= CacheMax
      BY <2>1, <2>3, <2>5, ToolOutputAssumption
    <3>2. \A i \in OutputId : cache'[i] = IF i = id[w] THEN call[w] ELSE cache[i]
      BY <2>1, <3>1 DEF Store
    <3>3. Holds(id[w], call[w])
      BY <2>2 DEF Holds, Carries
    <3>4. ASSUME NEW i \in OutputId, NEW c \in Call, i \notin raced, Holds(i, c), cache[i] = c
          PROVE  cache'[i] = c
      <4>1. CASE i = id[w]
        <5>1. c = call[w]
          BY <2>2, <3>3, <3>4, <4>1 DEF OwnInv
        <5> QED
          BY <3>2, <4>1, <5>1
      <4>2. CASE i # id[w]
        BY <3>2, <3>4, <4>2
      <4> QED
        BY <4>1, <4>2
    <3>5. ASSUME NEW l \in links', l.id \notin raced' PROVE cache'[l.id] = l.call
      <4>1. l.id \in OutputId /\ l.call \in Call /\ Holds(l.id, l.call)
        BY <2>2 DEF TypeOK, Link, Holds, Linked
      <4>2. cache[l.id] = l.call
        BY <2>2, <3>1, <3>5 DEF StoredInv
      <4> QED
        BY <2>2, <3>4, <3>5, <4>1, <4>2
    <3>6. ASSUME NEW v \in Worker, step'[v] = "link", id'[v] \notin raced'
          PROVE  cache'[id'[v]] = call'[v]
      <4>1. CASE v = w
        BY <2>2, <3>2, <4>1
      <4>2. CASE step[v] = "link"
        <5>1. id[v] \in OutputId /\ call[v] \in Call /\ Holds(id[v], call[v])
          BY <4>2 DEF WorkInv, Holds, Carries
        <5>2. cache[id[v]] = call[v]
          BY <2>2, <3>1, <3>6, <4>2 DEF StoredInv
        <5> QED
          BY <2>2, <3>4, <3>6, <5>1, <5>2
      <4> QED
        BY <2>2, <3>6, <4>1, <4>2
    <3> QED
      BY <3>5, <3>6
  <2> QED
    BY <2>4, <2>5 DEF StoredInv
<1> QED
  BY <1>1, <1>2

-----------------------------------------------------------------------------
\* Nothing is drawn, stored or announced at first.
LEMMA InitInv == Init => Inv
<1> SUFFICES ASSUME Init PROVE Inv
  OBVIOUS
<1> USE ToolOutputAssumption
<1>1. TypeOK
  BY DEF Init, TypeOK, Url, OutputId, Call, Link, Absent
<1>2. Undrawn = {} /\ Drawing = {} /\ Cached = {}
  BY DEF Init, Undrawn, Drawing, Cached
<1>3. CountInv
  BY <1>2, FS_EmptySet DEF Init, CountInv
<1>4. WorkInv /\ RaceInv
  BY <1>2 DEF Init, WorkInv, RaceInv
<1>5. \A i \in OutputId, c \in Call : ~Holds(i, c)
  BY DEF Init, Holds, Carries, Linked, Call, OutputId, Absent
<1>6. FreshInv /\ OwnInv
  BY <1>5 DEF FreshInv, OwnInv
<1>7. Cardinality(Cached) = 0 /\ Len(inserted) = 0
  BY <1>2, FS_EmptySet DEF Init
<1>8. StoredInv
  BY <1>7 DEF Init, StoredInv
<1> QED
  BY <1>1, <1>3, <1>4, <1>6, <1>8 DEF Inv

\* The invariant is inductive.
LEMMA NextInv == Inv /\ [Next]_vars => Inv'
  BY TypeStep, CountStep, WorkStep, RaceStep, FreshStep, OwnStep, StoredStep DEF Inv

(***************************************************************************)
(* The invariant holds throughout: with every call that is behind another  *)
(* in uuid_v4 accounted for as racing.                                     *)
(***************************************************************************)
THEOREM InvCorrect == Spec => []Inv
  BY InitInv, NextInv, PTL DEF Spec

(***************************************************************************)
(* TypeOK is an invariant: in particular the generator of uuid_v4 never    *)
(* advances further than there are calls.                                  *)
(***************************************************************************)
THEOREM TypeCorrect == Spec => []TypeOK
<1>1. Inv => TypeOK
  BY DEF Inv
<1> QED
  BY <1>1, InvCorrect, PTL

(***************************************************************************)
(* DownloadIsOwn for any number of workers, results and cache entries: a   *)
(* link of add_download_info leads to its own call's output or to nothing. *)
(***************************************************************************)
THEOREM DownloadIsOwnAlways == Spec => []DownloadIsOwn
<1>1. Inv => DownloadIsOwn
  <2> SUFFICES ASSUME Inv, NEW l \in links, l.id \notin raced, cache[l.id] # Absent
               PROVE  cache[l.id] = l.call
    BY DEF DownloadIsOwn, get_cached_output
  <2>1. l.id \in OutputId /\ l.call \in Call /\ cache[l.id] \in Call
    BY ToolOutputAssumption DEF Inv, TypeOK, Link, Call, Absent
  <2>2. Holds(l.id, l.call) /\ Holds(l.id, cache[l.id])
    BY DEF Holds, Linked
  <2> QED
    BY <2>1, <2>2 DEF Inv, OwnInv
<1> QED
  BY <1>1, InvCorrect, PTL

(***************************************************************************)
(* LinksWorkUntilFull for any number of workers, results and cache         *)
(* entries: cache_output evicts nothing before the cache has been full.    *)
(***************************************************************************)
THEOREM LinksWorkUntilFullAlways == Spec => []LinksWorkUntilFull
<1>1. Inv => LinksWorkUntilFull
  BY DEF Inv, StoredInv, LinksWorkUntilFull, get_cached_output
<1> QED
  BY <1>1, InvCorrect, PTL
=============================================================================
