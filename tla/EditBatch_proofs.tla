---------------------------- MODULE EditBatch_proofs ----------------------------
(***************************************************************************)
(* Batches of edits, for databases of any size and batches of any length:  *)
(* names stay unique, only a variable that is named is deleted from its    *)
(* frame, and the client of a finished batch can account for every change  *)
(* by an item reported as done; what put_int writes get_int reads back.    *)
(***************************************************************************)
EXTENDS EditBatch, Numbers_proofs, FiniteSetTheorems, NaturalsInduction

\* What outcome r of item i may have changed of database d, component by
\* component.
MemEffect(i, d, r) ==
    \A a \in Addr : r.db.mem[a] # d.mem[a] =>
        i.kind = "asm" \/ (r.ok /\ i.kind \in {"patch", "int"} /\ a \in Span(i))

CmtEffect(i, d, r) ==
    \A a \in Addr : r.db.cmt[a] # d.cmt[a] =>
        r.ok /\ i.kind = "comment" /\ i.addr = a /\ i.comment = r.db.cmt[a]

NameEffect(i, d, r) ==
    \A a \in Addr : r.db.name[a] # d.name[a] =>
        r.ok /\ i.kind \in {"func", "data"} /\ i.new = r.db.name[a]

TypeEffect(i, d, r) ==
    \A a \in Addr : r.db.type[a] # d.type[a] =>
        r.ok /\ i.kind = "settype" /\ i.addr = a /\ i.type = r.db.type[a] /\ KindOf(i) # "stack"

FuncEffect(i, d, r) ==
    \A f \in r.db.funcs \ d.funcs : r.ok /\ i.kind = "define" /\ i.addr = f

FrameEffect(i, d, r) ==
    \A f \in FuncEntry : \A m \in r.db.frame[f] \ d.frame[f] :
        /\ r.ok
        /\ \/ i.kind = "stack" /\ i.addr = f /\ i.new = m.name
           \/ /\ i.kind = "declare" /\ i.addr = f
              /\ i.off = m.off /\ i.name = m.name /\ i.type = m.type
           \/ /\ i.kind = "settype" /\ i.addr = f
              /\ i.name = m.name /\ i.type = m.type /\ KindOf(i) = "stack"

ItemEffect(i, d, r) ==
    /\ \A it \in r.db.items \ d.items :
          r.ok /\ i.kind = "code" /\ i.addr = it.ea /\ it.len = InsnLen[it.ea]
    /\ \A it \in d.items \ r.db.items :
          r.ok /\ i.kind = "undefine" /\ Asked(i) \cap Bytes(it) # {}

DeclEffect(i, d, r) ==
    /\ d.types \subseteq r.db.types
    /\ r.ok /\ i.kind = "decl" => Range(i.decls) \subseteq r.db.types

\* The variables of function f that d has and e has not.
Gone(f, d, e) == {m \in d.frame[f] : \A n \in e.frame[f] : n.off # m.off}

DeleteEffect(i, d, r) ==
    \A f \in FuncEntry : Gone(f, d, r.db) # {} =>
        /\ i.kind = "delete" /\ i.addr = f
        /\ \A m \in Gone(f, d, r.db) :
              m.name = i.name /\ m.off \notin Special /\ m.off < ArgFrom
        /\ Cardinality(Gone(f, d, r.db)) = 1

\* Variables of one frame are told apart by name and by place.
Apart(frame) ==
    \A m1, m2 \in frame : m1 # m2 => m1.name # m2.name /\ Cells(m1) \cap Cells(m2) = {}

FramesApart(d) == \A f \in FuncEntry : Apart(d.frame[f])

NamesApart(d) == \A n \in Name : \A a, b \in Holders(d, n) : a = b

Effect(i, d, r) ==
    /\ r.ok \in BOOLEAN /\ r.db \in Database
    /\ FramesApart(r.db) /\ NamesApart(r.db)
    /\ MemEffect(i, d, r) /\ CmtEffect(i, d, r) /\ NameEffect(i, d, r) /\ TypeEffect(i, d, r)
    /\ FuncEffect(i, d, r) /\ FrameEffect(i, d, r) /\ ItemEffect(i, d, r)
    /\ DeclEffect(i, d, r) /\ DeleteEffect(i, d, r)

-----------------------------------------------------------------------------
\* A finite set has at most one element if and only if its elements are equal.
LEMMA AtMostOne ==
    ASSUME NEW S, IsFiniteSet(S)
    PROVE  Cardinality(S) <= 1 <=> \A a, b \in S : a = b
<1>1. ASSUME Cardinality(S) <= 1, NEW a \in S, NEW b \in S, a # b
      PROVE  FALSE
  <2>1. {a, b} \in SUBSET S
    OBVIOUS
  <2>2. IsFiniteSet({a}) /\ Cardinality({a}) = 1
    BY FS_Singleton
  <2>3. Cardinality({a} \cup {b}) = 2
    BY <2>2, <1>1, FS_AddElement
  <2>4. Cardinality({a, b}) <= Cardinality(S)
    BY <2>1, FS_Subset
  <2>5. {a} \cup {b} = {a, b}
    OBVIOUS
  <2>6. Cardinality(S) \in Nat
    BY FS_CardinalityType
  <2> QED
    BY <2>3, <2>4, <2>5, <2>6, <1>1
<1>2. ASSUME \A a, b \in S : a = b
      PROVE  Cardinality(S) <= 1
  <2>1. CASE S = {}
    BY <2>1, FS_EmptySet
  <2>2. CASE S # {}
    <3>1. PICK a \in S : S = {a}
      BY <2>2, <1>2
    <3> QED
      BY <3>1, FS_Singleton
  <2> QED
    BY <2>1, <2>2
<1> QED
  BY <1>1, <1>2

\* The uniqueness of names the runs check, without counting.
LEMMA UniqueIsApart ==
    ASSUME NEW d
    PROVE  NamesUnique(d) <=> NamesApart(d) /\ FramesApart(d)
<1>1. \A n \in Name : IsFiniteSet(Holders(d, n))
  <2>1. Top \in Int
    BY EditAssumption DEF EditAssumption
  <2>2. IsFiniteSet(Addr)
    BY <2>1, FS_Interval DEF Addr
  <2> QED
    BY <2>2, FS_Subset DEF Holders
<1>2. \A n \in Name : Cardinality(Holders(d, n)) <= 1 <=> \A a, b \in Holders(d, n) : a = b
  BY <1>1, AtMostOne
<1> QED
  BY <1>2 DEF NamesUnique, NamesApart, FramesApart, Apart

\* A component that stays the same accounts for itself.
LEMMA SameParts ==
    ASSUME NEW i, NEW d, NEW r
    PROVE  /\ r.db.mem = d.mem => MemEffect(i, d, r)
           /\ r.db.cmt = d.cmt => CmtEffect(i, d, r)
           /\ r.db.name = d.name => NameEffect(i, d, r) /\ (NamesApart(d) => NamesApart(r.db))
           /\ r.db.type = d.type => TypeEffect(i, d, r)
           /\ r.db.funcs = d.funcs => FuncEffect(i, d, r)
           /\ r.db.frame = d.frame =>
                 FrameEffect(i, d, r) /\ DeleteEffect(i, d, r) /\ (FramesApart(d) => FramesApart(r.db))
           /\ r.db.items = d.items => ItemEffect(i, d, r)
           /\ r.db.types = d.types /\ i.kind # "decl" => DeclEffect(i, d, r)
<1>1. r.db.mem = d.mem => MemEffect(i, d, r)
  BY DEF MemEffect
<1>2. r.db.cmt = d.cmt => CmtEffect(i, d, r)
  BY DEF CmtEffect
<1>3. r.db.name = d.name => NameEffect(i, d, r) /\ (NamesApart(d) => NamesApart(r.db))
  BY DEF NameEffect, NamesApart, Holders
<1>4. r.db.type = d.type => TypeEffect(i, d, r)
  BY DEF TypeEffect
<1>5. r.db.funcs = d.funcs => FuncEffect(i, d, r)
  BY DEF FuncEffect
<1>6. r.db.frame = d.frame => FrameEffect(i, d, r) /\ (FramesApart(d) => FramesApart(r.db))
  BY DEF FrameEffect, FramesApart
<1>7. r.db.frame = d.frame => \A f \in FuncEntry : Gone(f, d, r.db) = {}
  BY DEF Gone
<1>8. r.db.items = d.items => ItemEffect(i, d, r)
  BY DEF ItemEffect
<1>9. r.db.types = d.types /\ i.kind # "decl" => DeclEffect(i, d, r)
  BY DEF DeclEffect
<1> QED
  BY <1>1, <1>2, <1>3, <1>4, <1>5, <1>6, <1>7, <1>8, <1>9 DEF DeleteEffect

\* A failed item changes nothing.
LEMMA FailedEffect ==
    ASSUME NEW i, NEW d \in Database, NamesApart(d), FramesApart(d), NEW r, r = Failed(d)
    PROVE  Effect(i, d, r)
<1>1. r.db = d /\ r.ok = FALSE
  BY DEF Failed
<1>2. DeclEffect(i, d, r)
  BY <1>1 DEF DeclEffect
<1> QED
  BY <1>1, <1>2, SameParts DEF Effect

-----------------------------------------------------------------------------
\* A comment changes the comment of its address.
LEMMA CommentEffect ==
    ASSUME NEW d \in Database, NamesApart(d), FramesApart(d),
           NEW i \in ItemOf("set_comments"), NEW r, r = SetComment(i, d)
    PROVE  Effect(i, d, r)
<1>1. CASE r = Failed(d)
  BY <1>1, FailedEffect
<1>2. CASE r # Failed(d)
  <2>1. /\ i.kind = "comment" /\ i.addr \in Addr /\ i.comment \in Comment \cup {NoComment}
        /\ r.ok = TRUE /\ r.db = [d EXCEPT !.cmt = [d.cmt EXCEPT ![i.addr] = i.comment]]
    BY <1>2 DEF SetComment, Done, ItemOf, Parsed
  <2>2. /\ r.db.mem = d.mem /\ r.db.name = d.name /\ r.db.type = d.type
        /\ r.db.frame = d.frame /\ r.db.funcs = d.funcs /\ r.db.items = d.items
        /\ r.db.types = d.types /\ r.db.cmt = [d.cmt EXCEPT ![i.addr] = i.comment]
        /\ r.db \in Database
    BY <2>1 DEF Database
  <2>3. CmtEffect(i, d, r)
    <3>1. d.cmt \in [Addr -> Comment \cup {NoComment}]
      BY DEF Database
    <3> QED
      BY <3>1, <2>1, <2>2 DEF CmtEffect
  <2> QED
    BY <2>1, <2>2, <2>3, SameParts DEF Effect
<1> QED
  BY <1>1, <1>2

\* A name that no other address has, or the empty one, is given to one address.
LEMMA RenameAtEffect ==
    ASSUME NEW d \in Database, NamesApart(d), FramesApart(d),
           NEW i, i.kind \in {"func", "data"}, NEW ea \in Addr,
           i.new \in Name \cup {NoName}, NEW r, r = RenameAt(d, ea, i.new)
    PROVE  Effect(i, d, r)
<1>1. CASE r = Failed(d)
  BY <1>1, FailedEffect
<1>2. CASE r # Failed(d)
  <2>1. /\ Holders(d, i.new) \subseteq {ea}
        /\ r.ok = TRUE /\ r.db = [d EXCEPT !.name = [d.name EXCEPT ![ea] = i.new]]
    BY <1>2 DEF RenameAt, SetName, Done
  <2>2. d.name \in [Addr -> Name \cup {NoName}]
    BY DEF Database
  <2>3. /\ r.db.mem = d.mem /\ r.db.cmt = d.cmt /\ r.db.type = d.type
        /\ r.db.frame = d.frame /\ r.db.funcs = d.funcs /\ r.db.items = d.items
        /\ r.db.types = d.types /\ r.db.name = [d.name EXCEPT ![ea] = i.new]
        /\ r.db \in Database
    BY <2>1 DEF Database
  <2>4. NameEffect(i, d, r)
    BY <2>1, <2>2, <2>3 DEF NameEffect
  <2>5. ASSUME NEW n \in Name, NEW a \in Holders(r.db, n), NEW b \in Holders(r.db, n)
        PROVE  a = b
    <3>1. CASE n = i.new
      <4>1. Holders(r.db, n) \subseteq Holders(d, n) \cup {ea}
        BY <2>2, <2>3 DEF Holders
      <4> QED
        BY <4>1, <3>1, <2>1, <2>5
    <3>2. CASE n # i.new
      <4>1. Holders(r.db, n) \subseteq Holders(d, n)
        BY <2>2, <2>3, <3>2 DEF Holders
      <4> QED
        BY <4>1, <2>5 DEF NamesApart
    <3> QED
      BY <3>1, <3>2
  <2> QED
    BY <2>1, <2>3, <2>4, <2>5, SameParts DEF Effect, NamesApart
<1> QED
  BY <1>1, <1>2

\* Renaming a function or a datum.
LEMMA RenameEffect ==
    ASSUME NEW d \in Database, NamesApart(d), FramesApart(d),
           NEW i \in ItemOf("rename"), NEW r,
           \/ i.kind = "func" /\ r = RenameFunc(i, d)
           \/ i.kind = "data" /\ r = RenameData(i, d)
    PROVE  Effect(i, d, r)
<1>1. CASE r = Failed(d)
  BY <1>1, FailedEffect
<1>2. CASE r # Failed(d) /\ i.kind = "func"
  <2>1. i.addr \in Addr /\ i.new \in Name \cup {NoName} /\ r = RenameAt(d, i.addr, i.new)
    BY <1>2 DEF RenameFunc, Parsed, ItemOf, Text
  <2> QED
    BY <2>1, <1>2, RenameAtEffect
<1>3. CASE r # Failed(d) /\ i.kind = "data"
  <2> DEFINE ea == CHOOSE a \in Holders(d, i.old) : TRUE
  <2>1. Holders(d, i.old) # {} /\ i.new \in Name \cup {NoName} /\ r = RenameAt(d, ea, i.new)
    BY <1>3 DEF RenameData, ItemOf, Text
  <2>2. ea \in Addr
    BY <2>1 DEF Holders
  <2> HIDE DEF ea
  <2> QED
    BY <2>1, <2>2, <1>3, RenameAtEffect
<1> QED
  BY <1>1, <1>2, <1>3

\* New bytes at some addresses leave a database.
LEMMA BytesPatched ==
    ASSUME NEW d \in Database, NamesApart(d), FramesApart(d), NEW i, i.kind # "decl",
           NEW ea \in Addr, NEW bytes, \A k \in DOMAIN bytes : bytes[k] \in Byte,
           NEW r, r.ok \in BOOLEAN, r.db = [d EXCEPT !.mem = PatchBytes(d.mem, ea, bytes)],
           MemEffect(i, d, r)
    PROVE  Effect(i, d, r)
<1>1. d.mem \in [Addr -> Byte]
  BY DEF Database
<1>2. PatchBytes(d.mem, ea, bytes) \in [Addr -> Byte]
  BY <1>1 DEF PatchBytes
<1>3. /\ r.db.cmt = d.cmt /\ r.db.name = d.name /\ r.db.type = d.type
      /\ r.db.frame = d.frame /\ r.db.funcs = d.funcs /\ r.db.items = d.items
      /\ r.db.types = d.types /\ r.db \in Database
  BY <1>2 DEF Database
<1> QED
  BY <1>3, SameParts DEF Effect

\* Patching writes the bytes given, all of them or none.
LEMMA PatchEffect ==
    ASSUME NEW d \in Database, NamesApart(d), FramesApart(d),
           NEW i \in ItemOf("patch"), NEW r, r = Patch(i, d)
    PROVE  Effect(i, d, r)
<1>1. CASE r = Failed(d)
  BY <1>1, FailedEffect
<1>2. CASE r # Failed(d)
  <2>1. /\ i.kind = "patch" /\ i.addr \in Addr /\ i.data \in Seq(Byte \cup {Unparsable})
        /\ \A k \in DOMAIN i.data : i.data[k] # Unparsable
        /\ r.ok = TRUE /\ r.db = [d EXCEPT !.mem = PatchBytes(d.mem, i.addr, i.data)]
    BY <1>2 DEF Patch, Done, ItemOf, Parsed
  <2>2. \A k \in DOMAIN i.data : i.data[k] \in Byte
    BY <2>1
  <2>3. DOMAIN i.data = 1 .. Len(i.data) /\ Len(i.data) \in Nat
    BY <2>1
  <2>4. r.db.mem = PatchBytes(d.mem, i.addr, i.data)
    BY <2>1 DEF Database
  <2>5. ASSUME NEW a \in Addr, r.db.mem[a] # d.mem[a]
        PROVE  a \in Span(i)
    <3>1. a - i.addr + 1 \in 1 .. Len(i.data)
      BY <2>3, <2>4, <2>5 DEF PatchBytes
    <3>2. a \in Int /\ i.addr \in Int
      BY <2>1 DEF Addr
    <3>3. a \in i.addr .. i.addr + Len(i.data) - 1
      BY <3>1, <3>2, <2>3
    <3> QED
      BY <3>3, <2>1 DEF Span
  <2>6. MemEffect(i, d, r)
    BY <2>1, <2>5 DEF MemEffect
  <2>7. /\ i.kind # "decl" /\ r.ok \in BOOLEAN /\ i.addr \in Addr
        /\ r.db = [d EXCEPT !.mem = PatchBytes(d.mem, i.addr, i.data)]
    BY <2>1
  <2> QED
    BY <2>2, <2>6, <2>7, BytesPatched
<1> QED
  BY <1>1, <1>2

\* So does writing an integer.
LEMMA PutIntEffect ==
    ASSUME NEW d \in Database, NamesApart(d), FramesApart(d),
           NEW i \in ItemOf("put_int"), NEW r, r = PutInt(i, d)
    PROVE  Effect(i, d, r)
<1>1. CASE r = Failed(d)
  BY <1>1, FailedEffect
<1>2. CASE r # Failed(d)
  <2> DEFINE bytes == uint_to_bytes(i.value, i.ty)
  <2>1. /\ i.kind = "int" /\ i.addr \in Addr /\ i.ty \in IntTypeSpec /\ i.value \in Int
        /\ r.ok = TRUE /\ r.db = [d EXCEPT !.mem = PatchBytes(d.mem, i.addr, bytes)]
    BY <1>2 DEF PutInt, Done, ItemOf, Parsed
  <2>2. i.ty.width \in Nat /\ DOMAIN bytes = 1 .. i.ty.width
    BY <2>1, EditAssumption DEF IntTypeSpec, uint_to_bytes, EditAssumption
  <2>3. \A k \in DOMAIN bytes : bytes[k] \in Byte
    <3> DEFINE u == i.value % Pow[MaxWidth]
    <3>1. MaxWidth \in Nat
      BY EditAssumption DEF EditAssumption
    <3>2. u \in Int
      BY <2>1, <3>1, LowBytes
    <3> HIDE DEF u
    <3>3. \A n \in Nat : ByteOf(u, n) \in Byte
      BY <3>2, ByteOfIsByte DEF Byte
    <3>4. ASSUME NEW k \in DOMAIN bytes
          PROVE  bytes[k] \in Byte
      <4> DEFINE n == IF i.ty.big THEN i.ty.width - k ELSE k - 1
      <4>1. n \in Nat
        BY <2>2
      <4>2. bytes[k] = ByteOf(u, n)
        BY DEF uint_to_bytes, u
      <4> HIDE DEF n
      <4> QED
        BY <4>1, <4>2, <3>3
    <3> QED
      BY <3>4
  <2>4. r.db.mem = PatchBytes(d.mem, i.addr, bytes)
    BY <2>1 DEF Database
  <2>5. ASSUME NEW a \in Addr, r.db.mem[a] # d.mem[a]
        PROVE  a \in Span(i)
    <3>1. a - i.addr + 1 \in 1 .. i.ty.width
      BY <2>2, <2>4, <2>5 DEF PatchBytes
    <3>2. a \in Int /\ i.addr \in Int
      BY <2>1 DEF Addr
    <3>3. a \in i.addr .. i.addr + i.ty.width - 1
      BY <3>1, <3>2, <2>2
    <3> QED
      BY <3>3, <2>1 DEF Span
  <2>6. MemEffect(i, d, r)
    BY <2>1, <2>5 DEF MemEffect
  <2>7. /\ i.kind # "decl" /\ r.ok \in BOOLEAN /\ i.addr \in Addr
        /\ r.db = [d EXCEPT !.mem = PatchBytes(d.mem, i.addr, bytes)]
    BY <2>1
  <2> HIDE DEF bytes
  <2> QED
    BY <2>3, <2>6, <2>7, BytesPatched
<1> QED
  BY <1>1, <1>2

-----------------------------------------------------------------------------
\* patch_asm writes bytes, perhaps not all.
LEMMA PatchAsmEffect ==
    ASSUME NEW d \in Database, NamesApart(d), FramesApart(d),
           NEW i \in ItemOf("patch_asm"), NEW r, r = PatchAsm(i, d)
    PROVE  Effect(i, d, r)
<1> DEFINE bad == {k \in DOMAIN i.insns : i.insns[k] = Unparsable}
           n == IF bad = {} THEN Len(i.insns) ELSE (CHOOSE k \in bad : \A j \in bad : k <= j) - 1
           bytes == FlattenSeq(SubSeq(i.insns, 1, n))
<1>1. CASE r = Failed(d)
  BY <1>1, FailedEffect
<1>2. CASE r # Failed(d)
  <2>1. /\ i.kind = "asm" /\ i.insns \in Seq(Seq(Byte) \cup {Unparsable})
        /\ DOMAIN i.insns = 1 .. Len(i.insns) /\ Len(i.insns) \in Nat
    BY DEF ItemOf
  <2>2. /\ i.addr \in Addr /\ r.ok \in BOOLEAN
        /\ r.db = [d EXCEPT !.mem = PatchBytes(d.mem, i.addr, bytes)]
    <3>1. r = [ok |-> bad = {}, db |-> [d EXCEPT !.mem = PatchBytes(@, i.addr, bytes)]]
          /\ i.addr \in Addr
      BY <1>2 DEF PatchAsm, Parsed
    <3>2. (bad = {}) \in BOOLEAN
      OBVIOUS
    <3> HIDE DEF bytes, bad
    <3> QED
      BY <3>1, <3>2
  <2>3. n \in Int /\ \A k \in 1 .. n : k \in 1 .. Len(i.insns) /\ k \notin bad
    <3>1. CASE bad = {}
      BY <3>1, <2>1
    <3>2. CASE bad # {}
      <4>1. bad \in SUBSET Nat /\ bad \subseteq 1 .. Len(i.insns)
        BY <2>1
      <4>2. \E k \in bad : \A j \in bad : k <= j
        <5> HIDE DEF bad
        <5> QED
          BY <4>1, <3>2, Least
      <4> DEFINE m == CHOOSE k \in bad : \A j \in bad : k <= j
      <4>3. m \in bad /\ \A j \in bad : m <= j
        <5> HIDE DEF bad
        <5> QED
          BY <4>2
      <4>4. n = m - 1
        BY <3>2
      <4> HIDE DEF bad, m, n
      <4> QED
        BY <4>1, <4>3, <4>4, <2>1
    <3> QED
      BY <3>1, <3>2
  <2>4. \A k \in 1 .. n : i.insns[k] \in Seq(Byte)
    <3>1. \A k \in 1 .. Len(i.insns) : k \notin bad => i.insns[k] \in Seq(Byte)
      BY <2>1
    <3> HIDE DEF n, bad
    <3> QED
      BY <3>1, <2>3
  <2>5. bytes \in Seq(Byte)
    <3> HIDE DEF n
    <3>1. SubSeq(i.insns, 1, n) \in Seq(Seq(Byte))
      BY <2>3, <2>4, SubSeqProperties
    <3> QED
      BY <3>1, FlattenType
  <2> HIDE DEF bytes, n, bad
  <2>6. \A k \in DOMAIN bytes : bytes[k] \in Byte
    BY <2>5
  <2>7. MemEffect(i, d, r) /\ i.kind # "decl"
    BY <2>1 DEF MemEffect
  <2> QED
    BY <2>2, <2>6, <2>7, BytesPatched
<1> QED
  BY <1>1, <1>2

\* A function is added where it was asked for.
LEMMA DefineFuncEffect ==
    ASSUME NEW d \in Database, NamesApart(d), FramesApart(d),
           NEW i \in ItemOf("define_func"), NEW r, r = DefineFunc(i, d)
    PROVE  Effect(i, d, r)
<1>1. CASE r = Failed(d)
  BY <1>1, FailedEffect
<1>2. CASE r # Failed(d)
  <2>1. /\ i.kind = "define" /\ i.addr \in FuncEntry
        /\ r.ok = TRUE /\ r.db = [d EXCEPT !.funcs = d.funcs \cup {i.addr}]
    BY <1>2 DEF DefineFunc, Done, ItemOf
  <2>2. /\ r.db.mem = d.mem /\ r.db.cmt = d.cmt /\ r.db.name = d.name /\ r.db.type = d.type
        /\ r.db.frame = d.frame /\ r.db.items = d.items /\ r.db.types = d.types
        /\ r.db.funcs = d.funcs \cup {i.addr} /\ r.db \in Database
    BY <2>1 DEF Database
  <2>3. FuncEffect(i, d, r)
    BY <2>1, <2>2 DEF FuncEffect
  <2> QED
    BY <2>1, <2>2, <2>3, SameParts DEF Effect
<1> QED
  BY <1>1, <1>2

\* An instruction is made where it was asked for.
LEMMA DefineCodeEffect ==
    ASSUME NEW d \in Database, NamesApart(d), FramesApart(d),
           NEW i \in ItemOf("define_code"), NEW r, r = DefineCode(i, d)
    PROVE  Effect(i, d, r)
<1>1. CASE r = Failed(d)
  BY <1>1, FailedEffect
<1>2. CASE r # Failed(d)
  <2> DEFINE insn == [ea |-> i.addr, len |-> InsnLen[i.addr]]
  <2>1. /\ i.kind = "code" /\ i.addr \in Addr /\ insn.len # 0 /\ Bytes(insn) \subseteq Mapped
        /\ r.ok = TRUE /\ r.db = [d EXCEPT !.items = d.items \cup {insn}]
    BY <1>2 DEF DefineCode, Done, ItemOf, Parsed
  <2>2. insn \in Defined
    <3>1. Top \in Nat /\ InsnLen[i.addr] \in Nat /\ Mapped \subseteq 0 .. Top /\ i.addr \in 0 .. Top
      BY <2>1, EditAssumption DEF EditAssumption, Addr
    <3>2. i.addr + InsnLen[i.addr] - 1 \in i.addr .. i.addr + InsnLen[i.addr] - 1
      BY <2>1, <3>1
    <3>3. i.addr + InsnLen[i.addr] - 1 \in 0 .. Top
      BY <2>1, <3>1, <3>2 DEF Bytes
    <3>4. InsnLen[i.addr] \in 1 .. Top + 1
      BY <2>1, <3>1, <3>3
    <3> QED
      BY <2>1, <3>4 DEF Defined
  <2>3. /\ r.db.mem = d.mem /\ r.db.cmt = d.cmt /\ r.db.name = d.name /\ r.db.type = d.type
        /\ r.db.frame = d.frame /\ r.db.funcs = d.funcs /\ r.db.types = d.types
        /\ r.db.items = d.items \cup {insn} /\ r.db \in Database
    <3> HIDE DEF insn
    <3> QED
      BY <2>1, <2>2 DEF Database
  <2>4. ItemEffect(i, d, r)
    BY <2>1, <2>3 DEF ItemEffect
  <2> QED
    BY <2>1, <2>3, <2>4, SameParts DEF Effect
<1> QED
  BY <1>1, <1>2

\* Only items that the range meets go.
LEMMA UndefineEffect ==
    ASSUME NEW d \in Database, NamesApart(d), FramesApart(d),
           NEW i \in ItemOf("undefine"), NEW r \in Undefine(i, d)
    PROVE  Effect(i, d, r)
<1>1. CASE r = Failed(d)
  BY <1>1, FailedEffect
<1>2. CASE r # Failed(d)
  <2> DEFINE gone == {it \in d.items : Bytes(it) \cap Asked(i) # {}}
  <2>1. i.kind = "undefine" /\ (r = Done([d EXCEPT !.items = @ \ gone]) \/ r = Done(d))
    BY <1>2 DEF Undefine, ItemOf
  <2>2. CASE r = Done([d EXCEPT !.items = @ \ gone])
    <3>1. r.ok = TRUE /\ r.db = [d EXCEPT !.items = d.items \ gone]
      BY <2>2 DEF Done
    <3>2. /\ r.db.mem = d.mem /\ r.db.cmt = d.cmt /\ r.db.name = d.name /\ r.db.type = d.type
          /\ r.db.frame = d.frame /\ r.db.funcs = d.funcs /\ r.db.types = d.types
          /\ r.db.items = d.items \ gone /\ r.db \in Database
      <4> HIDE DEF gone
      <4> QED
        BY <3>1 DEF Database
    <3>3. ItemEffect(i, d, r)
      BY <2>1, <3>1, <3>2 DEF ItemEffect
    <3> QED
      BY <2>1, <3>1, <3>2, <3>3, SameParts DEF Effect
  <2>3. CASE r = Done(d)
    <3>1. r.ok = TRUE /\ r.db = d
      BY <2>3 DEF Done
    <3> QED
      BY <2>1, <3>1, SameParts DEF Effect
  <2> QED
    BY <2>1, <2>2, <2>3
<1> QED
  BY <1>1, <1>2

\* Declarations add to the type library, and do not clear it.
LEMMA DeclareTypeEffect ==
    ASSUME NEW d \in Database, NamesApart(d), FramesApart(d),
           NEW i \in ItemOf("declare_type"), NEW r, r = DeclareType(i, d)
    PROVE  Effect(i, d, r)
<1> DEFINE good == Range(i.decls) \ {Unparsable}
<1>1. i.kind = "decl" /\ i.decls \in Seq(Type \cup {Unparsable})
  BY DEF ItemOf
<1>2. good \subseteq Type
  BY <1>1 DEF Range
<1>3. /\ r.ok = (Unparsable \notin Range(i.decls))
      /\ r.db = [d EXCEPT !.types = d.types \cup good]
  BY DEF DeclareType
<1>4. r.ok => Range(i.decls) \subseteq good
  BY <1>3
<1>5. r.ok \in BOOLEAN
  BY <1>3
<1> HIDE DEF good
<1>6. /\ r.db.mem = d.mem /\ r.db.cmt = d.cmt /\ r.db.name = d.name /\ r.db.type = d.type
      /\ r.db.frame = d.frame /\ r.db.funcs = d.funcs /\ r.db.items = d.items
      /\ r.db.types = d.types \cup good /\ r.db \in Database
  BY <1>2, <1>3 DEF Database
<1>7. DeclEffect(i, d, r)
  BY <1>4, <1>6 DEF DeclEffect
<1> QED
  BY <1>5, <1>6, <1>7, SameParts DEF Effect

\* A type is applied to the address asked for.
LEMMA ApplyTypeEffect ==
    ASSUME NEW d \in Database, NamesApart(d), FramesApart(d),
           NEW i \in ItemOf("set_type"), i.type \in Type, KindOf(i) # "stack",
           NEW r, r = ApplyType(i, d)
    PROVE  Effect(i, d, r)
<1>1. CASE r = Failed(d)
  BY <1>1, FailedEffect
<1>2. CASE r # Failed(d)
  <2>1. /\ i.kind = "settype" /\ i.addr \in Addr
        /\ r.ok = TRUE /\ r.db = [d EXCEPT !.type = [d.type EXCEPT ![i.addr] = i.type]]
    BY <1>2, EditAssumption DEF ApplyType, Done, ItemOf, EditAssumption
  <2>2. /\ r.db.mem = d.mem /\ r.db.cmt = d.cmt /\ r.db.name = d.name /\ r.db.frame = d.frame
        /\ r.db.funcs = d.funcs /\ r.db.items = d.items /\ r.db.types = d.types
        /\ r.db.type = [d.type EXCEPT ![i.addr] = i.type] /\ r.db \in Database
    BY <2>1 DEF Database
  <2>3. TypeEffect(i, d, r)
    <3>1. d.type \in [Addr -> Type \cup {NoType}]
      BY DEF Database
    <3> QED
      BY <3>1, <2>1, <2>2 DEF TypeEffect
  <2> QED
    BY <2>1, <2>2, <2>3, SameParts DEF Effect
<1> QED
  BY <1>1, <1>2

-----------------------------------------------------------------------------
\* A frame stays apart when a variable joins it that keeps apart from the rest.
LEMMA JoinApart ==
    ASSUME NEW frame, Apart(frame), NEW others \in SUBSET frame, NEW v,
           \A m \in others : m.name # v.name /\ Cells(m) \cap Cells(v) = {}
    PROVE  Apart(others \cup {v})
  BY DEF Apart

\* A variable whose bytes lie in the frame is one of the frame.
LEMMA FitsInFrame ==
    ASSUME NEW v, v.off \in Int, v.size \in Nat \ {0}, Cells(v) \subseteq Off
    PROVE  v.off \in Off /\ v.size \in 1 .. FrameTop + 1
<1>1. FrameTop \in Nat
  BY EditAssumption DEF EditAssumption
<1>2. v.off \in Cells(v) /\ v.off + v.size - 1 \in Cells(v)
  BY DEF Cells
<1>3. v.off \in 0 .. FrameTop /\ v.off + v.size - 1 \in 0 .. FrameTop
  BY <1>2 DEF Off
<1> QED
  BY <1>1, <1>3 DEF Off

\* A new frame for one function leaves a database.
LEMMA FrameReplaced ==
    ASSUME NEW d \in Database, NamesApart(d), FramesApart(d), NEW i, i.kind # "decl",
           NEW f \in FuncEntry, NEW frame \in SUBSET Member, Apart(frame),
           NEW r, r.ok = TRUE, r.db = [d EXCEPT !.frame = [d.frame EXCEPT ![f] = frame]],
           \A m \in frame \ d.frame[f] :
              \/ i.kind = "stack" /\ i.addr = f /\ i.new = m.name
              \/ /\ i.kind = "declare" /\ i.addr = f
                 /\ i.off = m.off /\ i.name = m.name /\ i.type = m.type
              \/ /\ i.kind = "settype" /\ i.addr = f
                 /\ i.name = m.name /\ i.type = m.type /\ KindOf(i) = "stack",
           NEW lost, lost = {m \in d.frame[f] : \A n \in frame : n.off # m.off},
           lost # {} =>
              /\ i.kind = "delete" /\ i.addr = f
              /\ \A m \in lost : m.name = i.name /\ m.off \notin Special /\ m.off < ArgFrom
              /\ Cardinality(lost) = 1
    PROVE  Effect(i, d, r)
<1>1. d.frame \in [FuncEntry -> SUBSET Member]
  BY DEF Database
<1>2. /\ r.db.mem = d.mem /\ r.db.cmt = d.cmt /\ r.db.name = d.name /\ r.db.type = d.type
      /\ r.db.funcs = d.funcs /\ r.db.items = d.items /\ r.db.types = d.types
      /\ r.db.frame = [d.frame EXCEPT ![f] = frame] /\ r.db \in Database
  BY DEF Database
<1>3. r.db.frame[f] = frame /\ \A g \in FuncEntry \ {f} : r.db.frame[g] = d.frame[g]
  BY <1>1, <1>2
<1>4. FramesApart(r.db)
  BY <1>3 DEF FramesApart
<1>5. FrameEffect(i, d, r)
  BY <1>3 DEF FrameEffect
<1>6. Gone(f, d, r.db) = lost /\ \A g \in FuncEntry \ {f} : Gone(g, d, r.db) = {}
  BY <1>3 DEF Gone
<1>7. DeleteEffect(i, d, r)
  BY <1>6 DEF DeleteEffect
<1> QED
  BY <1>2, <1>4, <1>5, <1>7, SameParts DEF Effect

\* A stack variable takes a name that no other variable of the frame has.
LEMMA RenameStackEffect ==
    ASSUME NEW d \in Database, NamesApart(d), FramesApart(d),
           NEW i \in ItemOf("rename"), i.kind = "stack", NEW r, r = RenameStack(i, d)
    PROVE  Effect(i, d, r)
<1>1. CASE r = Failed(d)
  BY <1>1, FailedEffect
<1>2. CASE r # Failed(d)
  <2> DEFINE f == i.addr
             frame == d.frame[f]
             old == Called(frame, i.old)
             fresh == (frame \ old) \cup {[m EXCEPT !.name = i.new] : m \in old}
  <2>1. /\ f \in d.funcs /\ old # {} /\ Called(frame, i.new) \subseteq old
        /\ i.new \notin BadName \cup {NoName}
        /\ r.ok = TRUE /\ r.db = [d EXCEPT !.frame = [d.frame EXCEPT ![f] = fresh]]
    BY <1>2 DEF RenameStack, IsFunc, Done
  <2>2. f \in FuncEntry /\ frame \in SUBSET Member /\ Apart(frame)
    BY <2>1 DEF Database, FramesApart
  <2>3. i.new \in Name
    BY <2>1 DEF ItemOf, Text
  <2>4. PICK m0 \in frame : old = {m0}
    BY <2>1, <2>2 DEF Called, Apart
  <2> DEFINE v == [m0 EXCEPT !.name = i.new]
  <2>5. v \in Member /\ v.name = i.new /\ v.off = m0.off /\ v.size = m0.size
    BY <2>2, <2>3, <2>4 DEF Member
  <2>6. fresh = (frame \ {m0}) \cup {v}
    BY <2>4
  <2>7. Cells(v) = Cells(m0)
    BY <2>5 DEF Cells
  <2>8. \A m \in frame \ {m0} : m.name # i.new
    BY <2>1, <2>4 DEF Called
  <2>9. \A m \in frame \ {m0} : Cells(m) \cap Cells(v) = {}
    BY <2>2, <2>4, <2>7 DEF Apart
  <2> HIDE DEF v, fresh, old
  <2>10. Apart(fresh)
    BY <2>2, <2>5, <2>6, <2>8, <2>9, JoinApart
  <2>11. fresh \in SUBSET Member
    BY <2>2, <2>5, <2>6
  <2>12. \A m \in fresh \ frame : i.kind = "stack" /\ i.addr = f /\ i.new = m.name
    BY <2>5, <2>6
  <2>13. \A m \in frame : \E n \in fresh : n.off = m.off
    BY <2>4, <2>5, <2>6
  <2>14. {m \in frame : \A n \in fresh : n.off # m.off} = {}
    BY <2>13
  <2>15. i.kind # "decl"
    OBVIOUS
  <2> HIDE DEF f
  <2> QED
    BY <2>1, <2>2, <2>10, <2>11, <2>12, <2>14, <2>15, FrameReplaced
<1> QED
  BY <1>1, <1>2

\* A declared variable takes the place of one there or a free one.
LEMMA DeclareStackEffect ==
    ASSUME NEW d \in Database, NamesApart(d), FramesApart(d),
           NEW i \in ItemOf("declare_stack"), NEW r, r = DeclareStack(i, d)
    PROVE  Effect(i, d, r)
<1>1. CASE r = Failed(d)
  BY <1>1, FailedEffect
<1>2. CASE r # Failed(d)
  <2> DEFINE f == i.addr
             frame == d.frame[f]
             v == [name |-> i.name, off |-> i.off, size |-> TypeSize[i.type], type |-> i.type]
             others == {m \in frame : m.off # i.off}
             fresh == others \cup {v}
  <2>1. /\ f \in d.funcs /\ i.type # Unparsable /\ i.type # NoType /\ i.name \in Name
        /\ Called(others, i.name) = {} /\ Free(others, Cells(v))
        /\ r.ok = TRUE /\ r.db = [d EXCEPT !.frame = [d.frame EXCEPT ![f] = fresh]]
    BY <1>2 DEF DeclareStack, IsFunc, Done
  <2>2. f \in FuncEntry /\ frame \in SUBSET Member /\ Apart(frame)
    BY <2>1 DEF Database, FramesApart
  <2>3. i.kind = "declare" /\ i.off \in Int /\ i.type \in Type
    BY <2>1 DEF ItemOf
  <2>4. TypeSize[i.type] \in Nat \ {0}
    BY <2>3, EditAssumption DEF EditAssumption
  <2>5. v.name = i.name /\ v.off = i.off /\ v.size = TypeSize[i.type] /\ v.type = i.type
    OBVIOUS
  <2>6. Cells(v) \subseteq Off /\ \A m \in others : Cells(m) \cap Cells(v) = {}
    BY <2>1 DEF Free
  <2> HIDE DEF others
  <2>7. v.off \in Off /\ v.size \in 1 .. FrameTop + 1
    <3> HIDE DEF v
    <3> QED
      BY <2>3, <2>4, <2>5, <2>6, FitsInFrame
  <2>8. v \in Member
    BY <2>1, <2>3, <2>5, <2>7 DEF Member
  <2> HIDE DEF v
  <2>9. \A m \in others : m.name # v.name
    BY <2>1, <2>5 DEF Called
  <2>10. others \in SUBSET frame
    BY DEF others
  <2>11. Apart(fresh)
    BY <2>2, <2>6, <2>9, <2>10, JoinApart
  <2>12. fresh \in SUBSET Member
    BY <2>2, <2>8, <2>10
  <2>13. \A m \in fresh \ frame : /\ i.kind = "declare" /\ i.addr = f /\ i.off = m.off
                                  /\ i.name = m.name /\ i.type = m.type
    BY <2>3, <2>5, <2>10
  <2>14. {m \in frame : \A n \in fresh : n.off # m.off} = {}
    BY <2>5 DEF others
  <2>15. i.kind # "decl"
    BY <2>3
  <2> HIDE DEF fresh, f
  <2> QED
    BY <2>1, <2>2, <2>11, <2>12, <2>13, <2>14, <2>15, FrameReplaced
<1> QED
  BY <1>1, <1>2

\* A stack variable takes a type that fits where it is.
LEMMA TypeVariableEffect ==
    ASSUME NEW d \in Database, NamesApart(d), FramesApart(d),
           NEW i \in ItemOf("set_type"), i.type \in Type, KindOf(i) = "stack",
           NEW r, r = TypeStackVariable(i, d)
    PROVE  Effect(i, d, r)
<1>1. CASE r = Failed(d)
  BY <1>1, FailedEffect
<1>2. CASE r # Failed(d)
  <2> DEFINE f == i.addr
             frame == d.frame[f]
             old == CHOOSE m \in Called(frame, i.name) : TRUE
             v == [old EXCEPT !.size = TypeSize[i.type], !.type = i.type]
             fresh == (frame \ {old}) \cup {v}
  <2>1. /\ f \in d.funcs /\ Called(frame, i.name) # {} /\ Free(frame \ {old}, Cells(v))
        /\ r.ok = TRUE /\ r.db = [d EXCEPT !.frame = [d.frame EXCEPT ![f] = fresh]]
    BY <1>2 DEF TypeStackVariable, IsFunc, Done
  <2>2. f \in FuncEntry /\ frame \in SUBSET Member /\ Apart(frame)
    BY <2>1 DEF Database, FramesApart
  <2>3. old \in frame /\ old.name = i.name
    BY <2>1 DEF Called
  <2> HIDE DEF old
  <2>4. /\ old \in Member /\ old.off \in Int /\ old.name \in Name
    BY <2>2, <2>3, EditAssumption DEF Member, Off, EditAssumption
  <2>5. TypeSize[i.type] \in Nat \ {0} /\ i.kind = "settype"
    BY EditAssumption DEF EditAssumption, ItemOf
  <2>6. v.name = old.name /\ v.off = old.off /\ v.size = TypeSize[i.type] /\ v.type = i.type
    BY <2>4 DEF Member
  <2>7. Cells(v) \subseteq Off /\ \A m \in frame \ {old} : Cells(m) \cap Cells(v) = {}
    BY <2>1 DEF Free
  <2> HIDE DEF v
  <2>8. v.off \in Off /\ v.size \in 1 .. FrameTop + 1
    BY <2>4, <2>5, <2>6, <2>7, FitsInFrame
  <2>9. v \in Member
    <3>1. TypeSize[i.type] \in 1 .. FrameTop + 1 /\ i.type \in Type \cup {NoType}
      BY <2>6, <2>8
    <3> QED
      BY <3>1, <2>4 DEF Member, v
  <2>10. \A m \in frame \ {old} : m.name # v.name
    BY <2>2, <2>3, <2>6 DEF Apart
  <2>11. Apart(fresh)
    BY <2>2, <2>7, <2>10, JoinApart
  <2>12. fresh \in SUBSET Member
    BY <2>2, <2>9
  <2>13. \A m \in fresh \ frame : /\ i.kind = "settype" /\ i.addr = f
                                  /\ i.name = m.name /\ i.type = m.type /\ KindOf(i) = "stack"
    BY <2>3, <2>5, <2>6
  <2>14. {m \in frame : \A n \in fresh : n.off # m.off} = {}
    BY <2>3, <2>6
  <2>15. i.kind # "decl"
    BY <2>5
  <2> HIDE DEF fresh, f
  <2> QED
    BY <2>1, <2>2, <2>11, <2>12, <2>13, <2>14, <2>15, FrameReplaced
<1> QED
  BY <1>1, <1>2

\* The range of a variable that is deleted meets no other variable.
LEMMA DeleteStackEffect ==
    ASSUME NEW d \in Database, NamesApart(d), FramesApart(d),
           NEW i \in ItemOf("delete_stack"), NEW r, r = DeleteStack(i, d)
    PROVE  Effect(i, d, r)
<1>1. CASE r = Failed(d)
  BY <1>1, FailedEffect
<1>2. CASE r # Failed(d)
  <2> DEFINE f == i.addr
             frame == d.frame[f]
             old == CHOOSE m \in Called(frame, i.name) : TRUE
             fresh == DeleteMembers(frame, old.off, old.off + old.size)
             lost == {m \in frame : \A n \in fresh : n.off # m.off}
  <2>1. /\ f \in d.funcs /\ Called(frame, i.name) # {}
        /\ ~(old.off \in Special \/ old.off >= ArgFrom)
        /\ r.ok = TRUE /\ r.db = [d EXCEPT !.frame = [d.frame EXCEPT ![f] = fresh]]
    BY <1>2 DEF DeleteStack, IsFunc, Done
  <2>2. f \in FuncEntry /\ frame \in SUBSET Member /\ Apart(frame)
    BY <2>1 DEF Database, FramesApart
  <2>3. old \in frame /\ old.name = i.name
    BY <2>1 DEF Called
  <2> HIDE DEF old
  <2>4. \A m \in frame : m.off \in Int /\ m.size \in Nat \ {0} /\ m.off \in Cells(m)
    <3>1. FrameTop \in Nat
      BY EditAssumption DEF EditAssumption
    <3>2. \A m \in frame : m.off \in Int /\ m.size \in Nat \ {0}
      BY <3>1, <2>2 DEF Member, Off
    <3> QED
      BY <3>2 DEF Cells
  <2>5. fresh \subseteq frame /\ \A m \in frame : m \in fresh <=> Cells(m) \cap Cells(old) = {}
    <3>1. PICK o \in Int, z \in Int : o = old.off /\ z = old.size
      BY <2>3, <2>4
    <3>2. Cells(old) = o .. o + z - 1
      BY <3>1 DEF Cells
    <3>3. fresh = DeleteMembers(frame, o, o + z)
      BY <3>1
    <3> HIDE DEF fresh
    <3>4. fresh = {m \in frame : Cells(m) \cap (o .. o + z - 1) = {}}
      BY <3>3 DEF DeleteMembers
    <3> QED
      BY <3>2, <3>4
  <2>6. fresh = frame \ {old}
    <3> HIDE DEF fresh
    <3> QED
      BY <2>2, <2>3, <2>4, <2>5 DEF Apart
  <2> HIDE DEF fresh
  <2>7. lost = {old}
    <3>1. \A n \in frame \ {old} : n.off # old.off
      BY <2>2, <2>3, <2>4 DEF Apart
    <3> QED
      BY <3>1, <2>3, <2>6
  <2>8. Cardinality(lost) = 1
    BY <2>7, FS_Singleton
  <2>9. i.kind = "delete" /\ old.off < ArgFrom /\ old.off \notin Special
    BY <2>1, <2>3, <2>4, EditAssumption DEF ItemOf, EditAssumption
  <2>10. Apart(fresh) /\ fresh \in SUBSET Member
    BY <2>2, <2>6 DEF Apart
  <2>11. \A m \in lost : m.name = i.name /\ m.off \notin Special /\ m.off < ArgFrom
    BY <2>3, <2>7, <2>9
  <2>12. i.kind # "decl" /\ fresh \ frame = {}
    BY <2>6, <2>9
  <2>13. lost = {m \in d.frame[f] : \A n \in fresh : n.off # m.off} /\ i.addr = f
    OBVIOUS
  <2>14. lost # {} => /\ i.kind = "delete" /\ i.addr = f
                      /\ \A m \in lost : m.name = i.name /\ m.off \notin Special /\ m.off < ArgFrom
                      /\ Cardinality(lost) = 1
    BY <2>8, <2>9, <2>11
  <2>15. fresh \ d.frame[f] = {} /\ i.kind # "decl"
    BY <2>12
  <2> HIDE DEF f, lost, frame
  <2> QED
    BY <2>1, <2>2, <2>10, <2>13, <2>14, <2>15, FrameReplaced, ZenonT(60)
<1> QED
  BY <1>1, <1>2

\* set_type, whatever kind it takes the item for.
LEMMA SetTypeEffect ==
    ASSUME NEW d \in Database, NamesApart(d), FramesApart(d),
           NEW i \in ItemOf("set_type"), NEW r, r = SetType(i, d)
    PROVE  Effect(i, d, r)
<1>1. CASE r = Failed(d)
  BY <1>1, FailedEffect
<1>2. CASE r # Failed(d)
  <2>1. i.type \in Type
    BY <1>2 DEF SetType
  <2>2. \/ KindOf(i) \in {"function", "global"} /\ r = ApplyType(i, d)
        \/ KindOf(i) = "stack" /\ r = TypeStackVariable(i, d)
    BY <1>2 DEF SetType
  <2> QED
    BY <2>1, <2>2, ApplyTypeEffect, TypeVariableEffect
<1> QED
  BY <1>1, <1>2

\* Every handler keeps names and variables apart and accounts for what it does.
LEMMA OutcomeEffect ==
    ASSUME NEW d \in Database, NamesApart(d), FramesApart(d), NEW tool \in EditTool,
           NEW i \in ItemOf(tool), IsObject(i), NEW r \in Outcomes(i, d)
    PROVE  Effect(i, d, r) /\ (i.kind = "asm" => tool = "patch_asm")
<1>1. i.kind # "undefine" => r = Handle(i, d)
  BY DEF Outcomes
<1>2. CASE tool = "set_comments"
  <2>1. i \in ItemOf("set_comments")
    BY <1>2
  <2>2. i.kind = "comment"
    BY <2>1 DEF ItemOf
  <2>3. r = SetComment(i, d)
    BY <1>1, <2>2 DEF Handle
  <2> QED
    BY <1>2, <2>1, <2>2, <2>3, CommentEffect
<1>3. CASE tool = "patch_asm"
  <2>1. i \in ItemOf("patch_asm")
    BY <1>3
  <2>2. i.kind = "asm"
    BY <2>1 DEF ItemOf
  <2>3. r = PatchAsm(i, d)
    BY <1>1, <2>2 DEF Handle
  <2> QED
    BY <1>3, <2>1, <2>2, <2>3, PatchAsmEffect
<1>4. CASE tool = "patch"
  <2>1. i \in ItemOf("patch")
    BY <1>4
  <2>2. i.kind = "patch"
    BY <2>1 DEF ItemOf
  <2>3. r = Patch(i, d)
    BY <1>1, <2>2 DEF Handle
  <2> QED
    BY <1>4, <2>1, <2>2, <2>3, PatchEffect
<1>5. CASE tool = "put_int"
  <2>1. i \in ItemOf("put_int")
    BY <1>5
  <2>2. i.kind = "int"
    BY <2>1 DEF ItemOf
  <2>3. r = PutInt(i, d)
    BY <1>1, <2>2 DEF Handle
  <2> QED
    BY <1>5, <2>1, <2>2, <2>3, PutIntEffect
<1>6. CASE tool = "define_func"
  <2>1. i \in ItemOf("define_func")
    BY <1>6
  <2>2. i.kind = "define"
    BY <2>1 DEF ItemOf
  <2>3. r = DefineFunc(i, d)
    BY <1>1, <2>2 DEF Handle
  <2> QED
    BY <1>6, <2>1, <2>2, <2>3, DefineFuncEffect
<1>7. CASE tool = "define_code"
  <2>1. i \in ItemOf("define_code")
    BY <1>7
  <2>2. i.kind = "code"
    BY <2>1 DEF ItemOf
  <2>3. r = DefineCode(i, d)
    BY <1>1, <2>2 DEF Handle
  <2> QED
    BY <1>7, <2>1, <2>2, <2>3, DefineCodeEffect
<1>8. CASE tool = "declare_stack"
  <2>1. i \in ItemOf("declare_stack")
    BY <1>8
  <2>2. i.kind = "declare"
    BY <2>1 DEF ItemOf
  <2>3. r = DeclareStack(i, d)
    BY <1>1, <2>2 DEF Handle
  <2> QED
    BY <1>8, <2>1, <2>2, <2>3, DeclareStackEffect
<1>9. CASE tool = "delete_stack"
  <2>1. i \in ItemOf("delete_stack")
    BY <1>9
  <2>2. i.kind = "delete"
    BY <2>1 DEF ItemOf
  <2>3. r = DeleteStack(i, d)
    BY <1>1, <2>2 DEF Handle
  <2> QED
    BY <1>9, <2>1, <2>2, <2>3, DeleteStackEffect
<1>10. CASE tool = "declare_type"
  <2>1. i \in ItemOf("declare_type")
    BY <1>10
  <2>2. i.kind = "decl"
    BY <2>1 DEF ItemOf
  <2>3. r = DeclareType(i, d)
    BY <1>1, <2>2 DEF Handle
  <2> QED
    BY <1>10, <2>1, <2>2, <2>3, DeclareTypeEffect
<1>11. CASE tool = "rename"
  <2>1. i \in ItemOf("rename")
    BY <1>11
  <2>2. i.kind \in {"func", "data", "stack"}
    BY <2>1 DEF ItemOf
  <2>3. CASE i.kind = "func"
    <3>1. r = RenameFunc(i, d)
      BY <1>1, <2>3 DEF Handle
    <3> QED
      BY <2>1, <2>3, <3>1, RenameEffect
  <2>4. CASE i.kind = "data"
    <3>1. r = RenameData(i, d)
      BY <1>1, <2>4 DEF Handle
    <3> QED
      BY <2>1, <2>4, <3>1, RenameEffect
  <2>5. CASE i.kind = "stack"
    <3>1. r = RenameStack(i, d)
      BY <1>1, <2>5 DEF Handle
    <3> QED
      BY <2>1, <2>5, <3>1, RenameStackEffect
  <2> QED
    BY <2>2, <2>3, <2>4, <2>5
<1>12. CASE tool = "set_type"
  <2>1. i \in ItemOf("set_type")
    BY <1>12
  <2>2. i.kind = "settype"
    BY <2>1 DEF ItemOf
  <2>3. r = SetType(i, d)
    BY <1>1, <2>2 DEF Handle
  <2> QED
    BY <2>1, <2>2, <2>3, SetTypeEffect
<1>13. CASE tool = "undefine"
  <2>1. i \in ItemOf("undefine")
    BY <1>13
  <2>2. i.kind = "undefine"
    BY <2>1 DEF ItemOf
  <2>3. r \in Undefine(i, d)
    BY <2>2 DEF Outcomes
  <2> QED
    BY <2>1, <2>2, <2>3, UndefineEffect
<1> QED
  BY <1>2, <1>3, <1>4, <1>5, <1>6, <1>7, <1>8, <1>9, <1>10, <1>11, <1>12, <1>13 DEF EditTool

-----------------------------------------------------------------------------
(***************************************************************************)
(* The inductive invariant.  What an answer promises has to hold of every  *)
(* prefix of the batch, relative to the items of it reported as done; and  *)
(* for that the items not yet handled have to be those the results do not  *)
(* cover yet.                                                              *)
(***************************************************************************)

\* d differs from e only by what the items of D say.
BytesFrom(D, d, e) ==
    \A a \in Addr : d.mem[a] # e.mem[a] =>
        \E i \in D : i.kind \in {"asm", "patch", "int"} /\ a \in Span(i)

CommentsFrom(D, d, e) ==
    \A a \in Addr : d.cmt[a] # e.cmt[a] =>
        \E i \in D : i.kind = "comment" /\ i.addr = a /\ i.comment = d.cmt[a]

NamesFrom(D, d, e) ==
    \A a \in Addr : d.name[a] # e.name[a] =>
        \E i \in D : i.kind \in {"func", "data"} /\ i.new = d.name[a]

TypesFrom(D, d, e) ==
    \A a \in Addr : d.type[a] # e.type[a] =>
        \E i \in D : i.kind = "settype" /\ i.addr = a /\ i.type = d.type[a] /\ KindOf(i) # "stack"

FuncsFrom(D, d, e) ==
    \A f \in d.funcs \ e.funcs : \E i \in D : i.kind = "define" /\ i.addr = f

FramesFrom(D, d, e) ==
    \A f \in FuncEntry : \A m \in d.frame[f] \ e.frame[f] :
        \E i \in D :
            \/ i.kind = "stack" /\ i.addr = f /\ i.new = m.name
            \/ /\ i.kind = "declare" /\ i.addr = f
               /\ i.off = m.off /\ i.name = m.name /\ i.type = m.type
            \/ /\ i.kind = "settype" /\ i.addr = f
               /\ i.name = m.name /\ i.type = m.type /\ KindOf(i) = "stack"

ItemsFrom(D, d, e) ==
    /\ \A it \in d.items \ e.items :
          \E i \in D : i.kind = "code" /\ i.addr = it.ea /\ it.len = InsnLen[it.ea]
    /\ \A it \in e.items \ d.items :
          \E i \in D : i.kind = "undefine" /\ Asked(i) \cap Bytes(it) # {}
    /\ \A i \in D : i.kind = "decl" => Range(i.decls) \subseteq d.types

OthersFrom(D, d, e) ==
    /\ CommentsFrom(D, d, e) /\ NamesFrom(D, d, e) /\ TypesFrom(D, d, e)
    /\ FuncsFrom(D, d, e) /\ FramesFrom(D, d, e) /\ ItemsFrom(D, d, e)

NamesInv == NamesApart(db) /\ FramesApart(db)

RunInv ==
    /\ phase = "idle" => results = <<>> /\ db = base
    /\ phase \in {"run", "answered"} =>
          /\ batch \in Batch
          /\ todo \in Seq(ItemOf(batch.tool) \cup {NotObject})
          /\ Len(results) + Len(todo) = Len(Walked(batch))
          /\ \A k \in 1 .. Len(todo) : todo[k] = Walked(batch)[Len(results) + k]

AccountInv ==
    phase \in {"run", "answered"} =>
        /\ batch.tool # "patch_asm" => BytesFrom(DoneItems, db, base)
        /\ OthersFrom(DoneItems, db, base)

Inv == TypeOK /\ NamesInv /\ RunInv /\ AccountInv

-----------------------------------------------------------------------------
\* One more item: what it reports as done accounts for what it changed, and
\* what the items before it changed and it left alone is accounted for already.
LEMMA FromStep ==
    ASSUME NEW D, NEW d, NEW e, NEW i, NEW r, Effect(i, d, r),
           NEW D2, D2 = IF r.ok THEN D \cup {i} ELSE D
    PROVE  /\ BytesFrom(D, d, e) /\ i.kind # "asm" => BytesFrom(D2, r.db, e)
           /\ OthersFrom(D, d, e) => OthersFrom(D2, r.db, e)
<1>1. D \subseteq D2 /\ (r.ok => i \in D2) /\ (\A x \in D2 \ D : r.ok /\ x = i)
  OBVIOUS
<1>2. ASSUME BytesFrom(D, d, e), i.kind # "asm"
      PROVE  BytesFrom(D2, r.db, e)
  BY <1>1, <1>2 DEF Effect, MemEffect, BytesFrom
<1>3. ASSUME OthersFrom(D, d, e)
      PROVE  OthersFrom(D2, r.db, e)
  <2>1. CommentsFrom(D2, r.db, e)
    BY <1>1, <1>3 DEF OthersFrom, Effect, CmtEffect, CommentsFrom
  <2>2. NamesFrom(D2, r.db, e)
    BY <1>1, <1>3 DEF OthersFrom, Effect, NameEffect, NamesFrom
  <2>3. TypesFrom(D2, r.db, e)
    BY <1>1, <1>3 DEF OthersFrom, Effect, TypeEffect, TypesFrom
  <2>4. FuncsFrom(D2, r.db, e)
    BY <1>1, <1>3 DEF OthersFrom, Effect, FuncEffect, FuncsFrom
  <2>5. FramesFrom(D2, r.db, e)
    BY <1>1, <1>3 DEF OthersFrom, Effect, FrameEffect, FramesFrom
  <2>6. ItemsFrom(D2, r.db, e)
    <3>1. \A it \in r.db.items \ e.items :
             \E x \in D2 : x.kind = "code" /\ x.addr = it.ea /\ it.len = InsnLen[it.ea]
      BY <1>1, <1>3 DEF OthersFrom, Effect, ItemEffect, ItemsFrom
    <3>2. \A it \in e.items \ r.db.items :
             \E x \in D2 : x.kind = "undefine" /\ Asked(x) \cap Bytes(it) # {}
      BY <1>1, <1>3 DEF OthersFrom, Effect, ItemEffect, ItemsFrom
    <3>3. \A x \in D2 : x.kind = "decl" => Range(x.decls) \subseteq r.db.types
      BY <1>1, <1>3 DEF OthersFrom, Effect, DeclEffect, ItemsFrom
    <3> QED
      BY <3>1, <3>2, <3>3 DEF ItemsFrom
  <2> QED
    BY <2>1, <2>2, <2>3, <2>4, <2>5, <2>6 DEF OthersFrom
<1> QED
  BY <1>2, <1>3

\* Nothing done accounts for nothing changed.
LEMMA FromNothing ==
    ASSUME NEW d
    PROVE  BytesFrom({}, d, d) /\ OthersFrom({}, d, d)
BY DEF BytesFrom, OthersFrom, CommentsFrom, NamesFrom, TypesFrom, FuncsFrom, FramesFrom, ItemsFrom

\* The first of the items to do is the one the next result will be for.
LEMMA NextItem ==
    ASSUME Inv, phase = "run", todo # <<>>
    PROVE  /\ Len(results) + 1 \in 1 .. Len(Walked(batch))
           /\ Head(todo) = Walked(batch)[Len(results) + 1]
           /\ Head(todo) \in ItemOf(batch.tool) \cup {NotObject}
           /\ Len(Tail(todo)) = Len(todo) - 1
           /\ \A k \in 1 .. Len(todo) - 1 : Tail(todo)[k] = todo[k + 1]
           /\ batch.tool \in EditTool
<1> DEFINE S == ItemOf(batch.tool) \cup {NotObject}
<1>1. todo \in Seq(S) /\ batch.tool \in EditTool
  BY BatchAssumption DEF Inv, RunInv, BatchAssumption
<1> HIDE DEF S
<1>2. Len(todo) \in Nat \ {0} /\ Head(todo) = todo[1] /\ Head(todo) \in S
  BY <1>1
<1>3. Len(Tail(todo)) = Len(todo) - 1 /\ \A k \in 1 .. Len(todo) - 1 : Tail(todo)[k] = todo[k + 1]
  BY <1>1, HeadTailProperties
<1>4. Len(results) \in Nat
  BY DEF Inv, TypeOK
<1>5. Len(results) + Len(todo) = Len(Walked(batch))
  BY DEF Inv, RunInv
<1>6. Head(todo) = Walked(batch)[Len(results) + 1]
  <2>1. \A k \in 1 .. Len(todo) : todo[k] = Walked(batch)[Len(results) + k]
    BY DEF Inv, RunInv
  <2> QED
    BY <1>2, <2>1
<1> QED
  BY <1>1, <1>2, <1>3, <1>4, <1>5, <1>6 DEF S

\* What one outcome adds to the items reported as done.
LEMMA DoneStep ==
    ASSUME Inv, phase = "run", todo # <<>>, NEW ok \in BOOLEAN,
           results' = Append(results, ok), batch' = batch
    PROVE  DoneItems' = IF ok THEN DoneItems \cup {Head(todo)} ELSE DoneItems
<1>1. results \in Seq(BOOLEAN)
  BY DEF Inv, TypeOK
<1> DEFINE n == Len(results)
<1>2. n \in Nat /\ DOMAIN results = 1 .. n
  BY <1>1
<1>3. /\ DOMAIN results' = 1 .. n + 1 /\ results'[n + 1] = ok
      /\ \A k \in 1 .. n : results'[k] = results[k]
  BY <1>1, <1>2
<1>4. Head(todo) = Walked(batch)[n + 1]
  BY NextItem
<1> HIDE DEF n
<1> DEFINE K == {j \in DOMAIN results : results[j]}
           L == {j \in DOMAIN results' : results'[j]}
<1>5. L = IF ok THEN K \cup {n + 1} ELSE K
  BY <1>2, <1>3
<1> HIDE DEF K, L
<1>6. Walked(batch)' = Walked(batch)
  BY DEF Walked
<1>7. DoneItems' = {Walked(batch)[k] : k \in L}
  BY <1>6 DEF DoneItems, L
<1>8. DoneItems = {Walked(batch)[k] : k \in K}
  BY DEF DoneItems, K
<1> QED
  BY <1>4, <1>5, <1>7, <1>8

\* An item does what its handler does, or fails and leaves everything alone.
LEMMA ItemDone ==
    ASSUME Inv, Item
    PROVE  \E r : /\ db' = r.db /\ results' = Append(results, r.ok) /\ r.ok \in BOOLEAN
                  /\ \/ /\ IsObject(Head(todo)) /\ Effect(Head(todo), db, r)
                        /\ Head(todo).kind = "asm" => batch.tool = "patch_asm"
                     \/ ~r.ok /\ r.db = db
<1>1. PICK r \in Outcomes(Head(todo), db) : db' = r.db /\ results' = Append(results, r.ok)
  BY DEF Item
<1>2. Head(todo) \in ItemOf(batch.tool) \cup {NotObject} /\ batch.tool \in EditTool
  BY NextItem DEF Item
<1>3. db \in Database /\ NamesApart(db) /\ FramesApart(db)
  BY DEF Inv, TypeOK, NamesInv
<1>4. CASE IsObject(Head(todo))
  <2>1. Head(todo) \in ItemOf(batch.tool)
    BY <1>2, <1>4 DEF IsObject
  <2>2. Effect(Head(todo), db, r) /\ (Head(todo).kind = "asm" => batch.tool = "patch_asm")
    BY <1>2, <1>3, <1>4, <2>1, OutcomeEffect
  <2>3. r.ok \in BOOLEAN
    BY <2>2 DEF Effect
  <2> QED
    BY <1>1, <1>4, <2>2, <2>3
<1>5. CASE ~IsObject(Head(todo))
  <2>1. r = Failed(db)
    BY <1>5 DEF Outcomes
  <2>2. r.ok = FALSE /\ r.db = db
    BY <2>1 DEF Failed
  <2> QED
    BY <1>1, <2>2
<1> QED
  BY <1>4, <1>5

\* The strengthened invariant is inductive.
THEOREM InvCorrect == Spec => []Inv
<1>1. Init => Inv
  <2> SUFFICES ASSUME Init
               PROVE  Inv
    OBVIOUS
  <2>1. db \in Database /\ NamesUnique(db)
    BY BatchAssumption DEF Init, BatchAssumption
  <2>2. NamesInv
    BY <2>1, UniqueIsApart DEF NamesInv
  <2> QED
    BY <2>1, <2>2 DEF Init, Inv, TypeOK, RunInv, AccountInv
<1>2. Inv /\ [Next]_vars => Inv'
  <2> SUFFICES ASSUME Inv, [Next]_vars
               PROVE  Inv'
    OBVIOUS
  <2>1. CASE Submit
    <3>1. batch' \in Batch /\ phase = "idle" /\ phase' = "run" /\ db' = db /\ results' = results
      BY <2>1 DEF Submit
    <3>2. results = <<>> /\ db = base /\ base' = base /\ todo' = Walked(batch')
      BY <2>1, <3>1 DEF Inv, RunInv, Submit
    <3>3. todo' \in Seq(ItemOf(batch'.tool) \cup {NotObject})
      BY <3>1, <3>2, BatchAssumption DEF BatchAssumption
    <3>4. TypeOK'
      BY <3>1 DEF Inv, TypeOK
    <3>5. NamesInv'
      BY <3>1 DEF Inv, NamesInv
    <3>6. RunInv'
      <4>1. Walked(batch)' = Walked(batch')
        BY DEF Walked
      <4>2. Len(results') = 0
        BY <3>1, <3>2
      <4>3. Len(todo') \in Nat
        BY <3>3
      <4>4. \A k \in 1 .. Len(todo') : Len(results') + k = k
        BY <4>2
      <4> QED
        BY <3>1, <3>2, <3>3, <4>1, <4>2, <4>3, <4>4 DEF RunInv
    <3>7. AccountInv'
      <4>1. DoneItems' = {}
        BY <3>1, <3>2 DEF DoneItems
      <4> QED
        BY <3>1, <3>2, <4>1, FromNothing DEF AccountInv
    <3> QED
      BY <3>4, <3>5, <3>6, <3>7 DEF Inv
  <2>2. CASE Item
    <3>1. /\ phase = "run" /\ todo # <<>> /\ todo' = Tail(todo)
          /\ batch' = batch /\ phase' = phase /\ base' = base
      BY <2>2 DEF Item
    <3>2. PICK r : /\ db' = r.db /\ results' = Append(results, r.ok) /\ r.ok \in BOOLEAN
                   /\ \/ /\ IsObject(Head(todo)) /\ Effect(Head(todo), db, r)
                         /\ Head(todo).kind = "asm" => batch.tool = "patch_asm"
                      \/ ~r.ok /\ r.db = db
      BY <2>2, ItemDone
    <3>3. db' \in Database /\ NamesInv'
      BY <3>2 DEF Effect, Inv, TypeOK, NamesInv
    <3>4. /\ results \in Seq(BOOLEAN) /\ results' \in Seq(BOOLEAN)
          /\ Len(results') = Len(results) + 1
      BY <3>2 DEF Inv, TypeOK
    <3>5. TypeOK'
      BY <3>1, <3>3, <3>4 DEF TypeOK
    <3>6. RunInv'
      <4>1. batch \in Batch /\ todo \in Seq(ItemOf(batch.tool) \cup {NotObject})
        BY <3>1 DEF Inv, RunInv
      <4>2. todo' \in Seq(ItemOf(batch.tool) \cup {NotObject}) /\ Len(todo) \in Nat \ {0}
        <5> DEFINE S == ItemOf(batch.tool) \cup {NotObject}
        <5> HIDE DEF S
        <5>1. todo \in Seq(S)
          BY <4>1 DEF S
        <5> QED
          BY <5>1, <3>1 DEF S
      <4>3. /\ Len(todo') = Len(todo) - 1
            /\ \A k \in 1 .. Len(todo) - 1 : todo'[k] = todo[k + 1]
        BY <3>1, NextItem
      <4>4. Walked(batch)' = Walked(batch)
        BY <3>1 DEF Walked
      <4>5. /\ Len(results) + Len(todo) = Len(Walked(batch))
            /\ \A k \in 1 .. Len(todo) : todo[k] = Walked(batch)[Len(results) + k]
        BY <3>1 DEF Inv, RunInv
      <4>6. Len(results) \in Nat
        BY <3>4
      <4> DEFINE n == Len(results)
                 l == Len(todo)
                 W == Walked(batch)
      <4>7. n \in Nat /\ l \in Nat \ {0} /\ Len(results') = n + 1 /\ Len(todo') = l - 1
        BY <3>4, <4>2, <4>3, <4>6
      <4>8. n + l = Len(W)
        BY <4>5
      <4>9. \A k \in 1 .. l : todo[k] = W[n + k]
        BY <4>5
      <4>10. \A k \in 1 .. l - 1 : todo'[k] = todo[k + 1]
        BY <4>3
      <4> HIDE DEF n, l, W
      <4>11. \A k \in 1 .. l - 1 : todo'[k] = W[(n + 1) + k]
        <5> SUFFICES ASSUME NEW k \in 1 .. l - 1
                     PROVE  todo'[k] = W[(n + 1) + k]
          OBVIOUS
        <5>1. k + 1 \in 1 .. l /\ n + (k + 1) = (n + 1) + k
          BY <4>7
        <5> QED
          BY <5>1, <4>9, <4>10
      <4>12. (n + 1) + (l - 1) = Len(W)
        BY <4>7, <4>8
      <4> QED
        BY <3>1, <4>1, <4>2, <4>4, <4>7, <4>11, <4>12 DEF RunInv, W
    <3>7. AccountInv'
      <4> DEFINE i == Head(todo)
                 D == DoneItems
      <4>1. DoneItems' = IF r.ok THEN D \cup {i} ELSE D
        BY <3>1, <3>2, DoneStep
      <4>2. (batch.tool # "patch_asm" => BytesFrom(D, db, base)) /\ OthersFrom(D, db, base)
        BY <3>1 DEF Inv, AccountInv
      <4> HIDE DEF i, D
      <4>3. CASE Effect(i, db, r) /\ (i.kind = "asm" => batch.tool = "patch_asm")
        <5>1. /\ batch.tool # "patch_asm" => BytesFrom(DoneItems', r.db, base)
              /\ OthersFrom(DoneItems', r.db, base)
          BY <4>1, <4>2, <4>3, FromStep
        <5> QED
          BY <5>1, <3>1, <3>2 DEF AccountInv
      <4>4. CASE ~r.ok /\ r.db = db
        BY <4>1, <4>2, <4>4, <3>1, <3>2 DEF AccountInv
      <4> QED
        BY <3>2, <4>3, <4>4 DEF i
    <3> QED
      BY <3>3, <3>5, <3>6, <3>7 DEF Inv
  <2>3. CASE Abort
    <3>1. phase' = "failed" /\ results' = <<>> /\ db' = db
      BY <2>3 DEF Abort
    <3> QED
      BY <3>1 DEF Inv, TypeOK, NamesInv, RunInv, AccountInv
  <2>4. CASE Answer
    <3>1. /\ phase = "run" /\ phase' = "answered" /\ todo = <<>>
          /\ db' = db /\ batch' = batch /\ todo' = todo /\ results' = results /\ base' = base
      BY <2>4 DEF Answer
    <3>2. Walked(batch)' = Walked(batch)
      BY <3>1 DEF Walked
    <3>3. DoneItems' = DoneItems
      BY <3>1, <3>2 DEF DoneItems
    <3>4. TypeOK' /\ NamesInv'
      BY <3>1 DEF Inv, TypeOK, NamesInv
    <3>5. RunInv'
      BY <3>1, <3>2 DEF Inv, RunInv
    <3>6. AccountInv'
      BY <3>1, <3>3 DEF Inv, AccountInv
    <3> QED
      BY <3>4, <3>5, <3>6 DEF Inv
  <2>5. CASE UNCHANGED vars
    <3>1. /\ phase' = phase /\ db' = db /\ batch' = batch /\ todo' = todo
          /\ results' = results /\ base' = base
      BY <2>5 DEF vars
    <3>2. Walked(batch)' = Walked(batch)
      BY <3>1 DEF Walked
    <3>3. DoneItems' = DoneItems
      BY <3>1, <3>2 DEF DoneItems
    <3>4. TypeOK' /\ NamesInv'
      BY <3>1 DEF Inv, TypeOK, NamesInv
    <3>5. RunInv'
      BY <3>1, <3>2 DEF Inv, RunInv
    <3>6. AccountInv'
      BY <3>1, <3>3 DEF Inv, AccountInv
    <3> QED
      BY <3>4, <3>5, <3>6 DEF Inv
  <2> QED
    BY <2>1, <2>2, <2>3, <2>4, <2>5 DEF Next
<1> QED
  BY <1>1, <1>2, PTL DEF Spec

\* The database stays one the model knows, whatever the batches ask for.
THEOREM TypeCorrect == Spec => []TypeOK
<1>1. Inv => TypeOK
  BY DEF Inv
<1> QED
  BY <1>1, InvCorrect, PTL

\* NamesStayUnique: renames and declarations that swap, chain or repeat names
\* never leave one name at two addresses or in one frame twice, and no two
\* variables share a byte, in databases and batches of any size.
THEOREM NamesStayUniqueAlways == Spec => []NamesStayUnique
<1>1. Inv => NamesStayUnique
  BY UniqueIsApart DEF Inv, NamesInv, NamesStayUnique
<1> QED
  BY <1>1, InvCorrect, PTL

\* AnswerAccountsForChanges: an answer covers every item walked, and what the
\* batch changed follows from the items it reports as done.
THEOREM AnswerAccountsForChangesAlways == Spec => []AnswerAccountsForChanges
<1>1. Inv => AnswerAccountsForChanges
  <2> SUFFICES ASSUME Inv, phase = "answered"
               PROVE  /\ Len(results) = Len(Walked(batch))
                      /\ batch.tool # "patch_asm" => BytesAccounted
                      /\ AttributesAccounted
                      /\ ItemsAccounted
    BY DEF AnswerAccountsForChanges
  <2>1. Len(results) = Len(Walked(batch))
    <3>1. todo = <<>>
      BY DEF Inv, TypeOK
    <3>2. Len(results) \in Nat /\ Len(todo) = 0
      BY <3>1 DEF Inv, TypeOK
    <3>3. Len(results) + Len(todo) = Len(Walked(batch))
      BY DEF Inv, RunInv
    <3> QED
      BY <3>2, <3>3
  <2>2. /\ batch.tool # "patch_asm" => BytesFrom(DoneItems, db, base)
        /\ OthersFrom(DoneItems, db, base)
    BY DEF Inv, AccountInv
  <2>3. batch.tool # "patch_asm" => BytesAccounted
    BY <2>2 DEF BytesFrom, BytesAccounted, Accounted
  <2>4. AttributesAccounted
    <3>1. \A a \in Addr : db.cmt[a] # base.cmt[a] =>
             Accounted({"comment"}, LAMBDA i : i.addr = a /\ i.comment = db.cmt[a])
      BY <2>2 DEF OthersFrom, CommentsFrom, Accounted
    <3>2. \A a \in Addr : db.name[a] # base.name[a] =>
             Accounted({"func", "data"}, LAMBDA i : i.new = db.name[a])
      BY <2>2 DEF OthersFrom, NamesFrom, Accounted
    <3>3. \A a \in Addr : db.type[a] # base.type[a] =>
             Accounted({"settype"}, LAMBDA i :
                 i.addr = a /\ i.type = db.type[a] /\ KindOf(i) # "stack")
      BY <2>2 DEF OthersFrom, TypesFrom, Accounted
    <3>4. \A f \in db.funcs \ base.funcs : Accounted({"define"}, LAMBDA i : i.addr = f)
      BY <2>2 DEF OthersFrom, FuncsFrom, Accounted
    <3>5. \A f \in FuncEntry : \A m \in db.frame[f] \ base.frame[f] :
             \/ Accounted({"stack"}, LAMBDA i : i.addr = f /\ i.new = m.name)
             \/ Accounted({"declare"}, LAMBDA i :
                   i.addr = f /\ i.off = m.off /\ i.name = m.name /\ i.type = m.type)
             \/ Accounted({"settype"}, LAMBDA i :
                   i.addr = f /\ i.name = m.name /\ i.type = m.type /\ KindOf(i) = "stack")
      <4> SUFFICES ASSUME NEW f \in FuncEntry, NEW m \in db.frame[f] \ base.frame[f]
                   PROVE  \/ Accounted({"stack"}, LAMBDA i : i.addr = f /\ i.new = m.name)
                          \/ Accounted({"declare"}, LAMBDA i :
                                i.addr = f /\ i.off = m.off /\ i.name = m.name /\ i.type = m.type)
                          \/ Accounted({"settype"}, LAMBDA i :
                                i.addr = f /\ i.name = m.name /\ i.type = m.type
                                /\ KindOf(i) = "stack")
        OBVIOUS
      <4>1. PICK i \in DoneItems :
               \/ i.kind = "stack" /\ i.addr = f /\ i.new = m.name
               \/ /\ i.kind = "declare" /\ i.addr = f
                  /\ i.off = m.off /\ i.name = m.name /\ i.type = m.type
               \/ /\ i.kind = "settype" /\ i.addr = f
                  /\ i.name = m.name /\ i.type = m.type /\ KindOf(i) = "stack"
        BY <2>2 DEF OthersFrom, FramesFrom
      <4> QED
        BY <4>1 DEF Accounted
    <3> QED
      BY <3>1, <3>2, <3>3, <3>4, <3>5 DEF AttributesAccounted
  <2>5. ItemsAccounted
    BY <2>2 DEF OthersFrom, ItemsFrom, ItemsAccounted, Accounted
  <2> QED
    BY <2>1, <2>3, <2>4, <2>5
<1> QED
  BY <1>1, InvCorrect, PTL

\* OnlyTheNamedIsDeleted: a variable leaves its frame only when delete_stack is
\* given its name, it leaves alone, and it is no return address, saved register
\* or argument.
THEOREM OnlyTheNamedIsDeletedAlways == Spec => OnlyTheNamedIsDeleted
<1> DEFINE Kept(f) ==
       LET gone == {m \in db.frame[f] : \A n \in db'.frame[f] : n.off # m.off}
       IN  gone # {} =>
               /\ Head(todo).kind = "delete" /\ Head(todo).addr = f
               /\ \A m \in gone : /\ m.name = Head(todo).name
                                  /\ m.off \notin Special /\ m.off < ArgFrom
               /\ Cardinality(gone) = 1
<1>1. Inv /\ [Next]_vars => [\A f \in FuncEntry : Kept(f)]_vars
  <2> SUFFICES ASSUME Inv, Next, NEW f \in FuncEntry
               PROVE  Kept(f)
    BY DEF vars
  <2>1. CASE Item
    <3>1. PICK r : /\ db' = r.db
                   /\ Effect(Head(todo), db, r) \/ r.db = db
      BY <2>1, ItemDone
    <3>2. CASE r.db = db
      BY <3>1, <3>2
    <3>3. CASE Effect(Head(todo), db, r)
      <4>1. DeleteEffect(Head(todo), db, r)
        BY <3>3 DEF Effect
      <4>2. Gone(f, db, r.db) = {m \in db.frame[f] : \A n \in db'.frame[f] : n.off # m.off}
        BY <3>1 DEF Gone
      <4> QED
        BY <4>1, <4>2 DEF DeleteEffect
    <3> QED
      BY <3>1, <3>2, <3>3
  <2>2. CASE Submit \/ Abort \/ Answer
    <3>1. db' = db
      BY <2>2 DEF Submit, Abort, Answer
    <3> QED
      BY <3>1
  <2> QED
    BY <2>1, <2>2 DEF Next
<1> QED
  BY <1>1, InvCorrect, PTL DEF Spec, OnlyTheNamedIsDeleted

-----------------------------------------------------------------------------
\* The bytes of an integer in memory order are, from the most significant one on,
\* those of its remainder by the widest integer's range.
LEMMA BytesInOrder ==
    ASSUME NEW v \in Int, NEW ty \in IntTypeSpec,
           NEW bytes, bytes = uint_to_bytes(v, ty)
    PROVE  bytes_to_uint(bytes, ty) = v % Pow[ty.width]
<1> DEFINE w == ty.width
           u == v % Pow[MaxWidth]
           msb == IF ty.big THEN bytes ELSE Reverse(bytes)
<1>1. w \in Nat /\ MaxWidth \in Nat /\ w <= MaxWidth
  BY EditAssumption DEF IntTypeSpec, EditAssumption
<1>2. u \in Int
  BY <1>1, LowBytes
<1> HIDE DEF u
<1>3. bytes = [k \in 1 .. w |-> ByteOf(u, IF ty.big THEN w - k ELSE k - 1)]
  BY DEF uint_to_bytes, u
<1> HIDE DEF w
<1>4. msb \in [1 .. w -> Int] /\ \A k \in 1 .. w : msb[k] = ByteOf(u, w - k)
  <2>1. CASE ty.big
    <3>1. msb = [k \in 1 .. w |-> ByteOf(u, w - k)]
      BY <1>3, <2>1
    <3>2. \A k \in 1 .. w : w - k \in Nat
      BY <1>1
    <3> HIDE DEF msb
    <3>3. \A k \in 1 .. w : ByteOf(u, w - k) \in Int
      BY <1>2, <3>2, ByteOfIsByte
    <3> QED
      BY <3>1, <3>3
  <2>2. CASE ~ty.big
    <3>1. Len(bytes) = w /\ bytes = [k \in 1 .. w |-> ByteOf(u, k - 1)]
      BY <1>1, <1>3, <2>2
    <3>2. msb = [k \in 1 .. w |-> bytes[(w - k) + 1]]
      BY <2>2, <3>1 DEF Reverse
    <3>3. \A k \in 1 .. w : w - k \in Nat /\ (w - k) + 1 \in 1 .. w /\ ((w - k) + 1) - 1 = w - k
      BY <1>1
    <3> HIDE DEF msb
    <3>4. \A k \in 1 .. w : msb[k] = ByteOf(u, w - k)
      BY <3>1, <3>2, <3>3
    <3>5. \A k \in 1 .. w : ByteOf(u, w - k) \in Int
      BY <1>2, <3>3, ByteOfIsByte
    <3> QED
      BY <3>2, <3>4, <3>5
  <2> QED
    BY <2>1, <2>2
<1>5. bytes_to_uint(bytes, ty) = NumberOf(msb)
  BY DEF bytes_to_uint
<1> HIDE DEF msb
<1>6. NumberOf(msb) = u % Pow[w]
  BY <1>1, <1>2, <1>4, NumberOfItsBytes
<1>7. u % Pow[w] = v % Pow[w]
  BY <1>1, ModPow DEF u
<1> QED
  BY <1>5, <1>6, <1>7 DEF w

\* A remainder, taken as signed or as it is, is the number of its type.
LEMMA SignedIsWrapped ==
    ASSUME NEW v \in Int, NEW ty \in IntTypeSpec, NEW m, m = v % Pow[ty.width]
    PROVE  (IF ty.signed /\ m >= Pow[ty.width] \div 2 THEN m - Pow[ty.width] ELSE m) = Wrapped(v, ty)
<1> DEFINE p == Pow[ty.width]
           half == p \div 2
           q == v \div p
           y == IF ty.signed /\ m >= half THEN m - p ELSE m
           range == IF ty.signed THEN -half .. half - 1 ELSE 0 .. 2 * half - 1
<1>1. ty.width \in Nat \ {0}
  BY EditAssumption DEF IntTypeSpec, EditAssumption
<1>2. p \in Nat \ {0} /\ half \in Nat \ {0} /\ 2 * half = p
  BY <1>1, PowEven
<1> HIDE DEF half
<1>3. q \in Int /\ m \in 0 .. p - 1 /\ v = q * p + m
  <2> HIDE DEF p
  <2>1. m = v % p
    BY DEF p
  <2>2. q \in Int /\ v % p \in 0 .. p - 1 /\ v = q * p + (v % p)
    BY <1>2, DivModDef
  <2> QED
    BY <2>1, <2>2
<1> HIDE DEF p, q
<1>4. y \in range
  BY <1>2, <1>3
<1>5. (y - v) % p = 0
  <2>1. ASSUME NEW c \in Int PROVE (c * p) % p = 0
    <3> DEFINE a == c * p
    <3>1. a = c * p + 0 /\ a \in Int /\ 0 \in 0 .. p - 1
      BY <1>2
    <3> HIDE DEF a
    <3>2. a % p = 0
      BY <1>2, <3>1, DivModUnique
    <3> QED
      BY <3>2 DEF a
  <2>2. y - v = (-q) * p \/ y - v = (-q - 1) * p
    BY <1>2, <1>3
  <2>3. -q \in Int /\ -q - 1 \in Int
    BY <1>3
  <2> HIDE DEF y
  <2> QED
    BY <2>1, <2>2, <2>3
<1>6. ASSUME NEW x \in range, (x - v) % p = 0 PROVE x = y
  <2>1. x \in Int /\ y \in Int /\ x - y < p /\ y - x < p
    BY <1>2, <1>4
  <2> HIDE DEF y, range
  <2> QED
    BY <1>2, <1>5, <1>6, <2>1, OneOfItsClass
<1>7. Wrapped(v, ty) = CHOOSE x \in range : (x - v) % (2 * half) = 0
  BY DEF Wrapped, half, p
<1> HIDE DEF y, range
<1>8. Wrapped(v, ty) = y
  BY <1>2, <1>4, <1>5, <1>6, <1>7
<1> QED
  BY <1>8 DEF y, p, half

\* What put_int does when it does not fail.
LEMMA PutIntWrites ==
    ASSUME NEW d \in Database, NEW i \in ItemOf("put_int"), NEW r, r = PutInt(i, d), r.ok = TRUE
    PROVE  /\ i.addr \in Addr /\ i.ty \in IntTypeSpec /\ i.value \in Int
           /\ r.db.mem = PatchBytes(d.mem, i.addr, uint_to_bytes(i.value, i.ty))
<1>1. r # Failed(d)
  BY DEF Failed
<1>2. /\ i.addr \in Addr /\ i.ty \in IntTypeSpec /\ i.value \in Int
      /\ r.db = [d EXCEPT !.mem = PatchBytes(d.mem, i.addr, uint_to_bytes(i.value, i.ty))]
  BY <1>1 DEF PutInt, Done, ItemOf, Parsed
<1> QED
  BY <1>2 DEF Database

\* Bytes patched where there are bytes are there afterwards, and no others.
LEMMA PatchedBytes ==
    ASSUME NEW mem, NEW ea \in Addr, NEW w \in Nat, NEW bytes, DOMAIN bytes = 1 .. w,
           ea .. ea + w - 1 \subseteq Mapped
    PROVE  /\ \A k \in 1 .. w : PatchBytes(mem, ea, bytes)[ea + k - 1] = bytes[k]
           /\ \A a \in Addr \ (ea .. ea + w - 1) : PatchBytes(mem, ea, bytes)[a] = mem[a]
<1>1. ea \in Int /\ Mapped \subseteq Addr /\ Addr \subseteq Int
  BY EditAssumption DEF Addr, EditAssumption
<1>2. ASSUME NEW k \in 1 .. w PROVE PatchBytes(mem, ea, bytes)[ea + k - 1] = bytes[k]
  <2>1. ea + k - 1 \in ea .. ea + w - 1 /\ (ea + k - 1) - ea + 1 = k
    BY <1>1
  <2>2. ea + k - 1 \in Mapped /\ ea + k - 1 \in Addr
    BY <1>1, <2>1
  <2> QED
    BY <2>1, <2>2 DEF PatchBytes
<1>3. ASSUME NEW a \in Addr \ (ea .. ea + w - 1) PROVE PatchBytes(mem, ea, bytes)[a] = mem[a]
  <2>1. a \in Int /\ a - ea + 1 \notin 1 .. w
    BY <1>1
  <2> QED
    BY <2>1 DEF PatchBytes
<1> QED
  BY <1>2, <1>3

\* For bytes and integers of any width: what put_int has written get_int reads
\* back, as the number of that width and sign that the value stands for, and the
\* bytes around it are as they were.
THEOREM PutIntReadsBackAlways == Spec => PutIntReadsBack
<1> DEFINE i == Head(todo)
           Given == /\ phase = "run" /\ todo # <<>> /\ Len(results') > Len(results)
                    /\ i # NotObject /\ i.kind = "int" /\ Last(results') /\ Span(i) \subseteq Mapped
           Back == /\ get_int(db'.mem, i.addr, i.ty) = Wrapped(i.value, i.ty)
                   /\ \A a \in Addr \ Span(i) : db'.mem[a] = db.mem[a]
<1>1. ASSUME Inv, [Next]_vars, Given PROVE Back
  <2>1. Item
    <3>1. Len(results) \in Nat
      BY <1>1 DEF Inv, TypeOK
    <3>2. ~(results' = <<>>) /\ results' # results
      BY <1>1, <3>1
    <3>3. CASE Submit
      BY <3>2, <3>3 DEF Submit
    <3>4. CASE Abort
      BY <3>2, <3>4 DEF Abort
    <3>5. CASE Answer
      BY <3>2, <3>5 DEF Answer
    <3> QED
      BY <1>1, <3>2, <3>3, <3>4, <3>5 DEF Next, vars
  <2>2. PICK r \in Outcomes(i, db) : db' = r.db /\ results' = Append(results, r.ok)
    BY <2>1 DEF Item
  <2>3. i \in ItemOf(batch.tool) /\ batch.tool \in EditTool
    BY <1>1, NextItem
  <2> HIDE DEF i
  <2>4. i.kind = "int" /\ i # NotObject
    BY <1>1
  <2>5. i \in ItemOf("put_int")
    BY <2>3, <2>4 DEF ItemOf, EditTool
  <2>6. r = PutInt(i, db)
    BY <2>2, <2>4 DEF Outcomes, Handle, IsObject
  <2>7. r.ok = TRUE
    <3>1. results \in Seq(BOOLEAN) /\ db \in Database
      BY <1>1 DEF Inv, TypeOK
    <3>2. r.ok \in BOOLEAN
      BY <2>6 DEF PutInt, Failed, Done
    <3>3. Last(results') = r.ok
      BY <2>2, <3>1, <3>2 DEF Last
    <3> QED
      BY <1>1, <3>2, <3>3
  <2>8. db \in Database
    BY <1>1 DEF Inv, TypeOK
  <2> DEFINE bytes == uint_to_bytes(i.value, i.ty)
             w == i.ty.width
  <2>9. i.addr \in Addr /\ i.ty \in IntTypeSpec /\ i.value \in Int /\ r.db.mem = PatchBytes(db.mem, i.addr, bytes)
    BY <2>5, <2>6, <2>7, <2>8, PutIntWrites
  <2>10. w \in Nat /\ bytes = [k \in 1 .. w |-> bytes[k]]
    BY <2>9, EditAssumption DEF IntTypeSpec, uint_to_bytes, EditAssumption
  <2>11. Span(i) = i.addr .. i.addr + w - 1
    BY <2>4 DEF Span
  <2>12. i.addr .. i.addr + w - 1 \subseteq Mapped
    BY <1>1, <2>11
  <2>13. bytes_to_uint(bytes, i.ty) = i.value % Pow[w]
    BY <2>9, BytesInOrder
  <2> HIDE DEF bytes
  <2> DEFINE read == [k \in 1 .. w |-> db'.mem[i.addr + k - 1]]
             m == bytes_to_uint(read, i.ty)
  <2>14. /\ \A k \in 1 .. w : db'.mem[i.addr + k - 1] = bytes[k]
         /\ \A a \in Addr \ Span(i) : db'.mem[a] = db.mem[a]
    <3> HIDE DEF w
    <3>1. DOMAIN bytes = 1 .. w
      BY <2>10
    <3>2. /\ \A k \in 1 .. w : PatchBytes(db.mem, i.addr, bytes)[i.addr + k - 1] = bytes[k]
          /\ \A a \in Addr \ (i.addr .. i.addr + w - 1) :
                PatchBytes(db.mem, i.addr, bytes)[a] = db.mem[a]
      <4> DEFINE ea == i.addr
                 mem == db.mem
      <4>1. ea \in Addr /\ w \in Nat /\ ea .. ea + w - 1 \subseteq Mapped
        BY <2>9, <2>10, <2>12
      <4> HIDE DEF ea, mem
      <4>2. /\ \A k \in 1 .. w : PatchBytes(mem, ea, bytes)[ea + k - 1] = bytes[k]
            /\ \A a \in Addr \ (ea .. ea + w - 1) : PatchBytes(mem, ea, bytes)[a] = mem[a]
        BY <3>1, <4>1, PatchedBytes
      <4> QED
        BY <4>2 DEF ea, mem
    <3>3. db'.mem = PatchBytes(db.mem, i.addr, bytes)
      BY <2>2, <2>9
    <3> QED
      BY <2>11, <3>2, <3>3
  <2>15. read = bytes
    BY <2>10, <2>14
  <2>16. m = i.value % Pow[w]
    BY <2>13, <2>15
  <2>17. get_int(db'.mem, i.addr, i.ty) = IF i.ty.signed /\ m >= Pow[w] \div 2 THEN m - Pow[w] ELSE m
    BY DEF get_int
  <2> HIDE DEF m
  <2>18. get_int(db'.mem, i.addr, i.ty) = Wrapped(i.value, i.ty)
    BY <2>9, <2>16, <2>17, SignedIsWrapped
  <2> QED
    BY <2>14, <2>18
<1>2. Inv /\ [Next]_vars => [Given => Back]_vars
  BY <1>1
<1> QED
  BY <1>2, InvCorrect, PTL DEF Spec, PutIntReadsBack

=============================================================================
