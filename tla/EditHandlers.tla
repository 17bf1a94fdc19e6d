----------------------------- MODULE EditHandlers -----------------------------
(***************************************************************************)
(* What the tools that change the IDA database do with one item of their   *)
(* batch: modify.cpp (rename, set_comments, patch_asm, define_func,        *)
(* define_code, undefine), memory.cpp (patch, put_int), stack.cpp          *)
(* (declare_stack, delete_stack) and types.cpp (set_type, declare_type).   *)
(* Every handler is an operator that returns the flag reported and the     *)
(* database left behind.                                                   *)
(*                                                                         *)
(* The widest integer has MaxWidth bytes (8 in the code).  Decompiler      *)
(* comments and variables are left out.                                    *)
(***************************************************************************)
EXTENDS Numbers, FiniteSets, SequencesExt, Functions

CONSTANTS
    Top,        \* addresses are 0 .. Top
    Mapped,     \* addresses IDA has bytes for
    InsnLen,    \* InsnLen[a]: length of the instruction a's bytes encode, or 0
    Name,       \* identifiers; those of BadName are refused by SN_CHECK
    BadName,
    NoName,     \* the empty string
    Comment,
    NoComment,
    MaxWidth,
    FuncEntry,  \* addresses at which add_func can create a function
    FrameTop,   \* offsets in a stack frame are 0 .. FrameTop
    Special,    \* offsets of return address and saved registers
    ArgFrom,    \* offsets from here on hold arguments
    Type,       \* types that have a declaration
    FuncType,   \* those of functions
    NoType,
    TypeSize,   \* TypeSize[t]: bytes a variable of type t takes
    Unparsable, \* a string that is no address, number, type or instruction
    IllTyped,   \* a JSON value that is not a string
    NotObject   \* a batch element that is not a JSON object

Addr == 0 .. Top
Byte == 0 .. Base - 1
Off == 0 .. FrameTop

ASSUME EditAssumption ==
    /\ {Top, FrameTop} \subseteq Nat
    /\ MaxWidth \in Nat \ {0}
    /\ Mapped \subseteq Addr /\ FuncEntry \subseteq Mapped
    /\ InsnLen \in [Addr -> Nat]
    /\ BadName \subseteq Name /\ NoName \notin Name
    /\ NoComment \notin Comment
    /\ Special \subseteq Off /\ ArgFrom \in Nat
    /\ FuncType \subseteq Type /\ NoType \notin Type
    /\ TypeSize \in [Type -> Nat \ {0}]

\* A variable in a stack frame, and an instruction or a data item.
Member == [name : Name, off : Off, size : 1 .. FrameTop + 1, type : Type \cup {NoType}]
Defined == [ea : Addr, len : 1 .. Top + 1]

Database ==
    [mem : [Addr -> Byte], name : [Addr -> Name \cup {NoName}],
     cmt : [Addr -> Comment \cup {NoComment}],
     type : [Addr -> Type \cup {NoType}],
     frame : [FuncEntry -> SUBSET Member],
     funcs : SUBSET FuncEntry, items : SUBSET Defined, types : SUBSET Type]

\* An integer type: its width in bytes, signedness and byte order.
IntTypeSpec == [width : 1 .. MaxWidth, signed : BOOLEAN, big : BOOLEAN]

\* The tools, and the items of their batches.
EditTool == {"set_comments", "rename", "patch_asm", "patch", "put_int", "define_func",
             "define_code", "undefine", "declare_stack", "delete_stack", "set_type",
             "declare_type"}
Address == Addr \cup {Unparsable, IllTyped}
Text == Name \cup {NoName}

ItemOf(tool) ==
    CASE tool = "set_comments" ->
            [kind : {"comment"}, addr : Address, comment : Comment \cup {NoComment}]
      [] tool = "rename" ->
            [kind : {"func"}, addr : Address, new : Text \cup {IllTyped}]
              \cup [kind : {"data"}, old : Text \cup {IllTyped}, new : Text \cup {IllTyped}]
              \cup [kind : {"stack"}, addr : Address, old : Text, new : Text]
      [] tool = "patch_asm" ->
            [kind : {"asm"}, addr : Address, insns : Seq(Seq(Byte) \cup {Unparsable})]
      [] tool = "patch" ->
            [kind : {"patch"}, addr : Address, data : Seq(Byte \cup {Unparsable})]
      [] tool = "put_int" ->
            [kind : {"int"}, addr : Address, ty : IntTypeSpec, value : Int \cup {Unparsable}]
      [] tool = "define_func" ->
            [kind : {"define"}, addr : Address, end : Addr \cup {Unparsable}]
      [] tool = "define_code" -> [kind : {"code"}, addr : Address]
      [] tool = "undefine" ->
            [kind : {"undefine"}, addr : Address, end : Addr \cup {NoName, Unparsable}, size : Int]
      [] tool = "declare_stack" ->
            [kind : {"declare"}, addr : Address, name : Text, off : Int,
             type : Type \cup {NoType, Unparsable}]
      [] tool = "delete_stack" -> [kind : {"delete"}, addr : Address, name : Text]
      [] tool = "set_type" ->
            [kind : {"settype"}, addr : Address, type : Type \cup {NoType, Unparsable},
             what : STRING, name : Text]
      [] tool = "declare_type" ->
            [kind : {"decl"}, comma : BOOLEAN, decls : Seq(Type \cup {Unparsable})]

-----------------------------------------------------------------------------
Failed(d) == [ok |-> FALSE, db |-> d]
Done(d) == [ok |-> TRUE, db |-> d]

\* parse_address() succeeds.
Parsed(a) == a \in Addr

\* get_name_ea(): where a name is defined; no address has the empty name.
Holders(d, n) == {a \in Addr : n # NoName /\ d.name[a] = n}

\* patch_bytes(): bytes IDA does not have are passed over without an error.
PatchBytes(mem, ea, bytes) ==
    [a \in Addr |-> IF a \in Mapped /\ a - ea + 1 \in DOMAIN bytes
                    THEN bytes[a - ea + 1] ELSE mem[a]]

SetComment(i, d) ==
    IF ~Parsed(i.addr) \/ i.addr \notin Mapped THEN Failed(d)
    ELSE Done([d EXCEPT !.cmt[i.addr] = i.comment])

\* set_name() with SN_CHECK: the empty name clears.
SetName(d, ea, n) ==
    IF ea \notin Mapped \/ n \in BadName THEN Failed(d)
    ELSE Done([d EXCEPT !.name[ea] = n])

\* Mutant: without the pre-check.
RenameAt_Unchecked(d, ea, n) == SetName(d, ea, n)

\* The pre-check for duplicate names, then set_name().
RenameAt(d, ea, n) ==
    IF Holders(d, n) \ {ea} # {} THEN Failed(d) ELSE SetName(d, ea, n)

RenameFunc(i, d) ==
    IF i.new = IllTyped \/ ~Parsed(i.addr) THEN Failed(d) ELSE RenameAt(d, i.addr, i.new)

RenameData(i, d) ==
    IF i.new = IllTyped \/ Holders(d, i.old) = {} THEN Failed(d)
    ELSE RenameAt(d, CHOOSE a \in Holders(d, i.old) : TRUE, i.new)

\* get_func() and find_udm().
IsFunc(a, d) == Parsed(a) /\ a \in d.funcs
Called(frame, n) == {m \in frame : m.name = n}
Cells(m) == m.off .. m.off + m.size - 1
Free(frame, cells) == cells \subseteq Off /\ \A m \in frame : Cells(m) \cap cells = {}

\* rename_udm() refuses the name of another member of the frame.
RenameStack(i, d) ==
    IF ~IsFunc(i.addr, d) THEN Failed(d)
    ELSE LET frame == d.frame[i.addr]
             old == Called(frame, i.old)
         IN  IF old = {} \/ ~(Called(frame, i.new) \subseteq old)
                \/ i.new \in BadName \cup {NoName}
             THEN Failed(d)
             ELSE Done([d EXCEPT !.frame[i.addr] =
                           (frame \ old) \cup {[m EXCEPT !.name = i.new] : m \in old}])

\* Instructions are assembled and patched one after the other; the first that
\* cannot be assembled ends the item, and what was patched stays.
PatchAsm(i, d) ==
    LET bad == {k \in DOMAIN i.insns : i.insns[k] = Unparsable}
        n == IF bad = {} THEN Len(i.insns) ELSE (CHOOSE k \in bad : \A j \in bad : k <= j) - 1
        bytes == FlattenSeq(SubSeq(i.insns, 1, n))
    IN  IF ~Parsed(i.addr) THEN Failed(d)
        ELSE [ok |-> bad = {}, db |-> [d EXCEPT !.mem = PatchBytes(@, i.addr, bytes)]]

\* Mutant: bytes are patched while the digits are read.
Patch_Incremental(i, d) ==
    LET bad == {k \in DOMAIN i.data : i.data[k] = Unparsable}
        n == IF bad = {} THEN Len(i.data) ELSE (CHOOSE k \in bad : \A j \in bad : k <= j) - 1
    IN  IF ~Parsed(i.addr) THEN Failed(d)
        ELSE [ok |-> bad = {},
              db |-> [d EXCEPT !.mem = PatchBytes(@, i.addr, SubSeq(i.data, 1, n))]]

\* The hex digits are all read before a byte is patched.
Patch(i, d) ==
    IF ~Parsed(i.addr) \/ \E k \in DOMAIN i.data : i.data[k] = Unparsable THEN Failed(d)
    ELSE Done([d EXCEPT !.mem = PatchBytes(@, i.addr, i.data)])

\* std::stoll: a signed integer of the widest type.
Stoll(v) == v \in -(Pow[MaxWidth] \div 2) .. (Pow[MaxWidth] \div 2) - 1

\* Mutant: big-endian bytes are taken from the top of the 64 bits.
uint_to_bytes_FromTop(v, ty) ==
    LET u == v % Pow[MaxWidth]
    IN  [k \in 1 .. ty.width |-> ByteOf(u, IF ty.big THEN MaxWidth - k ELSE k - 1)]

\* Mutant: a byte is not masked.
uint_to_bytes_Unmasked(v, ty) ==
    LET u == v % Pow[MaxWidth]
    IN  [k \in 1 .. ty.width |-> u \div Pow[IF ty.big THEN ty.width - k ELSE k - 1]]

\* The bytes of v in memory order; conversion to uint64_t is modulo its range.
uint_to_bytes(v, ty) ==
    LET u == v % Pow[MaxWidth]
    IN  [k \in 1 .. ty.width |-> ByteOf(u, IF ty.big THEN ty.width - k ELSE k - 1)]

\* The value of bytes, taken from the most significant one on.
bytes_to_uint(bytes, ty) == NumberOf(IF ty.big THEN bytes ELSE Reverse(bytes))

PutInt(i, d) ==
    IF i.ty \notin IntTypeSpec \/ ~Parsed(i.addr) \/ i.value = Unparsable THEN Failed(d)
    ELSE IF ~Stoll(i.value) THEN Failed(d)
    ELSE Done([d EXCEPT !.mem = PatchBytes(@, i.addr, uint_to_bytes(i.value, i.ty))])

\* get_int on mapped bytes.
get_int(mem, ea, ty) ==
    LET uval == bytes_to_uint([k \in 1 .. ty.width |-> mem[ea + k - 1]], ty)
    IN  IF ty.signed /\ uval >= Pow[ty.width] \div 2 THEN uval - Pow[ty.width] ELSE uval

\* A function that starts there already is reported as defined.
DefineFunc(i, d) ==
    IF ~Parsed(i.addr) \/ i.end = Unparsable THEN Failed(d)
    ELSE IF i.addr \notin FuncEntry THEN Failed(d)
    ELSE Done([d EXCEPT !.funcs = @ \cup {i.addr}])

Bytes(it) == it.ea .. it.ea + it.len - 1

\* create_insn() on bytes that decode and belong to no other item.
DefineCode(i, d) ==
    IF ~Parsed(i.addr) THEN Failed(d)
    ELSE LET insn == [ea |-> i.addr, len |-> InsnLen[i.addr]]
         IN  IF insn.len = 0 \/ ~(Bytes(insn) \subseteq Mapped)
                \/ \E it \in d.items \ {insn} : Bytes(it) \cap Bytes(insn) # {}
             THEN Failed(d)
             ELSE Done([d EXCEPT !.items = @ \cup {insn}])

\* The bytes an undefine is asked for: up to end, or size of them, or one.
\* An end before the start makes the unsigned count wrap around.
Wraps(i) == i.end \in Addr /\ i.end < i.addr
Asked(i) ==
    IF Wraps(i) THEN i.addr .. Top
    ELSE IF i.end # NoName THEN i.addr .. i.end - 1
    ELSE IF i.size > 0 THEN i.addr .. i.addr + i.size - 1
    ELSE {i.addr}

\* del_items(DELIT_EXPAND) removes every item it meets as a whole; what it does
\* with a count beyond the address space is its own affair.  The handler
\* reports success whatever it returns.
Undefine(i, d) ==
    IF ~Parsed(i.addr) \/ i.end = Unparsable THEN {Failed(d)}
    ELSE LET gone == {it \in d.items : Bytes(it) \cap Asked(i) # {}}
         IN  {Done([d EXCEPT !.items = @ \ gone])} \cup (IF Wraps(i) THEN {Done(d)} ELSE {})

\* define_stkvar() at the place it takes the item's offset for: it gives the
\* variable there a new name and type, or makes one where there is room.
DeclareStack(i, d) ==
    IF ~IsFunc(i.addr, d) \/ i.type = Unparsable THEN Failed(d)
    ELSE IF i.type = NoType \/ i.name \notin Name \ BadName THEN Failed(d)
    ELSE LET var == [name |-> i.name, off |-> i.off, size |-> TypeSize[i.type],
                     type |-> i.type]
             others == {m \in d.frame[i.addr] : m.off # i.off}
         IN  IF i.off \in Special \/ Called(others, i.name) # {} \/ ~Free(others, Cells(var))
             THEN Failed(d)
             ELSE Done([d EXCEPT !.frame[i.addr] = others \cup {var}])

\* delete_frame_members() removes what lies between two offsets.
DeleteMembers(frame, lo, hi) == {m \in frame : Cells(m) \cap (lo .. hi - 1) = {}}

\* Mutant: the size is passed in bits.
DeleteStack_Bits(i, d) ==
    IF ~IsFunc(i.addr, d) THEN Failed(d)
    ELSE LET frame == d.frame[i.addr]
         IN  IF Called(frame, i.name) = {} THEN Failed(d)
             ELSE LET m == CHOOSE m \in Called(frame, i.name) : TRUE
                  IN  IF m.off \in Special \/ m.off >= ArgFrom THEN Failed(d)
                      ELSE Done([d EXCEPT !.frame[i.addr] =
                                    DeleteMembers(frame, m.off, m.off + 8 * m.size)])

\* The return address, saved registers and arguments are refused.
DeleteStack(i, d) ==
    IF ~IsFunc(i.addr, d) THEN Failed(d)
    ELSE LET frame == d.frame[i.addr]
         IN  IF Called(frame, i.name) = {} THEN Failed(d)
             ELSE LET m == CHOOSE m \in Called(frame, i.name) : TRUE
                  IN  IF m.off \in Special \/ m.off >= ArgFrom THEN Failed(d)
                      ELSE Done([d EXCEPT !.frame[i.addr] =
                                    DeleteMembers(frame, m.off, m.off + m.size)])

\* The kind is found from the type and the name when it is not given; a
\* function type wins over a name.
KindOf(i) ==
    IF i.what # "" THEN i.what
    ELSE IF i.type \in FuncType THEN "function"
    ELSE IF i.name # NoName THEN "stack" ELSE "global"

\* apply_tinfo().
ApplyType(i, d) ==
    IF i.addr \notin Mapped \/ (i.type \in FuncType /\ i.addr \notin d.funcs) THEN Failed(d)
    ELSE Done([d EXCEPT !.type[i.addr] = i.type])

\* set_frame_member_type(), which finds no room for a type that is too large.
TypeStackVariable(i, d) ==
    IF ~IsFunc(i.addr, d) THEN Failed(d)
    ELSE LET frame == d.frame[i.addr]
         IN  IF Called(frame, i.name) = {} THEN Failed(d)
             ELSE LET old == CHOOSE m \in Called(frame, i.name) : TRUE
                      var == [old EXCEPT !.size = TypeSize[i.type], !.type = i.type]
                  IN  IF ~Free(frame \ {old}, Cells(var)) THEN Failed(d)
                      ELSE Done([d EXCEPT !.frame[i.addr] = (frame \ {old}) \cup {var}])

SetType(i, d) ==
    IF i.type \notin Type \/ ~Parsed(i.addr) THEN Failed(d)
    ELSE CASE KindOf(i) \in {"function", "global"} -> ApplyType(i, d)
           [] KindOf(i) = "stack" -> TypeStackVariable(i, d)
           [] OTHER -> Failed(d)

\* parse_decls() reads on after an error: what it could parse stays declared.
DeclareType(i, d) ==
    LET good == Range(i.decls) \ {Unparsable}
    IN  [ok |-> Unparsable \notin Range(i.decls), db |-> [d EXCEPT !.types = @ \cup good]]

Handle(i, d) ==
    CASE i.kind = "comment" -> SetComment(i, d)
      [] i.kind = "func"    -> RenameFunc(i, d)
      [] i.kind = "data"    -> RenameData(i, d)
      [] i.kind = "stack"   -> RenameStack(i, d)
      [] i.kind = "asm"     -> PatchAsm(i, d)
      [] i.kind = "patch"   -> Patch(i, d)
      [] i.kind = "int"     -> PutInt(i, d)
      [] i.kind = "define"  -> DefineFunc(i, d)
      [] i.kind = "code"    -> DefineCode(i, d)
      [] i.kind = "declare" -> DeclareStack(i, d)
      [] i.kind = "delete"  -> DeleteStack(i, d)
      [] i.kind = "settype" -> SetType(i, d)
      [] i.kind = "decl"    -> DeclareType(i, d)

IsObject(i) == i # NotObject

\* What an item may lead to; set_type alone survives what is no object.
Outcomes(i, d) ==
    IF ~IsObject(i) THEN {Failed(d)}
    ELSE IF i.kind = "undefine" THEN Undefine(i, d)
    ELSE {Handle(i, d)}
=============================================================================
