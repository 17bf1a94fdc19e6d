------------------------------ MODULE EditBatch ------------------------------
(***************************************************************************)
(* A call of one of the tools that change the IDA database (EditHandlers). *)
(* A call runs on the main thread from its first item to its last, but an  *)
(* item can fail, and an item whose address is not a JSON string throws    *)
(* out of the tool: the client then gets an error instead of the results,  *)
(* and does not learn which items took effect.                             *)
(***************************************************************************)
EXTENDS EditHandlers

CONSTANTS
    Start,      \* the databases calls find
    Batch       \* the batches clients send

VARIABLES
    db,       \* the database: bytes, names, comments, types, items, frames
    batch,    \* the batch being answered
    todo,     \* its items not yet handled
    results,  \* the ok flags of those handled
    phase,    \* "idle", "run", "answered" or "failed"
    base      \* history: db when the batch was sent

vars == <<db, batch, todo, results, phase, base>>

TypeOK ==
    /\ db \in Database
    /\ phase \in {"idle", "run", "answered", "failed"}
    /\ results \in Seq(BOOLEAN)
    /\ todo # <<>> => phase \in {"run", "failed"}

Init ==
    /\ db \in Start
    /\ batch = [tool |-> "none", text |-> FALSE, items |-> <<>>]
    /\ todo = <<>>
    /\ results = <<>>
    /\ phase = "idle"
    /\ base = db

-----------------------------------------------------------------------------
\* An item without an address: its empty string does not parse.
EmptyObject(tool) ==
    CASE tool = "patch_asm"     -> [kind |-> "asm", addr |-> Unparsable, insns |-> <<>>]
      [] tool = "patch"         -> [kind |-> "patch", addr |-> Unparsable, data |-> <<>>]
      [] tool = "put_int"       -> [kind |-> "int", addr |-> Unparsable,
                                    ty |-> [width |-> 1, signed |-> FALSE, big |-> FALSE],
                                    value |-> Unparsable]
      [] tool = "define_func"   -> [kind |-> "define", addr |-> Unparsable, end |-> Unparsable]
      [] tool = "define_code"   -> [kind |-> "code", addr |-> Unparsable]
      [] tool = "undefine"      -> [kind |-> "undefine", addr |-> Unparsable, end |-> NoName,
                                    size |-> 0]
      [] tool = "declare_stack" -> [kind |-> "declare", addr |-> Unparsable, name |-> NoName,
                                    off |-> 0, type |-> NoType]
      [] tool = "delete_stack"  -> [kind |-> "delete", addr |-> Unparsable, name |-> NoName]
      [] tool = "set_type"      -> [kind |-> "settype", addr |-> Unparsable, type |-> NoType,
                                    what |-> "", name |-> NoName]

\* normalize_dict_list: elements of an array that are not objects are dropped,
\* an array nested in a JSON string is taken as it is, and nothing becomes one
\* empty object.
normalize_dict_list(b) ==
    LET kept == IF b.text THEN b.items ELSE SelectSeq(b.items, IsObject)
    IN  IF kept = <<>> /\ ~b.text THEN <<EmptyObject(b.tool)>> ELSE kept

\* rename walks functions, then data, then stack variables, wherever they are
\* in the request.
InSection(section, items) == SelectSeq(items, LAMBDA i : i.kind = section)
Sections(items) ==
    InSection("func", items) \o InSection("data", items) \o InSection("stack", items)

\* A text is split at its commas, those inside a declaration included.
AtCommas(i) == IF i.comma THEN <<[i EXCEPT !.decls = <<Unparsable>>],
                                 [i EXCEPT !.decls = <<Unparsable>>]>>
               ELSE <<i>>
normalize_list_input(b) ==
    IF b.text THEN FlattenSeq([k \in DOMAIN b.items |-> AtCommas(b.items[k])]) ELSE b.items

\* The items a tool walks.
Walked(b) ==
    CASE b.tool = "set_comments" -> b.items
      [] b.tool = "rename"       -> Sections(b.items)
      [] b.tool = "declare_type" -> normalize_list_input(b)
      [] OTHER                   -> normalize_dict_list(b)

\* No two addresses of a database and no two variables of a frame share a name,
\* and no two variables share a byte.
NamesUnique(d) ==
    /\ \A n \in Name : Cardinality(Holders(d, n)) <= 1
    /\ \A f \in FuncEntry : \A m1, m2 \in d.frame[f] :
          m1 # m2 => m1.name # m2.name /\ Cells(m1) \cap Cells(m2) = {}

\* The databases IDA keeps, and what is left of a batch when its tool walks it.
ASSUME BatchAssumption ==
    /\ Start \subseteq Database /\ \A d \in Start : NamesUnique(d)
    /\ \A b \in Batch : /\ b.tool \in EditTool
                        /\ Walked(b) \in Seq(ItemOf(b.tool) \cup {NotObject})

\* item.value("addr", "") throws outside every handler of the item; set_type
\* alone reads its members inside.
Throws(i) ==
    /\ batch.tool \notin {"set_type", "declare_type"}
    /\ IsObject(i) => IllTyped = (IF i.kind = "data" THEN i.old ELSE i.addr)

\* A client's call reaches its tool.
Submit ==
    /\ phase = "idle"
    /\ batch' \in Batch
    /\ todo' = Walked(batch')
    /\ phase' = "run"
    /\ UNCHANGED <<db, results, base>>

\* One turn of the loop over the items.
Item ==
    /\ phase = "run"
    /\ todo # <<>>
    /\ ~Throws(Head(todo))
    /\ \E r \in Outcomes(Head(todo), db) :
          db' = r.db /\ results' = Append(results, r.ok)
    /\ todo' = Tail(todo)
    /\ UNCHANGED <<batch, phase, base>>

\* The exception leaves the tool; the results of the items before it are lost.
Abort ==
    /\ phase = "run"
    /\ todo # <<>>
    /\ Throws(Head(todo))
    /\ phase' = "failed"
    /\ results' = <<>>
    /\ UNCHANGED <<db, batch, todo, base>>

Answer ==
    /\ phase = "run"
    /\ todo = <<>>
    /\ phase' = "answered"
    /\ UNCHANGED <<db, batch, todo, results, base>>

Next == Submit \/ Item \/ Abort \/ Answer

Spec == Init /\ [][Next]_vars

-----------------------------------------------------------------------------
\* The addresses an item writes bytes to, when all of it takes effect.
Span(i) ==
    CASE i.kind = "asm"   -> i.addr .. i.addr + Len(FlattenSeq(i.insns)) - 1
      [] i.kind = "patch" -> i.addr .. i.addr + Len(i.data) - 1
      [] i.kind = "int"   -> i.addr .. i.addr + i.ty.width - 1
      [] OTHER            -> {}

\* Items of the answered batch that the answer reports as done.
DoneItems == {Walked(batch)[k] : k \in {j \in DOMAIN results : results[j]}}

\* Some item reported as done is of one of the kinds and fits.
Accounted(kinds, Fits(_)) == \E i \in DoneItems : i.kind \in kinds /\ Fits(i)

BytesAccounted ==
    \A a \in Addr : db.mem[a] # base.mem[a] =>
        Accounted({"asm", "patch", "int"}, LAMBDA i : a \in Span(i))

\* Comments, names and types of addresses, functions, and variables of frames.
AttributesAccounted ==
    /\ \A a \in Addr :
          /\ db.cmt[a] # base.cmt[a] =>
                Accounted({"comment"}, LAMBDA i : i.addr = a /\ i.comment = db.cmt[a])
          /\ db.name[a] # base.name[a] =>
                Accounted({"func", "data"}, LAMBDA i : i.new = db.name[a])
          /\ db.type[a] # base.type[a] =>
                Accounted({"settype"}, LAMBDA i :
                    i.addr = a /\ i.type = db.type[a] /\ KindOf(i) # "stack")
    /\ \A f \in db.funcs \ base.funcs : Accounted({"define"}, LAMBDA i : i.addr = f)
    /\ \A f \in FuncEntry : \A m \in db.frame[f] \ base.frame[f] :
          \/ Accounted({"stack"}, LAMBDA i : i.addr = f /\ i.new = m.name)
          \/ Accounted({"declare"}, LAMBDA i :
                i.addr = f /\ i.off = m.off /\ i.name = m.name /\ i.type = m.type)
          \/ Accounted({"settype"}, LAMBDA i :
                i.addr = f /\ i.name = m.name /\ i.type = m.type /\ KindOf(i) = "stack")

\* Items and types: what is gone was met by a range that was asked for, what
\* is new was asked for.
ItemsAccounted ==
    /\ \A it \in db.items \ base.items :
          Accounted({"code"}, LAMBDA i : i.addr = it.ea /\ it.len = InsnLen[it.ea])
    /\ \A it \in base.items \ db.items :
          Accounted({"undefine"}, LAMBDA i : Asked(i) \cap Bytes(it) # {})
    /\ \A i \in DoneItems : i.kind = "decl" => Range(i.decls) \subseteq db.types

\* The results cover every item, and the client can account for every change
\* by an item reported as done: an item reported as failed has changed nothing,
\* although it may have failed late.  patch_asm promises less: its failed items
\* may have patched their first instructions; so does declare_type, whose
\* failed declarations may have declared some of their types.
AnswerAccountsForChanges ==
    phase = "answered" =>
        /\ Len(results) = Len(Walked(batch))
        /\ batch.tool # "patch_asm" => BytesAccounted
        /\ AttributesAccounted
        /\ ItemsAccounted

\* However renames and declarations of a batch swap, chain or repeat names, no
\* two addresses and no two variables of a frame end up with one name, and no
\* two variables share a byte: every new name is looked up when its item is
\* handled, after the items before it.
NamesStayUnique == NamesUnique(db)

\* The value of the type that v is taken modulo its range to.
Wrapped(v, ty) ==
    LET half == Pow[ty.width] \div 2
        range == IF ty.signed THEN -half .. half - 1 ELSE 0 .. 2 * half - 1
    IN  CHOOSE x \in range : (x - v) % (2 * half) = 0

\* What put_int has written get_int reads back with the same type, in every
\* width, sign and byte order, and the bytes around it are as they were.
PutIntReadsBack ==
    [][LET i == Head(todo)
       IN  (phase = "run" /\ todo # <<>> /\ Len(results') > Len(results)
            /\ i # NotObject /\ i.kind = "int" /\ Last(results') /\ Span(i) \subseteq Mapped) =>
               /\ get_int(db'.mem, i.addr, i.ty) = Wrapped(i.value, i.ty)
               /\ \A a \in Addr \ Span(i) : db'.mem[a] = db.mem[a]]_vars

\* A variable leaves its frame only when a delete_stack item names it, and
\* none leaves with it: the place and size of the variable are looked up by its
\* name and then passed on as a range of bytes.  The return address, the saved
\* registers and the arguments stay whatever is sent.
OnlyTheNamedIsDeleted ==
    [][\A f \in FuncEntry :
           LET gone == {m \in db.frame[f] : \A n \in db'.frame[f] : n.off # m.off}
           IN  gone # {} =>
                   /\ Head(todo).kind = "delete" /\ Head(todo).addr = f
                   /\ \A m \in gone : /\ m.name = Head(todo).name
                                      /\ m.off \notin Special /\ m.off < ArgFrom
                   /\ Cardinality(gone) = 1]_vars

(***************************************************************************)
(* types.cpp:397 "Parse C type declarations and add them to the type       *)
(* library": declarations that all parse are all declared, as a list or as *)
(* one string.                                                             *)
(***************************************************************************)
ValidDeclarationsSucceed ==
    phase = "answered" /\ batch.tool = "declare_type"
    /\ (\A k \in DOMAIN batch.items : Unparsable \notin Range(batch.items[k].decls)) =>
        \A k \in DOMAIN results : results[k]
=============================================================================
