----------------------------- MODULE MCEditBatch -----------------------------
(* Model-checking instance of EditBatch: the batches of every tool.          *)
EXTENDS EditBatch, TLC

CONSTANTS a, b, c, illegal, c1, c2, int, wide, proto

\* One byte decodes alone, two bytes decode at 1.
InsnLens == (0 :> 1 @@ 1 :> 2 @@ 2 :> 0 @@ 3 :> 1)
TypeSizes == (int :> 1 @@ wide :> 2 @@ proto :> 1)

\* A local variable, one of two bytes next to it, room, the return address, an
\* argument.
Frame == {[name |-> a, off |-> 0, size |-> 1, type |-> int],
          [name |-> b, off |-> 1, size |-> 2, type |-> NoType],
          [name |-> c, off |-> 5, size |-> 1, type |-> int]}
Return == [name |-> illegal, off |-> 4, size |-> 1, type |-> NoType]

\* One or two functions, the second named or not.
Blank == [mem |-> [x \in Addr |-> 0],
          name |-> [x \in Addr |-> IF x = 0 THEN a ELSE NoName],
          cmt |-> [x \in Addr |-> NoComment],
          type |-> [x \in Addr |-> NoType],
          frame |-> [g \in FuncEntry |-> Frame \cup {Return}],
          funcs |-> {0}, items |-> {[ea |-> 1, len |-> 2]}, types |-> {int}]
Starts == {Blank, [Blank EXCEPT !.name[1] = b, !.name[2] = c, !.funcs = {0, 1},
                                !.items = {[ea |-> 0, len |-> 1]}]}

SomeAddr == {0, 1, Top, Unparsable}

CommentItem == [kind : {"comment"}, addr : {0, Top, Unparsable, IllTyped}, comment : {c1, c2}]
FuncItem == [kind : {"func"}, addr : {0, 1, IllTyped}, new : {a, b, NoName}]
              \cup [kind : {"func"}, addr : {Top}, new : {c}]
              \cup [kind : {"func"}, addr : {1}, new : {illegal, IllTyped}]
DataItem == [kind : {"data"}, old : {a, b, c}, new : {a, b, c}]
              \cup [kind : {"data"}, old : {IllTyped}, new : {a}]
StackItem == [kind : {"stack"}, addr : {0, 1}, old : {a, b, c}, new : {a, b}]
DeclareItem == [kind : {"declare"}, addr : {0}, name : {a, b}, off : {0, 1, 3, 4},
                type : {int, wide, Unparsable}]
                 \cup [kind : {"declare"}, addr : {1, IllTyped}, name : {illegal},
                       off : {3}, type : {NoType}]
DeleteItem == [kind : {"delete"}, addr : {0}, name : {a, b, c, illegal, NoName}]
                 \cup [kind : {"delete"}, addr : {1, Unparsable, IllTyped}, name : {a}]
TypeItem == [kind : {"settype"}, addr : {0, 2}, type : {int, wide, proto},
             what : {"", "stack", "global"}, name : {NoName, b}]
              \cup [kind : {"settype"}, addr : {1, Unparsable, IllTyped}, type : {int, Unparsable},
                    what : {"", "local"}, name : {NoName, a}]
DeclItem == [kind : {"decl"}, comma : BOOLEAN,
             decls : {<<int>>, <<wide, Unparsable>>, <<wide, proto>>}]
CodeItem == [kind : {"code"}, addr : Addr \cup {Unparsable, IllTyped}]
UndefineItem == [kind : {"undefine"}, addr : {0, 2, Unparsable, IllTyped},
                 end : {NoName, Unparsable, 0, 1, 2}, size : {-1, 0, 2}]
AsmItem == [kind : {"asm"}, addr : SomeAddr,
            insns : {<<<<1>>, <<2, 3>>>>, <<<<3>>, Unparsable, <<1>>>>}]
PatchItem == [kind : {"patch"}, addr : SomeAddr, data : {<<1, 2>>, <<3, Unparsable>>}]
IntItem == [kind : {"int"}, addr : {0, 1},
            ty : [width : 1 .. MaxWidth, signed : BOOLEAN, big : BOOLEAN],
            value : {-9, -8, -3, 0, 2, 5, 7, 8}]
DefineItem == [kind : {"define"}, addr : {0, 1, Top, Unparsable, IllTyped}, end : {0, Unparsable}]

Of(tool, text, items) == {[tool |-> tool, text |-> text, items |-> s] : s \in items}
Upto2(S) == {<<>>} \cup {<<x>> : x \in S} \cup {<<x, y>> : x, y \in S}

\* Renames as chains and swaps of three, and across the sections.
RenameBatches ==
    Of("rename", FALSE,
       {<<x, y>> : x \in FuncItem, y \in FuncItem \cup DataItem}
         \cup {<<x, y, z>> : x, y, z \in DataItem \ {i \in DataItem : i.old = IllTyped}}
         \cup {<<x, y>> : x, y \in StackItem})

Batches ==
    RenameBatches
      \cup Of("set_comments", FALSE, Upto2(CommentItem \cup {NotObject}))
      \cup Of("patch_asm", FALSE, Upto2(AsmItem))
      \cup Of("patch", FALSE, Upto2(PatchItem \cup {NotObject}))
      \cup Of("patch", TRUE, Upto2(PatchItem \cup {NotObject}))
      \cup Of("put_int", FALSE, Upto2({i \in IntItem : i.addr = 1}) \cup {<<i>> : i \in IntItem})
      \cup Of("define_func", FALSE, Upto2(DefineItem))
      \cup Of("define_code", FALSE, Upto2(CodeItem))
      \cup Of("undefine", FALSE, Upto2(UndefineItem))
      \cup Of("declare_stack", FALSE, Upto2(DeclareItem))
      \cup Of("delete_stack", FALSE, Upto2(DeleteItem))
      \cup Of("set_type", FALSE, Upto2(TypeItem))
      \cup Of("set_type", TRUE, {<<NotObject>>, <<NotObject, NotObject>>})
      \cup Of("declare_type", FALSE, Upto2(DeclItem))
      \cup Of("declare_type", TRUE, Upto2(DeclItem))
=============================================================================
