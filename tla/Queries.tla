------------------------------- MODULE Queries -------------------------------
(***************************************************************************)
(* The tools and resources that list what the database holds and those     *)
(* that answer about one thing by its name (core.cpp, types.cpp,           *)
(* memory.cpp, resources.cpp): a client lists, picks a name it was told    *)
(* and asks about it, or asks with a text of its own; int_convert and the  *)
(* shortening of large results beside them.                                *)
(*                                                                         *)
(* Everything listed has an address or ordinal "at" and a name.  What a    *)
(* page leaves out is read on by Paging; a list of queries is a call per   *)
(* query here.                                                             *)
(***************************************************************************)
EXTENDS TextTools, TLC

CONSTANTS
    Database,   \* databases under study
    Filter,     \* patterns a client filters with
    PageCount,  \* counts it asks for, 0 for all
    Query,      \* texts it asks with, besides the names it was told
    AllCap,     \* functions that lookup_funcs answers "*" with, 1000 in the code
    Number,     \* texts with a number
    ByteCount,  \* sizes it asks for
    Result,     \* what a tool may return
    MaxChars    \* OUTPUT_LIMIT_MAX_CHARS

BADADDR == -1

\* Texts are sequences of characters.  Functions do not overlap and bear the names
\* of their addresses (default names included); names are unique, and hold neither
\* a star nor a digit at the beginning, as IDA demands of them.
ASSUME DatabaseAssumption ==
    \A b \in Database :
        /\ b.funcs \in Seq([at : Nat, end : Nat, name : Seq(STRING)])
        /\ b.names \in Seq([at : Nat, name : Seq(STRING)])
        /\ b.imports \in Seq(Seq([at : Nat, name : Seq(STRING), ordinal : Nat]))
        /\ b.entries \in Seq([at : Nat, name : Seq(STRING)])
        /\ b.types \in Seq([at : Nat, name : Seq(STRING), udt : BOOLEAN])
        /\ \A f \in Range(b.funcs) :
              /\ f.at < f.end
              /\ \E n \in Range(b.names) : n.at = f.at /\ n.name = f.name
              /\ \A g \in Range(b.funcs) \ {f} : f.end <= g.at \/ g.end <= f.at
        /\ \A m, n \in Range(b.names) : m.name = n.name => m = n
        /\ \A n \in Range(b.names) : /\ n.name # <<>> /\ n.name[1] # "0"
                                     /\ "*" \notin Range(n.name)

ASSUME FilterAssumption == Filter \subseteq Seq(STRING) /\ PageCount \subseteq Nat

VARIABLES
    base,     \* the database, which none of these calls changes
    listing,  \* the last listing: [tool, filter, count, page]
    answer    \* the last answer: [tool, about, found] and what the tool adds

vars == <<base, listing, answer>>

None == [tool |-> "none", page |-> <<>>]

Init ==
    /\ base \in Database
    /\ listing = None
    /\ answer = None

-----------------------------------------------------------------------------
(* Listings                                                                 *)

paginate(data, count) ==
    SubSeq(data, 1, IF count = 0 \/ count > Len(data) THEN Len(data) ELSE count)

List(tool, filter, count, page) ==
    /\ listing = None /\ answer = None
    /\ listing' = [tool |-> tool, filter |-> filter, count |-> count, page |-> page]
    /\ UNCHANGED <<base, answer>>

\* "*" is all, as nothing is.
Effective(filter) == IF filter = <<"*">> THEN <<>> ELSE filter

\* get_func
FunctionAt(ea) == SelectInSeq(base.funcs, LAMBDA f : ea \in f.at .. f.end - 1)

ListFuncs(filter, count) ==
    List("list_funcs", filter, count,
         paginate(pattern_filter(base.funcs, Effective(filter)), count))

\* The names that do not lie in a function.
Globals ==
    Selected(base.names, {i \in DOMAIN base.names : FunctionAt(base.names[i].at) = 0})

ListGlobals(filter, count) ==
    List("list_globals", filter, count,
         paginate(pattern_filter(Globals, Effective(filter)), count))

\* An import without a name goes by its ordinal.
ImportName(import) ==
    IF import.name = <<>> THEN <<"#", ToString(import.ordinal)>> ELSE import.name

\* All modules' imports, in order.
AllImports ==
    [i \in DOMAIN FlattenSeq(base.imports) |->
        [at |-> FlattenSeq(base.imports)[i].at,
         name |-> ImportName(FlattenSeq(base.imports)[i])]]

Imports(count) == List("imports", <<>>, count, paginate(AllImports, count))

Structs == Selected(base.types, {i \in DOMAIN base.types : base.types[i].udt})

\* search_structs knows substrings only; ida://structs has no filter.
SearchStructs(filter) ==
    List("search_structs", filter, 0,
         Selected(Structs, {i \in DOMAIN Structs :
                               HasPart(to_lower(Structs[i].name), to_lower(filter))}))

Entrypoints == List("entrypoints", <<>>, 0, base.entries)

-----------------------------------------------------------------------------
(* Answers by name                                                          *)

Reply(tool, about, found) ==
    /\ answer = None
    /\ answer' = [tool |-> tool, about |-> about, found |-> found]
    /\ UNCHANGED <<base, listing>>

\* What a client asks about: a name it was told, or anything.
Asked == IF listing = None THEN Query ELSE {e.name : e \in Range(listing.page)}

HexNumber(digits) == FoldLeft(LAMBDA n, c : 16 * n + HexValue[c], 0, digits)

\* stoull reads the digits a text begins with.
HexPrefix(text) ==
    SubSeq(text, 1, CHOOSE n \in 0 .. Len(text) :
                        /\ \A i \in 1 .. n : text[i] \in DOMAIN HexValue
                        /\ n < Len(text) => text[n + 1] \notin DOMAIN HexValue)

\* "0x" and nothing but digits.
HexAddress(q) ==
    LET digits == SubSeq(q, 3, Len(q))
    IN  IF Len(q) > 2 /\ SubSeq(q, 1, 2) = <<"0", "x">> /\ HexPrefix(digits) = digits
        THEN HexNumber(digits) ELSE BADADDR

\* "sub_" and whatever number comes next.
SubAddress(q) ==
    IF Len(q) > 4 /\ SubSeq(q, 1, 4) = <<"s", "u", "b", "_">>
       /\ HexPrefix(SubSeq(q, 5, Len(q))) # <<>>
    THEN HexNumber(HexPrefix(SubSeq(q, 5, Len(q)))) ELSE BADADDR

\* get_name_ea
NameAddress(q) ==
    LET i == SelectInSeq(base.names, LAMBDA n : n.name = q)
    IN  IF i = 0 THEN BADADDR ELSE base.names[i].at

\* The first of some addresses that is one.
FirstOf(eas) ==
    LET i == SelectInSeq(eas, LAMBDA ea : ea # BADADDR)
    IN  IF i = 0 THEN BADADDR ELSE eas[i]

\* Mutant: only addresses are looked up.
LookupAddress_NoName(q) == FirstOf(<<HexAddress(q), SubAddress(q)>>)

LookupAddress(q) == FirstOf(<<HexAddress(q), SubAddress(q), NameAddress(q)>>)

LookupFuncs(q) ==
    LET i == FunctionAt(LookupAddress(q))
    IN  Reply("lookup_funcs", q,
              IF q \in {<<>>, <<"*">>}
              THEN [k \in DOMAIN paginate(base.funcs, AllCap) |-> base.funcs[k].at]
              ELSE IF i = 0 THEN <<>> ELSE <<base.funcs[i].at>>)

\* A number without "0x", octal when it begins with a zero.
PlainAddress(q) ==
    LET radix == IF Head(q) = "0" THEN 8 ELSE 10
    IN  IF q # <<>> /\ \A i \in DOMAIN q : q[i] \in DOMAIN HexValue /\ HexValue[q[i]] < radix
        THEN FoldLeft(LAMBDA n, c : radix * n + HexValue[c], 0, q) ELSE BADADDR

\* A name goes before a plain number; what is there is read (external).
GetGlobalValue(q) ==
    LET ea == FirstOf(<<HexAddress(q), NameAddress(q), PlainAddress(q)>>)
    IN  Reply("get_global_value", q, IF ea = BADADDR THEN <<>> ELSE <<ea>>)

\* A path parameter of a resource is anything but a slash, and not empty.
IsParameter(text) == text # <<>> /\ "/" \notin Range(text)

\* The first of a sequence that has the name the URI ends in.
ByName(resource, entries, text) ==
    LET i == SelectInSeq(entries, LAMBDA e : e.name = text)
    IN  Reply(resource, text, IF IsParameter(text) /\ i # 0 THEN <<entries[i].at>> ELSE <<>>)

ImportByName(text) == ByName("import", AllImports, text)

ExportByName(text) == ByName("export", base.entries, text)

\* ida://struct/{name}: the named type, when it is a struct or union.
StructByName(text) == ByName("struct", Structs, text)

\* read_struct with a name, an address or both; without a name it is the struct
\* at the address, or the one that a pointer there points to.  The values of the
\* members are read from the address itself.
StructAt(ea) ==
    IF ea \in DOMAIN base.typed /\ base.types[base.typed[ea].type].udt
    THEN base.types[base.typed[ea].type].name ELSE <<>>

ReadStruct(ea, name) ==
    LET struct == IF name = <<>> /\ ea # BADADDR THEN StructAt(ea) ELSE name
        i == SelectInSeq(Structs, LAMBDA t : struct # <<>> /\ t.name = struct)
    IN  /\ answer = None
        /\ answer' = [tool |-> "read_struct", about |-> name,
                      found |-> IF i = 0 THEN <<>> ELSE <<Structs[i].at>>,
                      given |-> ea, read |-> IF i = 0 THEN BADADDR ELSE ea]
        /\ UNCHANGED <<base, listing>>

-----------------------------------------------------------------------------
(* Conversions and large results                                            *)

Convert(text, size) ==
    /\ answer = None /\ listing = None
    /\ answer' = [tool |-> "int_convert", about |-> text, size |-> size,
                  result |-> IntConvert(text, size)]
    /\ UNCHANGED <<base, listing>>

\* A result that is not an object is wrapped in one.
Structured(result) ==
    IF result.t = "obj" THEN result
    ELSE [t |-> "obj", members |-> ("result" :> result)]

\* What a tool returns is of the values under study, as are numbers and sizes of
\* int_convert.
ASSUME CallAssumption ==
    /\ {Structured(r) : r \in Result} \subseteq Value
    /\ Number \subseteq [hex : BOOLEAN, num : Int, rest : BOOLEAN]
    /\ ByteCount \subseteq Int
    /\ MaxChars \in Nat

\* tools/call: a large result is cached (ToolOutput) and shortened, marked with
\* what it takes in all; the text of the reply holds all of it either way.
CallTool(result) ==
    LET whole == Structured(result)
    IN  /\ answer = None /\ listing = None
        /\ answer' = [tool |-> "tools/call", about |-> result, text |-> Size[result],
                      total |-> IF Size[whole] > MaxChars THEN Size[whole] ELSE 0,
                      content |-> IF Size[whole] > MaxChars
                                  THEN truncate_value(whole, 0) ELSE whole]
        /\ UNCHANGED <<base, listing>>

Next ==
    \/ \E f \in Filter, n \in PageCount : ListFuncs(f, n) \/ ListGlobals(f, n)
    \/ \E n \in PageCount : Imports(n)
    \/ \E f \in Filter : SearchStructs(f)
    \/ Entrypoints
    \/ \E q \in Asked : \/ LookupFuncs(q) \/ GetGlobalValue(q)
                        \/ ImportByName(q) \/ ExportByName(q) \/ StructByName(q)
                        \/ \E ea \in DOMAIN base.typed \cup {BADADDR} : ReadStruct(ea, q)
    \/ \E text \in Number, size \in ByteCount : Convert(text, size)
    \/ \E result \in Result : CallTool(result)

Spec == Init /\ [][Next]_vars

-----------------------------------------------------------------------------

\* Whether a text is the pattern with every star replaced by some text and every
\* question mark by a character: cut[i] characters match the first i of the pattern.
MatchesGlob(pattern, text) ==
    \E cut \in [0 .. Len(pattern) -> 0 .. Len(text)] :
        /\ cut[0] = 0 /\ cut[Len(pattern)] = Len(text)
        /\ \A i \in DOMAIN pattern :
              IF pattern[i] = "*" THEN cut[i] >= cut[i - 1]
              ELSE /\ cut[i] = cut[i - 1] + 1
                   /\ pattern[i] \in {"?", text[cut[i]]}

\* What a filter is said to keep.
Wanted(filter, name) ==
    IF InSlashes(filter) /\ ValidRegex(RegexBody(filter))
    THEN \/ HasPart(name, RegexBody(filter))
         \/ /\ RegexFlags(filter) = <<>> \/ "i" \in Range(RegexFlags(filter))
            /\ HasPart(to_lower(name), to_lower(RegexBody(filter)))
    ELSE IF Range(filter) \cap {"*", "?"} # {}
    THEN MatchesGlob(to_lower(filter), to_lower(name))
    ELSE HasPart(to_lower(name), to_lower(filter))

(***************************************************************************)
(* utils.h:60: filters are a regex between slashes, a glob or a substring, *)
(* whatever the case.  The loop of glob_match that goes back to the last   *)
(* star finds a match whenever there is one: a listing holds exactly the   *)
(* wanted names, in order, up to the count asked for.                      *)
(***************************************************************************)
FilterIsExact ==
    listing.tool \in {"list_funcs", "list_globals"} =>
        LET all == IF listing.tool = "list_funcs" THEN base.funcs ELSE Globals
            wanted == Selected(all, {i \in DOMAIN all : Wanted(listing.filter, all[i].name)})
        IN  /\ IsPrefix(listing.page, wanted)
            /\ \/ listing.page = wanted
               \/ Len(listing.page) = listing.count

\* The call that answers about an entry of a listing.
Follows == [list_funcs |-> {"lookup_funcs"}, list_globals |-> {"get_global_value"},
            imports |-> {"import"}, entrypoints |-> {"export"},
            search_structs |-> {"struct", "read_struct"}, none |-> {}]

\* A function whose name lookup_funcs takes for another address.
Misread(e) == SubAddress(e.name) \notin {BADADDR, e.at}

\* An entry whose name fits into the call.
Nameable(e) ==
    CASE answer.tool = "lookup_funcs" -> ~Misread(e)
      [] answer.tool \in {"import", "export", "struct"} -> IsParameter(e.name)
      [] answer.tool = "read_struct" -> e.name # <<>>
      [] OTHER -> TRUE

(***************************************************************************)
(* What a listing names can be asked about by that name: lookup_funcs,     *)
(* get_global_value, the import, export and struct resources and           *)
(* read_struct each answer about a listed entry of the name.  Left out are *)
(* the names that do not fit into the call (see ListedIsAlwaysFound).      *)
(***************************************************************************)
ListedIsFound ==
    \A e \in Range(listing.page) :
        answer.tool \in Follows[listing.tool] /\ answer.about = e.name /\ Nameable(e) =>
            \E f \in Range(listing.page) : f.name = e.name /\ answer.found = <<f.at>>

(***************************************************************************)
(* int_convert prints the number and its bytes (core.cpp:84 "Convert to    *)
(* bytes (little-endian, signed)"): the bytes are those of the number, as  *)
(* many as asked for, and without a size enough for its magnitude.         *)
(***************************************************************************)
BytesAreTheNumber ==
    answer.tool = "int_convert" /\ answer.result.kind = "number" =>
        LET r == answer.result
            n == Len(r.bytes)
        IN  /\ NumberOf(Reverse(r.bytes)) = r.decimal % Pow[n]
            /\ IF answer.size = 0
               THEN /\ Magnitude(r.decimal) < Pow[n]
                    /\ n = 1 \/ Magnitude(r.decimal) >= Pow[n - 1]
               ELSE n = answer.size

\* The keys of the parts that a preview shows, and a value's part under a key.
Shown(p) == CASE p.t = "arr" -> {i \in DOMAIN p.items : p.items[i].t # "more"}
              [] p.t = "obj" -> DOMAIN p.members
              [] OTHER -> {}

Part(value, key) == IF value.t = "arr" THEN value.items[key] ELSE value.members[key]

\* What a preview shows so many levels down, next to what it shows it of.
ShownOf(preview, value) ==
    LET at[depth \in Nat] ==
            IF depth = 0 THEN {<<preview, value>>}
            ELSE UNION {{<<Part(x[1], k), Part(x[2], k)>> : k \in Shown(x[1])} : x \in at[depth - 1]}
    IN  at

\* Whether a preview tells the truth about a value, its parts left to themselves:
\* what it leaves out is counted.
StandsFor(p, v) ==
    \/ p = v
    \/ p.t = "cut" /\ v.t = "str" /\ p.whole = v.len /\ p.kept < v.len
    \/ p.t = "obj" /\ v.t = "obj" /\ DOMAIN p.members = DOMAIN v.members
    \/ /\ p.t = "arr" /\ v.t = "arr"
       /\ \/ Len(p.items) = Len(v.items) /\ Shown(p) = DOMAIN v.items
          \/ \E n \in 0 .. Len(v.items) :
                /\ Len(p.items) = n + 1 /\ Shown(p) = 1 .. n
                /\ p.items[n + 1] = MoreItems(Len(v.items) - n)

\* Whether nothing in it is longer than a preview may be.
Short(p) == /\ p.t = "str" => p.len <= StrLen
            /\ p.t = "arr" => Len(p.items) <= Items + 1

(***************************************************************************)
(* The structured content of a reply is the result, or is marked as        *)
(* truncated; then it is short in the levels that truncate_value follows,  *)
(* and all it says of the result is true.                                  *)
(***************************************************************************)
PreviewIsTrue ==
    answer.tool = "tools/call" =>
        IF answer.total = 0 THEN answer.content = Structured(answer.about)
        ELSE /\ answer.total = Size[Structured(answer.about)]
             /\ \A depth \in 0 .. MaxDepth :
                    \A x \in ShownOf(answer.content, Structured(answer.about))[depth] :
                        StandsFor(x[1], x[2]) /\ Short(x[1])
             /\ \A x \in ShownOf(answer.content, Structured(answer.about))[MaxDepth + 1] :
                    x[1] = x[2]

-----------------------------------------------------------------------------

(***************************************************************************)
(* ListedIsFound for every name.                                           *)
(***************************************************************************)
ListedIsAlwaysFound ==
    \A e \in Range(listing.page) :
        answer.tool \in Follows[listing.tool] /\ answer.about = e.name =>
            \E f \in Range(listing.page) : f.name = e.name /\ answer.found = <<f.at>>

(***************************************************************************)
(* core.cpp:84 "little-endian, signed": read back as a signed number, the  *)
(* bytes chosen without a size are the number.                             *)
(***************************************************************************)
BytesReadBackSigned ==
    answer.tool = "int_convert" /\ answer.result.kind = "number" /\ answer.size = 0 =>
        LET r == answer.result
            n == Len(r.bytes)
        IN  -(Pow[n] \div 2) <= r.decimal /\ r.decimal < Pow[n] \div 2

(***************************************************************************)
(* types.cpp:425 "Memory address to read values from": of a struct found   *)
(* through a pointer, the values are those of the struct, not of the       *)
(* pointer and what follows it.                                            *)
(***************************************************************************)
ValuesAreOfTheStruct ==
    answer.tool = "read_struct" /\ answer.about = <<>> /\ answer.read # BADADDR =>
        answer.read = IF base.typed[answer.given].ptr
                      THEN base.typed[answer.given].to ELSE answer.given

(***************************************************************************)
(* mcp.h:81 OUTPUT_LIMIT_MAX_CHARS: no part of a reply is longer than the  *)
(* limit.  The text content is never shortened.                            *)
(***************************************************************************)
ReplyIsLimited == answer.tool = "tools/call" => answer.text <= MaxChars
=============================================================================
