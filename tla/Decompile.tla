------------------------------ MODULE Decompile ------------------------------
(***************************************************************************)
(* tool_decompile (decompiler.cpp): decompile a function through the user  *)
(* interface.  The tool closes all pseudocode tabs, presses F5, and polls  *)
(* the tabs until one of them shows the function.  On IDA Free the text is *)
(* produced asynchronously: it can be late, and the output of a call that  *)
(* has been given up can still land in a tab of a later one.               *)
(*                                                                         *)
(* The calls themselves run one at a time on the main thread; between them *)
(* the user opens tabs and clients rename functions.  A declaration line   *)
(* stands for the name it declares; what else the tool finds in it, the    *)
(* last part of a qualified name say, is InFrontOfParen.                   *)
(***************************************************************************)
EXTENDS Naturals, FiniteSets

CONSTANTS
    Func,        \* functions
    Calls,       \* Calls[f]: functions whose names are in the body of f
    Name,
    Demangled,   \* Demangled[n]: get_short_name() without its argument list
    Stripped,    \* Stripped[n]: n without a leading underscore
    InFrontOfParen, \* InFrontOfParen[n]: the names that stand as whole
                 \* identifiers in front of a '(' in a line that declares n:
                 \* n, of "Foo::bar" also "bar", and type names before a "(*"
    FirstName,   \* FirstName[f]: the name of f at the beginning
    LastTab,     \* tabs are Pseudocode-1 .. Pseudocode-LastTab ('A' .. 'Z')
    MaxAttempts, \* 40
    MaxCalls,    \* bound: decompile calls in a behaviour
    MaxEdits     \* bound: tabs opened by the user and renames

Tab == 1 .. LastTab
NoFunc == "none"

ASSUME DecompileAssumption ==
    /\ NoFunc \notin Func \cup Name
    /\ Calls \in [Func -> SUBSET Func]
    /\ {Demangled, Stripped} \subseteq [Name -> Name]
    /\ InFrontOfParen \in [Name -> SUBSET Name]
    /\ \A n \in Name : n \in InFrontOfParen[n]
    /\ FirstName \in [Func -> Name]
    /\ {LastTab, MaxAttempts} \subseteq Nat \ {0}
    /\ {MaxCalls, MaxEdits} \subseteq Nat

VARIABLES
    pro,      \* IDA Pro: the SDK answers, and F5 is synchronous
    name,     \* name[f]
    used,     \* used[f]: names f has had
    tab,      \* tab[t]: Closed, Blank, or the text it shows
    late,     \* outputs under way
    stage,    \* "idle", "close", "act" or "poll"
    req,      \* the function asked for
    attempt,  \* polls begun
    at,       \* next tab of this poll
    steady,   \* history: a text of req has been shown since this poll began
    answer,   \* the last answer: an error, or the text returned
    calls, edits

doc == <<pro, name, used>>
decompileVars == <<pro, name, used, tab, late, stage, req, attempt, at, steady, answer, calls, edits>>

\* A text: the function it was made from, the name in its declaration line,
\* and the names in its body.  Banner has landed only up to its comment lines.
Text == [func : Func, decl : Name, body : SUBSET Name]
Closed == [func |-> NoFunc, shown |-> "closed"]
Blank == [func |-> NoFunc, shown |-> "blank"]
Banner == [func |-> NoFunc, shown |-> "banner"]
Shown == Text \cup {Closed, Blank, Banner}
Error(e) == [func |-> NoFunc, error |-> e]
NoAnswer == Error("none")
AnswerKind == Text \cup {Error(e) : e \in {"none", "navigate", "action", "not_found"}}

DecompileTypeOK ==
    /\ pro \in BOOLEAN
    /\ name \in [Func -> Name] /\ used \in [Func -> SUBSET Name]
    /\ tab \in [Tab -> Shown]
    /\ late \subseteq Text
    /\ stage \in {"idle", "close", "act", "poll"}
    /\ req \in Func \cup {NoFunc}
    /\ attempt \in 0 .. MaxAttempts /\ at \in 1 .. LastTab + 1
    /\ steady \in BOOLEAN
    /\ answer \in AnswerKind
    /\ calls \in 0 .. MaxCalls /\ edits \in 0 .. MaxEdits

\* What the decompiler may print for a name.
Printed(n) == {n, Demangled[n], Stripped[n]}
Texts(f) == [func : {f}, decl : Printed(name[f]), body : {{name[g] : g \in Calls[f]}}]
\* x is a text of f, made under its present name.
IsOf(x, f) == x \in Text /\ x.func = f /\ x.decl \in Printed(name[f])

OpenTabs == {t \in Tab : tab[t] # Closed}
FreeTabs == Tab \ OpenTabs

DecompileInit ==
    /\ pro \in BOOLEAN
    /\ name = FirstName
    /\ used = [f \in Func |-> {FirstName[f]}]
    /\ tab = [t \in Tab |-> Closed]
    /\ late = {}
    /\ stage = "idle"
    /\ req = NoFunc
    /\ attempt = 0 /\ at = 1 /\ steady = FALSE
    /\ answer = NoAnswer
    /\ calls = 0 /\ edits = 0

-----------------------------------------------------------------------------
(* Between the calls.                                                        *)

UserOpens(f) ==
    /\ stage = "idle" /\ edits < MaxEdits
    /\ \E t \in FreeTabs, x \in Texts(f) : tab' = [tab EXCEPT ![t] = x]
    /\ edits' = edits + 1
    /\ UNCHANGED <<doc, late, stage, req, attempt, at, steady, answer, calls>>

\* set_name() refuses a name another function has.
Rename(f, n) ==
    /\ stage = "idle" /\ edits < MaxEdits
    /\ \A g \in Func : n # name[g]
    /\ name' = [name EXCEPT ![f] = n]
    /\ used' = [used EXCEPT ![f] = @ \cup {n}]
    /\ edits' = edits + 1
    /\ UNCHANGED <<pro, tab, late, stage, req, attempt, at, steady, answer, calls>>

\* An output lands in whatever tab is open, whole or in part, or is lost.
Land(x) ==
    /\ \/ \E t \in OpenTabs :
             \/ tab' = [tab EXCEPT ![t] = x] /\ late' = late \ {x}
             \/ tab' = [tab EXCEPT ![t] = Banner] /\ UNCHANGED late
       \/ late' = late \ {x} /\ UNCHANGED tab
    /\ steady' = FALSE
    /\ UNCHANGED <<doc, stage, req, attempt, at, answer, calls, edits>>

-----------------------------------------------------------------------------
Return(a) ==
    /\ answer' = a
    /\ stage' = "idle"
    /\ req' = NoFunc
    /\ attempt' = 0 /\ at' = 1 /\ steady' = FALSE

\* jumpto() brings the disassembly to the function, or the call fails.
Decompile(f) ==
    /\ stage = "idle" /\ calls < MaxCalls
    /\ calls' = calls + 1
    /\ \/ stage' = "close" /\ req' = f /\ answer' = NoAnswer
          /\ UNCHANGED <<attempt, at, steady>>
       \/ Return(Error("navigate"))
    /\ UNCHANGED <<doc, tab, late, edits>>

\* Mutant: tabs are left open.
CloseTabs_Kept ==
    /\ stage = "close"
    /\ stage' = "act"
    /\ UNCHANGED <<doc, tab, late, req, attempt, at, steady, answer, calls, edits>>

CloseTabs ==
    /\ stage = "close"
    /\ tab' = [t \in Tab |-> Closed]
    /\ stage' = "act"
    /\ UNCHANGED <<doc, late, req, attempt, at, steady, answer, calls, edits>>

\* hx:GenPseudo opens a tab.  IDA Pro fills it; on IDA Free the output is under
\* way.  Without a view to navigate, F5 may act on another function.
Act ==
    /\ stage = "act"
    /\ \E t \in FreeTabs, f \in Func : \E x \in Texts(f) :
          IF pro THEN tab' = [tab EXCEPT ![t] = x] /\ UNCHANGED late
          ELSE tab' = [tab EXCEPT ![t] = Blank] /\ late' = late \cup {x}
    /\ stage' = "poll"
    /\ attempt' = 1 /\ at' = 1
    /\ steady' = \E t \in Tab : IsOf(tab'[t], req)
    /\ UNCHANGED <<doc, req, answer, calls, edits>>

ActFails ==
    /\ stage = "act"
    /\ Return(Error("action"))
    /\ UNCHANGED <<doc, tab, late, calls, edits>>

\* Method A: the SDK knows what the tab shows; it fills nothing in on IDA Free,
\* and may not have the text yet.
read_pseudocode_via_vdui(x) == pro /\ x \in Text /\ x.func = req

\* Method B: the declaration line, past blank lines and comments.
pseudocode_decl_line(x) == IF x \in Text THEN x.decl ELSE NoFunc

\* The names the declaration may show.
Candidates == {name[req], Demangled[name[req]]}

\* The name is looked for anywhere in the line, between characters that belong
\* to no identifier (':' is such a one) and in front of a '('.
line_declares_exact_name(line, n) == n \in InFrontOfParen[line]

\* Mutant: the decompiler's prototype is taken to keep the underscore.
line_declares_function_Verbatim(line, n) ==
    line # NoFunc /\ line_declares_exact_name(line, n)

line_declares_function(line, n) ==
    /\ line # NoFunc
    /\ \/ line_declares_exact_name(line, n)
       \/ line_declares_exact_name(line, Stripped[n])

\* Mutant: the name may be anywhere in the text.
Accepts_Anywhere(x) ==
    \/ read_pseudocode_via_vdui(x)
    \/ x \in Text /\ \E n \in Candidates : n \in x.body \cup {x.decl}

\* Does the tool take this text for the function asked for?
Accepts(x) ==
    \/ read_pseudocode_via_vdui(x)
    \/ \E n \in Candidates : line_declares_function(pseudocode_decl_line(x), n)

Polling == stage = "poll"

Found ==
    /\ Polling /\ at <= LastTab
    /\ Accepts(tab[at])
    /\ Return(tab[at])
    /\ UNCHANGED <<doc, tab, late, calls, edits>>

NextTab ==
    /\ Polling /\ at <= LastTab
    /\ ~Accepts(tab[at])
    /\ at' = at + 1
    /\ UNCHANGED <<doc, tab, late, stage, req, attempt, steady, answer, calls, edits>>

\* Mutant: polls are not counted while the tab is blank.
NextAttempt_Uncounted ==
    /\ Polling /\ at > LastTab
    /\ attempt < MaxAttempts
    /\ attempt' = IF Blank \in {tab[t] : t \in Tab} THEN attempt ELSE attempt + 1
    /\ at' = 1
    /\ steady' = \E t \in Tab : IsOf(tab[t], req)
    /\ UNCHANGED <<doc, tab, late, stage, req, answer, calls, edits>>

\* qsleep(50), then another poll.
NextAttempt ==
    /\ Polling /\ at > LastTab
    /\ attempt < MaxAttempts
    /\ attempt' = attempt + 1
    /\ at' = 1
    /\ steady' = \E t \in Tab : IsOf(tab[t], req)
    /\ UNCHANGED <<doc, tab, late, stage, req, answer, calls, edits>>

GiveUp ==
    /\ Polling /\ at > LastTab
    /\ attempt >= MaxAttempts
    /\ Return(Error("not_found"))
    /\ UNCHANGED <<doc, tab, late, calls, edits>>

Tool == CloseTabs \/ Act \/ ActFails \/ Found \/ NextTab \/ NextAttempt \/ GiveUp

DecompileNext ==
    \/ Tool
    \/ \E f \in Func : Decompile(f) \/ UserOpens(f)
    \/ \E f \in Func, n \in Name : Rename(f, n)
    \/ \E x \in late : Land(x)

\* The tool runs on the main thread; users, clients and the cloud need not act.
DecompileSpec == DecompileInit /\ [][DecompileNext]_decompileVars /\ WF_decompileVars(Tool)

-----------------------------------------------------------------------------
\* decompiler.cpp:268 "validate that it belongs to our function", without the
\* exception: no output of another function is ever returned.
AnswerNeverOfAnother ==
    [][stage = "poll" /\ stage' = "idle" => answer'.func \in {req, NoFunc}]_decompileVars

\* No line printed for another function declares, in the eyes of the tool, a
\* name it looks for.  Names are the only thing IDA Free lets it compare, and
\* they do not tell apart "_bar" and "bar", two overloads of one C++ function,
\* or, when "bar" is asked for, "bar" and every method "Foo::bar".
Unambiguous ==
    \A g \in Func \ {req}, n \in Candidates :
        \A m \in used[g] : \A line \in Printed(m) : ~line_declares_function(line, n)

\* As long as names tell functions apart (Unambiguous: no "Foo::bar" beside the
\* function "bar"), a text that is returned is one of the function asked for, although outputs of other functions land in its
\* tab, callers that name it in their body among them, outputs made before a
\* rename, and even if F5 has acted on another function.
AnswerIsRequested ==
    [][stage = "poll" /\ stage' = "idle" /\ Unambiguous => answer'.func \in {req, NoFunc}]_decompileVars

\* The tool does not give up on a text that one of the tabs has shown during
\* the whole last poll, in whichever form its present name is printed.
ShownIsFound ==
    [][(stage = "poll" /\ stage' = "idle" /\ steady) => answer'.func # NoFunc]_decompileVars

\* However many calls are made and however they end, their tabs do not pile up
\* beyond 'Z', where no poll would find them.
TabsDoNotPileUp == stage = "poll" => Cardinality(OpenTabs) = 1

\* Every call is answered, whether or not an output ever lands.
EveryCallIsAnswered == (stage # "idle") ~> (stage = "idle")
=============================================================================
