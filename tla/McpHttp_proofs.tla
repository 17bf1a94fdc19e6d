---------------------------- MODULE McpHttp_proofs ----------------------------
(***************************************************************************)
(* The replies of the JSON-RPC routes for any number of workers, sessions  *)
(* and ids: each is determined by the request the worker serves, whatever  *)
(* the others do to the members that all requests share.                   *)
(***************************************************************************)
EXTENDS McpHttp, Decompile, FiniteSetTheorems, TLAPS

Replies == [status : {0, 200, 202, 413, 500}, code : Code \cup {Absent},
            id : RequestId \cup {Absent}, version : {"2025-06-18", "2024-11-05", Absent}]

\* TypeOK, with bodies and replies as functions of the workers.
TypeInv ==
    /\ TypeOK
    /\ body \in [Worker -> Body \cup {NoBody}]
    /\ reply \in [Worker -> Replies]

\* No POST reaches the line that would set the version of the SSE transport.
VersionInv == protocolVersion = "2025-06-18"

TooLarge == Reply(413, Absent, Absent, Absent)

\* The reply to a body that is refused, and the one to a body that is not.
RefusedReply(b, r) ==
    \E code \in Refusal(b) :
        r = IF Serialisable(b, "refused") THEN Reply(200, code, Absent, Absent)
            ELSE NotSerialised
MethodReply(b, r) ==
    /\ Refusal(b) = {}
    /\ r = HttpReply(b, Outcome(b, log_calls),
                     IF b.method = "initialize" THEN "2025-06-18" ELSE Absent)

\* A reply is that of the worker's own request.
ReplyInv ==
    \A w \in Worker :
        /\ phase[w] = "call" => body[w] \in Body /\ Refusal(body[w]) = {}
        /\ phase[w] = "answered" =>
              \/ reply[w] = TooLarge
              \/ body[w] \in Body /\ (RefusedReply(body[w], reply[w]) \/ MethodReply(body[w], reply[w]))

Inv == TypeInv /\ VersionInv /\ ReplyInv

-----------------------------------------------------------------------------
\* What dispatch may end with.
LEMMA OutcomeType ==
    ASSUME NEW b \in Body, NEW logged
    PROVE  /\ Outcome(b, logged) \in {"value", "unknown", "exception"}
           /\ Outcome(b, logged) = "unknown" <=> b.method = "other"
<1>1. CASE b.method = "other"
  <2>1. b.result # "split"
    BY <1>1 DEF Body, Object, Bare
  <2> QED
    BY <1>1, <2>1 DEF Outcome
<1>2. CASE b.method # "other"
  <2>1. CASE b.method \in {"tools/call", "notifications/cancelled"} /\ b.params # "object"
    BY <1>2, <2>1 DEF Outcome
  <2>2. CASE b.result = "split" /\ logged
    BY <1>2, <2>2 DEF Outcome
  <2>3. CASE /\ ~(b.method \in {"tools/call", "notifications/cancelled"} /\ b.params # "object")
             /\ ~(b.result = "split" /\ logged)
    BY <1>2, <2>3 DEF Outcome
  <2> QED
    BY <2>1, <2>2, <2>3
<1> QED
  BY <1>1, <1>2

\* Its code, and when it is that of an unknown method.
LEMMA CodeType ==
    ASSUME NEW o \in {"value", "unknown", "exception"}
    PROVE  /\ CodeOf[o] \in {0, MethodNotFound, InternalError}
           /\ CodeOf[o] = MethodNotFound <=> o = "unknown"
           /\ CodeOf[o] = 0 <=> o = "value"
<1>1. CASE o = "value"
  BY <1>1 DEF CodeOf, MethodNotFound, InternalError
<1>2. CASE o = "unknown"
  BY <1>2 DEF CodeOf, MethodNotFound, InternalError
<1>3. CASE o = "exception"
  BY <1>3 DEF CodeOf, MethodNotFound, InternalError
<1> QED
  BY <1>1, <1>2, <1>3

\* The id of every body is an id or missing.
LEMMA BodyId == \A b \in Body : b.id \in RequestId \cup {Absent}
  BY DEF Body, Object, Bare

\* What HttpReply builds is a reply.
LEMMA HttpReplyType ==
    ASSUME NEW b \in Body, NEW logged,
           NEW version \in {"2025-06-18", "2024-11-05", Absent}
    PROVE  HttpReply(b, Outcome(b, logged), version) \in Replies
<1>1. CodeOf[Outcome(b, logged)] \in Code
  BY OutcomeType, CodeType DEF Code
<1> QED
  BY <1>1, BodyId DEF HttpReply, Reply, Replies, NotSerialised

\* So is the reply to a refused body.
LEMMA RefusedReplyType ==
    ASSUME NEW b, NEW code \in Refusal(b)
    PROVE  (IF Serialisable(b, "refused") THEN Reply(200, code, Absent, Absent)
            ELSE NotSerialised) \in Replies
<1>1. code \in Code
  BY DEF Refusal, Code
<1> QED
  BY <1>1 DEF Reply, Replies, NotSerialised

\* No request, no reply, and the version of the HTTP transport.
LEMMA InitInv == Init => Inv
<1> SUFFICES ASSUME Init PROVE Inv
  OBVIOUS
<1>1. NoReply \in Replies
  BY DEF NoReply, Reply, Replies
<1>2. TypeInv
  BY <1>1 DEF Init, TypeInv, TypeOK, Replies
<1> QED
  BY <1>2 DEF Init, Inv, VersionInv, ReplyInv

\* Replies as records are what TypeOK says of them.
LEMMA TypeFromFunctions ==
    ASSUME body' \in [Worker -> Body \cup {NoBody}], reply' \in [Worker -> Replies],
           phase' \in [Worker -> {"idle", "call", "answered"}],
           told' \subseteq Worker, protocolVersion' \in {"2025-06-18", "2024-11-05"},
           log_calls' \in BOOLEAN, announced' \subseteq Session, posted' \subseteq {202, 400}
    PROVE  TypeInv'
  BY DEF TypeInv, TypeOK, Replies

\* The path a POST to an announced endpoint arrives with has no query.
LEMMA NoQuery == \A s \in Session : extract_query_string(ReqPath(Endpoint(s))) = Absent
  BY DEF extract_query_string, ReqPath, Endpoint

\* Every step keeps the types.
LEMMA TypeStep == Inv /\ [Next]_vars => TypeInv'
<1> SUFFICES ASSUME Inv, [Next]_vars PROVE TypeInv'
  OBVIOUS
<1> USE DEF Inv, TypeInv, TypeOK
<1>1. ASSUME NEW w \in Worker, NEW b \in Body, PostMcp(w, b) PROVE TypeInv'
  <2>1. reply' \in [Worker -> Replies]
    <3>1. CASE Refusal(b) = {}
      BY <1>1, <3>1 DEF PostMcp
    <3>2. CASE Refusal(b) # {}
      <4>1. PICK code \in Refusal(b) : reply' = [reply EXCEPT ![w] =
                IF Serialisable(b, "refused") THEN Reply(200, code, Absent, Absent)
                ELSE NotSerialised]
        BY <1>1, <3>2 DEF PostMcp
      <4>2. (IF Serialisable(b, "refused") THEN Reply(200, code, Absent, Absent)
             ELSE NotSerialised) \in Replies
        BY RefusedReplyType
      <4>3. reply \in [Worker -> Replies]
        OBVIOUS
      <4> QED
        BY <4>1, <4>2, <4>3
    <3> QED
      BY <3>1, <3>2
  <2>2. /\ body' \in [Worker -> Body \cup {NoBody}]
        /\ phase' \in [Worker -> {"idle", "call", "answered"}]
    BY <1>1 DEF PostMcp
  <2>3. /\ UNCHANGED <<told, log_calls, announced, posted>>
        /\ protocolVersion' = "2025-06-18"
    BY <1>1 DEF PostMcp
  <2> QED
    BY <2>1, <2>2, <2>3, TypeFromFunctions
<1>2. ASSUME NEW w \in Worker, PostTooLarge(w) PROVE TypeInv'
  <2>1. reply' \in [Worker -> Replies]
    BY <1>2 DEF PostTooLarge, Reply, Replies
  <2> QED
    BY <1>2, <2>1, TypeFromFunctions DEF PostTooLarge
<1>3. ASSUME NEW w \in Worker, Answer(w) PROVE TypeInv'
  <2>1. body[w] \in Body
    BY <1>3 DEF Answer, ReplyInv
  <2>2. reply' \in [Worker -> Replies]
    BY <1>3, <2>1, HttpReplyType DEF Answer
  <2>3. told' \subseteq Worker
    BY <1>3 DEF Answer, Named
  <2> QED
    BY <1>3, <2>2, <2>3, TypeFromFunctions DEF Answer
<1>4. ASSUME NEW w \in Worker, Finish(w) PROVE TypeInv'
  <2>1. reply' \in [Worker -> Replies]
    BY <1>4 DEF Finish, NoReply, Reply, Replies
  <2> QED
    BY <1>4, <2>1, TypeFromFunctions DEF Finish
<1>5. ASSUME NEW s \in Session, GetSse(s) PROVE TypeInv'
  <2>1. UNCHANGED <<body, reply, phase, told, protocolVersion, log_calls, posted>>
    BY <1>5 DEF GetSse
  <2>2. announced' \subseteq Session
    BY <1>5 DEF GetSse
  <2> QED
    BY <2>1, <2>2, TypeFromFunctions
<1>6. ASSUME NEW s \in Session, PostSse(s) PROVE TypeInv'
  <2>1. UNCHANGED <<body, reply, phase, told, log_calls, announced>>
    BY <1>6 DEF PostSse
  <2>2. posted' = posted \cup {400} /\ protocolVersion' = protocolVersion
    BY <1>6, NoQuery DEF PostSse
  <2> QED
    BY <2>1, <2>2, TypeFromFunctions
<1>7. CASE UNCHANGED vars
  BY <1>7, TypeFromFunctions DEF vars
<1> QED
  BY <1>1, <1>2, <1>3, <1>4, <1>5, <1>6, <1>7 DEF Next

\* No step sets the version of the SSE transport: its posts find no session.
LEMMA VersionStep == VersionInv /\ [Next]_vars => VersionInv'
<1> SUFFICES ASSUME VersionInv, [Next]_vars PROVE VersionInv'
  OBVIOUS
<1>1. ASSUME NEW s \in Session, PostSse(s) PROVE VersionInv'
  BY <1>1, NoQuery DEF PostSse, VersionInv
<1> QED
  BY <1>1 DEF Next, PostMcp, PostTooLarge, Answer, Finish, GetSse, vars, VersionInv

\* A reply that is made is the refusal or the result of its worker's own body.
LEMMA ReplyStep == Inv /\ [Next]_vars => ReplyInv'
<1> SUFFICES ASSUME Inv, [Next]_vars PROVE ReplyInv'
  OBVIOUS
<1> USE DEF Inv, TypeInv, TypeOK
<1>0. log_calls' = log_calls
  BY DEF Next, PostMcp, PostTooLarge, Answer, Finish, GetSse, PostSse, vars
<1>1. ASSUME NEW w \in Worker, NEW b \in Body, PostMcp(w, b) PROVE ReplyInv'
  <2>1. /\ phase'[w] = "call" => body'[w] = b /\ Refusal(b) = {}
        /\ phase'[w] = "answered" => body'[w] = b /\ RefusedReply(b, reply'[w])
    BY <1>1 DEF PostMcp, RefusedReply
  <2>2. \A v \in Worker \ {w} :
           phase'[v] = phase[v] /\ body'[v] = body[v] /\ reply'[v] = reply[v]
    BY <1>1 DEF PostMcp
  <2> QED
    BY <1>0, <2>1, <2>2 DEF ReplyInv, MethodReply
<1>2. ASSUME NEW w \in Worker, PostTooLarge(w) PROVE ReplyInv'
  BY <1>0, <1>2 DEF PostTooLarge, ReplyInv, MethodReply, TooLarge
<1>3. ASSUME NEW w \in Worker, Answer(w) PROVE ReplyInv'
  <2>1. phase'[w] = "answered" /\ body'[w] = body[w] /\ MethodReply(body[w], reply'[w])
    BY <1>3 DEF Answer, ReplyInv, MethodReply, VersionInv
  <2>2. \A v \in Worker \ {w} :
           phase'[v] = phase[v] /\ body'[v] = body[v] /\ reply'[v] = reply[v]
    BY <1>3 DEF Answer
  <2>3. body[w] \in Body
    BY <1>3 DEF Answer, ReplyInv
  <2> QED
    BY <1>0, <2>1, <2>2, <2>3 DEF ReplyInv, MethodReply
<1>4. ASSUME NEW w \in Worker, Finish(w) PROVE ReplyInv'
  BY <1>0, <1>4 DEF Finish, ReplyInv, MethodReply
<1>5. ASSUME NEW s \in Session, GetSse(s) \/ PostSse(s) PROVE ReplyInv'
  BY <1>0, <1>5 DEF GetSse, PostSse, ReplyInv, MethodReply
<1>6. CASE UNCHANGED vars
  BY <1>0, <1>6 DEF vars, ReplyInv, MethodReply
<1> QED
  BY <1>1, <1>2, <1>3, <1>4, <1>5, <1>6 DEF Next

(***************************************************************************)
(* The invariant holds throughout: one worker's reply depends on nothing   *)
(* another worker writes.                                                  *)
(***************************************************************************)
THEOREM InvCorrect == Spec => []Inv
<1>1. Inv /\ [Next]_vars => Inv'
  BY TypeStep, VersionStep, ReplyStep DEF Inv
<1> QED
  BY <1>1, InitInv, PTL DEF Spec

(***************************************************************************)
(* TypeOK is an invariant of the routes.                                   *)
(***************************************************************************)
THEOREM TypeCorrect == Spec => []TypeOK
<1>1. Inv => TypeOK
  BY DEF Inv, TypeInv
<1> QED
  BY <1>1, InvCorrect, PTL

\* Why the reply to a body that was looked at conforms.
LEMMA RefusedConforms ==
    ASSUME NEW b \in Body, NEW r, RefusedReply(b, r), ~Unanswerable(b)
    PROVE  /\ r.status = 200 /\ r.id = Absent /\ r.code \in {ParseError, InvalidRequest}
           /\ ~(b.json = "object" /\ b.version = "2.0" /\ b.method \in Method)
<1>1. PICK code \in Refusal(b) :
         r = IF Serialisable(b, "refused") THEN Reply(200, code, Absent, Absent) ELSE NotSerialised
  BY DEF RefusedReply
<1>2. Serialisable(b, "refused")
  BY DEF Unanswerable, Serialisable
<1>3. code \in {ParseError, InvalidRequest}
  BY DEF Refusal
<1>4. ~(b.json = "object" /\ b.version = "2.0" /\ b.method \in Method)
  BY <1>1, McpHttpAssumption DEF Refusal, Method
<1> QED
  BY <1>1, <1>2, <1>3, <1>4 DEF Reply

\* A reply of a method conforms, unless it could not be serialised.
LEMMA MethodConforms ==
    ASSUME NEW b \in Body, NEW r, MethodReply(b, r), ~Unanswerable(b)
    PROVE  /\ b.json = "object" /\ b.version = "2.0" /\ b.method \in Method
           /\ b.id = Absent => r.status = 202 /\ r.code = Absent
           /\ b.id # Absent => /\ r.status = 200 /\ r.id = b.id
                               /\ r.code \notin {Absent, ParseError, InvalidRequest}
                               /\ (r.code = MethodNotFound <=> b.method = "other")
<1> DEFINE o == Outcome(b, log_calls)
<1>1. b.json = "object" /\ b.version = "2.0" /\ b.method \in Method
  BY DEF MethodReply, Refusal, Body, Object, Bare
<1>2. b.id = Absent => r.status = 202 /\ r.code = Absent
  BY DEF MethodReply, HttpReply, Reply
<1>3. ASSUME b.id # Absent
      PROVE  /\ r.status = 200 /\ r.id = b.id
             /\ r.code \notin {Absent, ParseError, InvalidRequest}
             /\ (r.code = MethodNotFound <=> b.method = "other")
  <2>1. Serialisable(b, o)
    <3>1. b.result = "split" => log_calls
      BY <1>3 DEF Unanswerable, MethodReply
    <3>2. b.result \in {"plain", "split"}
      BY DEF Body, Object, Bare
    <3> QED
      BY <1>1, <3>1, <3>2 DEF Serialisable, Outcome
  <2>2. r.status = 200 /\ r.id = b.id /\ r.code = CodeOf[o]
    <3>1. PICK version : r = HttpReply(b, o, version)
      BY DEF MethodReply
    <3>2. r = Reply(200, CodeOf[o], b.id, version)
      BY <1>3, <2>1, <3>1 DEF HttpReply
    <3> HIDE DEF o
    <3> QED
      BY ONLY <3>2 DEF Reply
  <2>3. o \in {"value", "unknown", "exception"} /\ (o = "unknown" <=> b.method = "other")
    BY OutcomeType
  <2>4. /\ CodeOf[o] \in {0, MethodNotFound, InternalError}
        /\ CodeOf[o] = MethodNotFound <=> o = "unknown"
    BY <2>3, CodeType
  <2>5. CodeOf[o] \notin {Absent, ParseError, InvalidRequest}
    BY <2>4, McpHttpAssumption
       DEF Code, ParseError, InvalidRequest, MethodNotFound, InternalError
  <2> QED
    BY <2>2, <2>3, <2>4, <2>5
<1> QED
  BY <1>1, <1>2, <1>3

(***************************************************************************)
(* RepliesConform for any number of workers and ids: what dispatch returns *)
(* is the response to the request it was given, and only to a request that *)
(* wants one.                                                              *)
(***************************************************************************)
THEOREM RepliesConformAlways == Spec => []RepliesConform
<1>1. Inv => RepliesConform
  <2> SUFFICES ASSUME Inv, NEW w \in Worker, phase[w] = "answered",
                      reply[w].status # 413, ~Unanswerable(body[w])
               PROVE  LET b == body[w]
                          r == reply[w]
                          understood == /\ b.json = "object" /\ b.version = "2.0"
                                        /\ b.method \in Method
                      IN  CASE ~understood -> /\ r.status = 200 /\ r.id = Absent
                                              /\ r.code \in {ParseError, InvalidRequest}
                            [] understood /\ b.id = Absent -> r.status = 202 /\ r.code = Absent
                            [] OTHER -> /\ r.status = 200 /\ r.id = b.id
                                        /\ r.code \notin {Absent, ParseError, InvalidRequest}
                                        /\ r.code = MethodNotFound <=> b.method = "other"
    BY DEF RepliesConform
  <2>1. body[w] \in Body /\ (RefusedReply(body[w], reply[w]) \/ MethodReply(body[w], reply[w]))
    BY DEF Inv, ReplyInv, TooLarge, Reply
  <2>2. CASE RefusedReply(body[w], reply[w])
    BY <2>1, <2>2, RefusedConforms
  <2>3. CASE MethodReply(body[w], reply[w])
    BY <2>1, <2>3, MethodConforms
  <2> QED
    BY <2>1, <2>2, <2>3
<1> QED
  BY <1>1, InvCorrect, PTL

(***************************************************************************)
(* VersionIsOfOwnRequest for any number of workers and sessions: the       *)
(* version initialize reads is the one its own request's route has set.    *)
(***************************************************************************)
THEOREM VersionIsOfOwnRequestAlways == Spec => []VersionIsOfOwnRequest
<1>1. Inv => VersionIsOfOwnRequest
  <2> SUFFICES ASSUME Inv, NEW w \in Worker, phase[w] = "answered",
                      body[w].method = "initialize", reply[w].code = 0
               PROVE  reply[w].version = "2025-06-18"
    BY DEF VersionIsOfOwnRequest
  <2>1. Absent # 0
    BY McpHttpAssumption DEF Code
  <2>2. body[w] \in Body /\ (RefusedReply(body[w], reply[w]) \/ MethodReply(body[w], reply[w]))
    BY <2>1 DEF Inv, ReplyInv, TooLarge, Reply
  <2>3. ~RefusedReply(body[w], reply[w])
    <3> SUFFICES ASSUME RefusedReply(body[w], reply[w]) PROVE FALSE
      OBVIOUS
    <3>1. PICK code \in Refusal(body[w]) :
             reply[w] = Reply(200, code, Absent, Absent) \/ reply[w] = NotSerialised
      BY DEF RefusedReply
    <3>2. code \in {ParseError, InvalidRequest}
      BY DEF Refusal
    <3>3. reply[w].code \in {ParseError, InvalidRequest, Absent}
      BY <3>1, <3>2 DEF Reply, NotSerialised
    <3> QED
      BY <2>1, <3>3 DEF ParseError, InvalidRequest
  <2> QED
    BY <2>1, <2>2, <2>3 DEF MethodReply, HttpReply, Reply, NotSerialised
<1> QED
  BY <1>1, InvCorrect, PTL

-----------------------------------------------------------------------------
(***************************************************************************)
(* What one of the methods does behind it: the decompile tool, for any     *)
(* functions, names, number of tabs and calls.  It answers with the        *)
(* function that was asked for, finds what is shown, and leaves no tabs    *)
(* behind.                                                                 *)
(***************************************************************************)

\* Every text, shown or under way, is declared by a name its function has had.
Declared(x) == \E n \in used[x.func] : x.decl \in Printed(n)

TextInv ==
    /\ \A f \in Func : name[f] \in used[f]
    /\ \A x \in late : Declared(x)
    /\ \A t \in Tab : tab[t] \in Text => Declared(tab[t])

\* The tool's own tab is the only one there is.
TabInv ==
    /\ stage = "act" => OpenTabs = {}
    /\ stage = "poll" => \E t \in Tab : OpenTabs = {t}

\* What has been shown during the whole poll is in a tab still to be looked at.
PollInv ==
    /\ stage # "idle" => req \in Func
    /\ steady => /\ stage = "poll"
                 /\ \E t \in Tab : t >= at /\ IsOf(tab[t], req)

DecompileInv == DecompileTypeOK /\ TextInv /\ TabInv /\ PollInv

-----------------------------------------------------------------------------
\* Texts of the three kinds that are not texts of functions.
LEMMA NotText == Closed \notin Text /\ Blank \notin Text /\ Banner \notin Text
BY DecompileAssumption DEF Closed, Blank, Banner, Text

\* What the decompiler prints of a function is a text of it, under its present name.
LEMMA TextsAreText ==
    ASSUME DecompileTypeOK, NEW f \in Func
    PROVE  /\ Texts(f) \subseteq Text
           /\ \A x \in Texts(f) : x.func = f /\ x.decl \in Printed(name[f])
<1>1. Printed(name[f]) \subseteq Name
  BY DecompileAssumption DEF Printed, DecompileTypeOK
<1>2. {name[g] : g \in Calls[f]} \subseteq Name
  BY DecompileAssumption DEF DecompileTypeOK
<1> QED BY <1>1, <1>2 DEF Texts, Text

\* What a tab may show and what the tool may answer.
LEMMA ShownKinds ==
    /\ Text \subseteq Shown /\ {Closed, Blank, Banner} \subseteq Shown
    /\ Text \subseteq AnswerKind
    /\ NoAnswer \in AnswerKind /\ Error("navigate") \in AnswerKind
    /\ Error("action") \in AnswerKind /\ Error("not_found") \in AnswerKind
BY DEF Shown, AnswerKind, NoAnswer

\* The bounds as numbers.
LEMMA Bounds ==
    /\ LastTab \in Nat /\ LastTab > 0 /\ MaxAttempts \in Nat /\ MaxAttempts > 0
    /\ MaxCalls \in Nat /\ MaxEdits \in Nat
BY DecompileAssumption

\* A tab that is open does not look closed.
LEMMA ClosedIsNoOther == Closed # Blank /\ Closed # Banner
BY DEF Closed, Blank, Banner

\* The tool accepts only texts of functions ...
LEMMA AcceptedIsText ==
    ASSUME NEW x, Accepts(x)
    PROVE  x \in Text
BY DEF Accepts, read_pseudocode_via_vdui, pseudocode_decl_line, line_declares_function

\* ... those of the function asked for, under its present name, among them ...
LEMMA OwnIsAccepted ==
    ASSUME DecompileTypeOK, req \in Func, NEW x, IsOf(x, req)
    PROVE  Accepts(x)
<1>1. x \in Text /\ x.decl \in Name /\ x.decl # NoFunc
  BY DecompileAssumption DEF IsOf, Text
<1>2. PICK n \in Candidates : x.decl \in {n, Stripped[n]}
  BY DEF IsOf, Printed, Candidates
<1>3. line_declares_function(x.decl, n)
  BY <1>1, <1>2, DecompileAssumption DEF line_declares_function, line_declares_exact_name
<1> QED BY <1>1, <1>2, <1>3 DEF Accepts, pseudocode_decl_line

\* ... and, as long as names are unambiguous, none of another function.
LEMMA AcceptedIsRequested ==
    ASSUME DecompileTypeOK, req \in Func, Unambiguous, NEW x \in Text, Declared(x), Accepts(x)
    PROVE  x.func = req
<1> SUFFICES ASSUME x.func # req PROVE FALSE
  OBVIOUS
<1>1. x.func \in Func
  BY DEF Text
<1>2. PICK n \in Candidates : line_declares_function(x.decl, n)
  BY DEF Accepts, read_pseudocode_via_vdui, pseudocode_decl_line
<1>3. PICK m \in used[x.func] : x.decl \in Printed(m)
  BY DEF Declared
<1> QED BY <1>1, <1>2, <1>3 DEF Unambiguous

-----------------------------------------------------------------------------
\* An answer leaves the tool idle.
LEMMA ReplyTyped ==
    ASSUME DecompileTypeOK, NEW a \in AnswerKind, Return(a),
           UNCHANGED <<doc, tab, late, edits>>, calls' \in 0 .. MaxCalls
    PROVE  DecompileTypeOK'
<1>1. 0 \in 0 .. MaxAttempts /\ 1 \in 1 .. LastTab + 1
  BY Bounds
<1> QED BY <1>1 DEF DecompileTypeOK, Return, doc

\* Every step keeps the invariant.
LEMMA DecompileStep == DecompileInv /\ [DecompileNext]_decompileVars => DecompileInv'
<1> SUFFICES ASSUME DecompileInv, [DecompileNext]_decompileVars PROVE DecompileInv'
  OBVIOUS
<1>t. DecompileTypeOK'
  <2> USE Bounds, TextsAreText, ShownKinds DEF DecompileInv, PollInv, DecompileTypeOK, Tab, doc
  <2>1. CASE CloseTabs
    BY <2>1 DEF CloseTabs
  <2>2. CASE Act
    BY <2>2 DEF Act, FreeTabs
  <2>3. CASE ActFails
    BY <2>3, ReplyTyped DEF ActFails
  <2>4. CASE Found
    <3>1. Accepts(tab[at]) /\ req \in Func /\ DecompileTypeOK
      BY <2>4 DEF Found, Polling
    <3>2. tab[at] \in AnswerKind
      BY <3>1, AcceptedIsText DEF AnswerKind
    <3> QED BY <2>4, <3>2, ReplyTyped DEF Found
  <2>5. CASE NextTab
    BY <2>5 DEF NextTab, Polling
  <2>6. CASE NextAttempt
    BY <2>6 DEF NextAttempt, Polling
  <2>7. CASE GiveUp
    BY <2>7, ReplyTyped DEF GiveUp
  <2>8. ASSUME NEW f \in Func, Decompile(f) PROVE DecompileTypeOK'
    <3>1. CASE Return(Error("navigate"))
      BY <2>8, <3>1, ReplyTyped DEF Decompile
    <3>2. CASE stage' = "close" /\ req' = f /\ answer' = NoAnswer
                /\ UNCHANGED <<attempt, at, steady>>
      BY <2>8, <3>2 DEF Decompile
    <3> QED BY <2>8, <3>1, <3>2 DEF Decompile
  <2>9. ASSUME NEW f \in Func, UserOpens(f) PROVE DecompileTypeOK'
    BY <2>9 DEF UserOpens, FreeTabs
  <2>10. ASSUME NEW f \in Func, NEW n \in Name, Rename(f, n) PROVE DecompileTypeOK'
    BY <2>10 DEF Rename
  <2>11. ASSUME NEW x \in late, Land(x) PROVE DecompileTypeOK'
    BY <2>11 DEF Land, OpenTabs
  <2>12. CASE UNCHANGED decompileVars
    BY <2>12 DEF decompileVars
  <2> QED
    BY <2>1, <2>2, <2>3, <2>4, <2>5, <2>6, <2>7, <2>8, <2>9,
       <2>10, <2>11, <2>12 DEF DecompileNext, Tool
<1>a. TextInv'
  <2> USE <1>t, TextsAreText, NotText DEF DecompileInv, PollInv, DecompileTypeOK, TextInv, Declared, doc
  <2>1. CASE CloseTabs
    BY <2>1 DEF CloseTabs
  <2>2. CASE Act
    BY <2>2 DEF Act, FreeTabs
  <2>3. CASE ActFails
    BY <2>3 DEF ActFails, Return
  <2>4. CASE Found
    BY <2>4 DEF Found, Return, Polling
  <2>5. CASE NextTab
    BY <2>5 DEF NextTab, Polling
  <2>6. CASE NextAttempt
    BY <2>6 DEF NextAttempt, Polling
  <2>7. CASE GiveUp
    BY <2>7 DEF GiveUp, Return, Polling
  <2>8. ASSUME NEW f \in Func, Decompile(f) PROVE TextInv'
    BY <2>8 DEF Decompile, Return
  <2>9. ASSUME NEW f \in Func, UserOpens(f) PROVE TextInv'
    BY <2>9 DEF UserOpens, FreeTabs
  <2>10. ASSUME NEW f \in Func, NEW n \in Name, Rename(f, n) PROVE TextInv'
    BY <2>10 DEF Rename
  <2>11. ASSUME NEW x \in late, Land(x) PROVE TextInv'
    BY <2>11 DEF Land, OpenTabs
  <2>12. CASE UNCHANGED decompileVars
    BY <2>12 DEF decompileVars
  <2> QED
    BY <2>1, <2>2, <2>3, <2>4, <2>5, <2>6, <2>7, <2>8, <2>9,
       <2>10, <2>11, <2>12 DEF DecompileNext, Tool
<1>b. TabInv'
  <2> USE <1>t, TextsAreText, NotText DEF DecompileInv, DecompileTypeOK, TabInv, OpenTabs, doc
  <2>1. CASE CloseTabs
    BY <2>1 DEF CloseTabs, OpenTabs
  <2>2. CASE Act
    BY <2>2, ClosedIsNoOther DEF Act, FreeTabs, OpenTabs
  <2>3. CASE ActFails
    BY <2>3 DEF ActFails, Return
  <2>4. CASE Found
    BY <2>4 DEF Found, Return, Polling
  <2>5. CASE NextTab
    BY <2>5 DEF NextTab, Polling
  <2>6. CASE NextAttempt
    BY <2>6 DEF NextAttempt, Polling
  <2>7. CASE GiveUp
    BY <2>7 DEF GiveUp, Return, Polling
  <2>8. ASSUME NEW f \in Func, Decompile(f) PROVE TabInv'
    BY <2>8 DEF Decompile, Return
  <2>9. ASSUME NEW f \in Func, UserOpens(f) PROVE TabInv'
    BY <2>9 DEF UserOpens, FreeTabs, OpenTabs
  <2>10. ASSUME NEW f \in Func, NEW n \in Name, Rename(f, n) PROVE TabInv'
    BY <2>10 DEF Rename
  <2>11. ASSUME NEW x \in late, Land(x) PROVE TabInv'
    BY <2>11, ClosedIsNoOther DEF Land, OpenTabs
  <2>12. CASE UNCHANGED decompileVars
    BY <2>12 DEF decompileVars
  <2> QED
    BY <2>1, <2>2, <2>3, <2>4, <2>5, <2>6, <2>7, <2>8, <2>9,
       <2>10, <2>11, <2>12 DEF DecompileNext, Tool
<1>c. PollInv'
  <2> USE <1>t, Bounds DEF DecompileInv, DecompileTypeOK, PollInv, Tab, doc, IsOf
  <2>1. CASE CloseTabs
    BY <2>1 DEF CloseTabs
  <2>2. CASE Act
    BY <2>2 DEF Act, FreeTabs
  <2>3. CASE ActFails
    BY <2>3 DEF ActFails, Return
  <2>4. CASE Found
    BY <2>4 DEF Found, Return, Polling
  <2>5. CASE NextTab
    BY <2>5, OwnIsAccepted DEF NextTab, Polling
  <2>6. CASE NextAttempt
    BY <2>6 DEF NextAttempt, Polling
  <2>7. CASE GiveUp
    BY <2>7 DEF GiveUp, Return, Polling
  <2>8. ASSUME NEW f \in Func, Decompile(f) PROVE PollInv'
    BY <2>8 DEF Decompile, Return
  <2>9. ASSUME NEW f \in Func, UserOpens(f) PROVE PollInv'
    BY <2>9 DEF UserOpens, FreeTabs
  <2>10. ASSUME NEW f \in Func, NEW n \in Name, Rename(f, n) PROVE PollInv'
    BY <2>10 DEF Rename
  <2>11. ASSUME NEW x \in late, Land(x) PROVE PollInv'
    BY <2>11 DEF Land, OpenTabs
  <2>12. CASE UNCHANGED decompileVars
    BY <2>12 DEF decompileVars
  <2> QED
    BY <2>1, <2>2, <2>3, <2>4, <2>5, <2>6, <2>7, <2>8, <2>9,
       <2>10, <2>11, <2>12 DEF DecompileNext, Tool
<1> QED BY <1>t, <1>a, <1>b, <1>c DEF DecompileInv

\* The invariant holds before the first call, and so always.
LEMMA DecompileInvInit == DecompileInit => DecompileInv
<1> SUFFICES ASSUME DecompileInit PROVE DecompileInv
  OBVIOUS
<1>1. DecompileTypeOK
  <2>1. tab \in [Tab -> Shown] /\ answer \in AnswerKind
    BY ShownKinds DEF DecompileInit
  <2>2. name \in [Func -> Name] /\ used \in [Func -> SUBSET Name]
    BY DecompileAssumption DEF DecompileInit
  <2>3. /\ attempt \in 0 .. MaxAttempts /\ at \in 1 .. LastTab + 1
        /\ calls \in 0 .. MaxCalls /\ edits \in 0 .. MaxEdits
    BY Bounds DEF DecompileInit
  <2> QED BY <2>1, <2>2, <2>3 DEF DecompileInit, DecompileTypeOK
<1>2. TextInv
  BY NotText, DecompileAssumption DEF DecompileInit, TextInv
<1> QED BY <1>1, <1>2 DEF DecompileInit, DecompileInv, TabInv, PollInv

\* The invariant always holds.
LEMMA DecompileInvCorrect == DecompileSpec => []DecompileInv
BY DecompileInvInit, DecompileStep, PTL DEF DecompileSpec

\* A poll ends with an accepted text or with a failure, after the last tab.
LEMMA PollEnds ==
    ASSUME DecompileInv, [DecompileNext]_decompileVars, stage = "poll", stage' = "idle"
    PROVE  /\ req \in Func
           /\ \/ Accepts(tab[at]) /\ tab[at] \in Text /\ Declared(tab[at]) /\ answer' = tab[at]
              \/ at > LastTab /\ answer' = Error("not_found")
<1> USE DEF DecompileInv, PollInv
<1>1. req \in Func
  OBVIOUS
<1>2. Found \/ GiveUp
  BY DEF DecompileNext, Tool, CloseTabs, Act, ActFails, NextTab, NextAttempt, Decompile,
         UserOpens, Rename, Land, decompileVars
<1>3. CASE Found
  <2>1. at \in Tab /\ Accepts(tab[at]) /\ answer' = tab[at]
    BY <1>3 DEF Found, Return, Tab, DecompileTypeOK
  <2>2. tab[at] \in Text
    BY <1>1, <2>1, AcceptedIsText
  <2> QED BY <1>1, <2>1, <2>2 DEF TextInv
<1>4. CASE GiveUp
  BY <1>1, <1>4 DEF GiveUp, Return
<1> QED BY <1>2, <1>3, <1>4

-----------------------------------------------------------------------------
\* Tabs, texts and polls stay within their kinds and bounds.
THEOREM DecompileTypeCorrect == DecompileSpec => []DecompileTypeOK
<1>1. DecompileInv => DecompileTypeOK
  BY DEF DecompileInv
<1> QED BY <1>1, DecompileInvCorrect, PTL

\* While the tool polls there is one tab, its own, however earlier calls ended.
THEOREM TabsDoNotPileUpAlways == DecompileSpec => []TabsDoNotPileUp
<1>1. DecompileInv => TabsDoNotPileUp
  BY FS_Singleton DEF DecompileInv, TabInv, TabsDoNotPileUp
<1> QED BY <1>1, DecompileInvCorrect, PTL

\* Among any number of functions, whatever calls what and whatever lands when,
\* a text that is returned is of the function asked for if names tell it apart.
THEOREM AnswerIsRequestedAlways == DecompileSpec => AnswerIsRequested
<1>1. DecompileInv /\ [DecompileNext]_decompileVars =>
        [stage = "poll" /\ stage' = "idle" /\ Unambiguous => answer'.func \in {req, NoFunc}]_decompileVars
  <2> SUFFICES ASSUME DecompileInv, [DecompileNext]_decompileVars, stage = "poll", stage' = "idle", Unambiguous
               PROVE  answer'.func \in {req, NoFunc}
    OBVIOUS
  <2>1. CASE Accepts(tab[at]) /\ tab[at] \in Text /\ Declared(tab[at]) /\ answer' = tab[at]
    BY <2>1, PollEnds, AcceptedIsRequested DEF DecompileInv
  <2>2. CASE answer' = Error("not_found")
    BY <2>2 DEF Error
  <2> QED BY <2>1, <2>2, PollEnds
<1> QED BY <1>1, DecompileInvCorrect, PTL DEF DecompileSpec, AnswerIsRequested

\* The tool does not fail while its function is shown under its present name.
THEOREM ShownIsFoundAlways == DecompileSpec => ShownIsFound
<1>1. DecompileInv /\ [DecompileNext]_decompileVars =>
        [(stage = "poll" /\ stage' = "idle" /\ steady) => answer'.func # NoFunc]_decompileVars
  <2> SUFFICES ASSUME DecompileInv, [DecompileNext]_decompileVars, stage = "poll", stage' = "idle", steady
               PROVE  answer'.func # NoFunc
    OBVIOUS
  <2>1. at <= LastTab
    BY Bounds DEF DecompileInv, PollInv, DecompileTypeOK, Tab
  <2>2. tab[at] \in Text /\ answer' = tab[at]
    BY <2>1, PollEnds, Bounds DEF DecompileInv, DecompileTypeOK
  <2> QED BY <2>2, DecompileAssumption DEF Text
<1> QED BY <1>1, DecompileInvCorrect, PTL DEF DecompileSpec, ShownIsFound
=============================================================================
