------------------------------- MODULE McpHttp -------------------------------
(***************************************************************************)
(* The HTTP routes that carry JSON-RPC (server.cpp setup_routes), the      *)
(* dispatch of a request (jsonrpc.cpp) and the protocol methods (mcp.cpp), *)
(* run by several workers at once over one McpProtocol.                    *)
(*                                                                         *)
(* A body is what dispatch tells apart: whether it is UTF-8, JSON and an   *)
(* object, and its jsonrpc, method, id and params members; a params object *)
(* names the request a cancellation is about.  The result of a tool is     *)
(* "split" when its preview ends inside a character of several bytes.      *)
(***************************************************************************)
EXTENDS Integers

CONSTANTS
    Worker,     \* pool workers
    Session,    \* sessions that GET /sse may open
    RequestId,  \* JSON-RPC ids
    Absent      \* a member that is not there

ParseError == -32700
InvalidRequest == -32600
MethodNotFound == -32601
InternalError == -32603
RequestCancelled == -32800

Method == {"ping", "initialize", "tools/call", "notifications/cancelled", "other"}

Object == [json : {"object"},
           version : {"2.0", "other"},
           method : Method \cup {Absent, "nonstring"},
           id : RequestId \cup {Absent},
           params : {Absent, "object"},
           about : RequestId \cup {Absent},
           result : {"plain", "split"}]

\* A body without members.
Bare(json) == [json |-> json, version |-> "other", method |-> Absent, id |-> Absent,
               params |-> Absent, about |-> Absent, result |-> "plain"]

Body == {b \in Object :
            /\ b.about # Absent <=>
                  b.method = "notifications/cancelled" /\ b.params = "object"
            /\ b.result = "split" => b.method = "tools/call" /\ b.params = "object"}
        \cup {Bare(json) : json \in {"badutf8", "garbage", "nonobject"}}

Code == {0, ParseError, InvalidRequest, MethodNotFound, InternalError,
         RequestCancelled}

\* A member that is not there is told from every value it could have.
ASSUME McpHttpAssumption ==
    /\ Absent \notin RequestId
    /\ Absent \notin Code
    /\ Absent \notin Method \cup {"nonstring", "object"}

\* A reply: HTTP status, and the JSON-RPC response unless code is Absent; code
\* 0 is a result.  version is the protocolVersion of an initialize result.
Reply(status, code, id, version) ==
    [status |-> status, code |-> code, id |-> id, version |-> version]

NoReply == Reply(0, Absent, Absent, Absent)

-----------------------------------------------------------------------------
(* JsonRpcRegistry                                                          *)

\* dispatch and the first half of dispatch_parsed: the codes a body is refused
\* with before its method is looked up, none when it is valid.
Refusal(b) ==
    IF b.json \in {"badutf8", "garbage"} THEN {ParseError}
    ELSE IF \/ b.json = "nonobject"
            \/ b.version # "2.0"
            \/ b.method \in {Absent, "nonstring"}
         THEN {InvalidRequest}
         ELSE {}

\* The code an exception from call() is answered with.
CodeOf == [value |-> 0, unknown |-> MethodNotFound, cancelled |-> RequestCancelled,
           exception |-> InternalError]

\* response->dump() throws on text that is not UTF-8: the message of a parse
\* error quotes the bytes it stopped at, and substr() cuts a preview between the
\* bytes of a character.  httplib then answers 500 without a body.
Serialisable(b, outcome) ==
    /\ b.json # "badutf8"
    /\ outcome = "value" => b.result = "plain"

NotSerialised == Reply(500, Absent, Absent, Absent)

\* Mutant: the errors of notifications are answered.
HttpReply_LoudNotification(b, outcome, version) ==
    IF b.id = Absent /\ outcome = "value"
    THEN Reply(202, Absent, Absent, Absent)
    ELSE Reply(200, CodeOf[outcome], b.id, version)

\* The second half, and the route's answer: a request without an id gets no
\* response, whatever happened.
HttpReply(b, outcome, version) ==
    IF b.id = Absent
    THEN Reply(202, Absent, Absent, Absent)
    ELSE IF Serialisable(b, outcome) THEN Reply(200, CodeOf[outcome], b.id, version)
    ELSE NotSerialised

\* How call() and the logging of its result end.  params.value() throws on
\* anything but an object, and so does result.dump() in a log of tool calls, if
\* there is one; a failing tool is a result with isError, not an exception.
Outcome(b, logged) ==
    CASE b.method = "other" -> "unknown"
      [] b.method \in {"tools/call", "notifications/cancelled"}
         /\ b.params # "object" -> "exception"
      [] b.result = "split" /\ logged -> "exception"
      [] OTHER -> "value"

-----------------------------------------------------------------------------

VARIABLES
    phase,      \* phase[w]: "idle", "call" inside a method, "answered"
    body,       \* body[w]: the request w serves
    reply,      \* reply[w]: its answer
    told,       \* workers whose running request a client has asked to cancel
    protocolVersion,  \* protocol_version_, shared by all workers
    log_calls,  \* whether tools/call is logged, which it is not by default
    announced,  \* sessions whose "event: endpoint" has been sent
    posted      \* statuses of POSTs to announced endpoints

vars == <<phase, body, reply, told, protocolVersion, log_calls, announced, posted>>

NoBody == Bare("garbage")

TypeOK ==
    /\ phase \in [Worker -> {"idle", "call", "answered"}]
    /\ \A w \in Worker : body[w] \in Body \cup {NoBody}
    /\ \A w \in Worker : reply[w].status \in {0, 200, 202, 413, 500}
                         /\ reply[w].code \in Code \cup {Absent}
    /\ told \subseteq Worker
    /\ protocolVersion \in {"2025-06-18", "2024-11-05"}
    /\ log_calls \in BOOLEAN
    /\ announced \subseteq Session
    /\ posted \subseteq {202, 400}

Init ==
    /\ phase = [w \in Worker |-> "idle"]
    /\ body = [w \in Worker |-> NoBody]
    /\ reply = [w \in Worker |-> NoReply]
    /\ told = {}
    /\ protocolVersion = "2025-06-18"
    /\ log_calls \in BOOLEAN
    /\ announced = {}
    /\ posted = {}

\* POST /mcp up to the method call: the shared members are set "for the current
\* request" and the body is validated.
PostMcp(w, b) ==
    /\ phase[w] = "idle"
    /\ body' = [body EXCEPT ![w] = b]
    /\ protocolVersion' = "2025-06-18"
    /\ IF Refusal(b) # {}
       THEN /\ phase' = [phase EXCEPT ![w] = "answered"]
            /\ \E code \in Refusal(b) :
                  reply' = [reply EXCEPT ![w] =
                              IF Serialisable(b, "refused") THEN Reply(200, code, Absent, Absent)
                              ELSE NotSerialised]
       ELSE /\ phase' = [phase EXCEPT ![w] = "call"]
            /\ UNCHANGED reply
    /\ UNCHANGED <<log_calls, told, announced, posted>>

\* A body above 10 MB is refused before anything else.
PostTooLarge(w) ==
    /\ phase[w] = "idle"
    /\ phase' = [phase EXCEPT ![w] = "answered"]
    /\ reply' = [reply EXCEPT ![w] = Reply(413, Absent, Absent, Absent)]
    /\ UNCHANGED <<log_calls, body, told, protocolVersion, announced, posted>>

\* The requests a cancellation names: those running under that id.
Named(i) == {v \in Worker : phase[v] = "call" /\ body[v].id = i}

\* The method runs and the response is sent.  No method registers its request,
\* so cancel_request finds nothing and sets no flag; initialize reads the shared
\* version.
Answer(w) ==
    /\ phase[w] = "call"
    /\ phase' = [phase EXCEPT ![w] = "answered"]
    /\ LET b == body[w]
           version == IF b.method = "initialize" THEN protocolVersion ELSE Absent
       IN  /\ reply' = [reply EXCEPT ![w] = HttpReply(b, Outcome(b, log_calls), version)]
           /\ told' = IF b.method = "notifications/cancelled" /\ b.params = "object"
                      THEN told \cup (Named(b.about) \ {w})
                      ELSE told
    /\ UNCHANGED <<log_calls, body, protocolVersion, announced, posted>>

\* The worker is free again.
Finish(w) ==
    /\ phase[w] = "answered"
    /\ phase' = [phase EXCEPT ![w] = "idle"]
    /\ body' = [body EXCEPT ![w] = NoBody]
    /\ reply' = [reply EXCEPT ![w] = NoReply]
    /\ told' = told \ {w}
    /\ UNCHANGED <<log_calls, protocolVersion, announced, posted>>

\* GET /sse tells the client where to post.
Endpoint(s) == [path |-> "/sse", query |-> s]

GetSse(s) ==
    /\ s \notin announced
    /\ announced' = announced \cup {s}
    /\ UNCHANGED <<log_calls, phase, body, reply, told, protocolVersion, posted>>

\* Mutant: the query is looked for where it is, so that the handler goes on.
ReqPath_Whole(target) == target

\* httplib keeps the part before the '?' in req.path.
ReqPath(target) == [target EXCEPT !.query = Absent]

extract_query_string(path) == path.query

\* POST to an announced endpoint.
PostSse(s) ==
    /\ s \in announced
    /\ IF extract_query_string(ReqPath(Endpoint(s))) = Absent
       THEN /\ posted' = posted \cup {400}
            /\ UNCHANGED protocolVersion
       ELSE /\ posted' = posted \cup {202}
            /\ protocolVersion' = "2024-11-05"
    /\ UNCHANGED <<log_calls, phase, body, reply, told, announced>>

Next ==
    \/ \E w \in Worker : \/ \E b \in Body : PostMcp(w, b)
                         \/ PostTooLarge(w) \/ Answer(w) \/ Finish(w)
    \/ \E s \in Session : GetSse(s) \/ PostSse(s)

Spec == Init /\ [][Next]_vars

-----------------------------------------------------------------------------

\* Requests whose answer cannot be serialised.
Unanswerable(b) ==
    \/ b.json = "badutf8"
    \/ b.result = "split" /\ Refusal(b) = {} /\ b.id # Absent /\ ~log_calls

(***************************************************************************)
(* jsonrpc.h:79 "Returns the response JSON, or std::nullopt for            *)
(* notifications": a well-formed request with an id gets one response with *)
(* that id, a notification gets an empty 202 even if it failed, and what   *)
(* could not be understood gets an error without id.  Replies that cannot  *)
(* be serialised are left to EveryCallIsReplied.                           *)
(***************************************************************************)
RepliesConform ==
    \A w \in Worker :
        phase[w] = "answered" /\ reply[w].status # 413 /\ ~Unanswerable(body[w]) =>
        LET b == body[w]
            r == reply[w]
            understood == /\ b.json = "object" /\ b.version = "2.0"
                          /\ b.method \in Method
        IN  CASE ~understood -> /\ r.status = 200 /\ r.id = Absent
                                /\ r.code \in {ParseError, InvalidRequest}
              [] understood /\ b.id = Absent -> r.status = 202 /\ r.code = Absent
              [] OTHER -> /\ r.status = 200 /\ r.id = b.id
                          /\ r.code \notin {Absent, ParseError, InvalidRequest}
                          /\ r.code = MethodNotFound <=> b.method = "other"

(***************************************************************************)
(* jsonrpc.h:79 without the exception: every request that is not a         *)
(* notification gets a JSON-RPC response.  A request that is not UTF-8 and *)
(* a result whose preview was cut inside a character get none.             *)
(***************************************************************************)
EveryCallIsReplied ==
    \A w \in Worker : phase[w] = "answered" => reply[w].status # 500

(***************************************************************************)
(* initialize reads a member that every POST writes; the version a client  *)
(* gets is that of its own transport all the same.                         *)
(***************************************************************************)
VersionIsOfOwnRequest ==
    \A w \in Worker :
        phase[w] = "answered" /\ body[w].method = "initialize" /\ reply[w].code = 0 =>
            reply[w].version = "2025-06-18"

(***************************************************************************)
(* README.md:91 "with timeout and cancellation support": a request that a  *)
(* client asked to cancel while it ran ends as cancelled.                  *)
(***************************************************************************)
CancelledIsAnswered ==
    \A w \in told : phase[w] = "answered" => reply[w].code = RequestCancelled

(***************************************************************************)
(* server.cpp:298 announces "/sse?session=" and the session's id as the    *)
(* endpoint of the SSE transport: posting there is accepted.               *)
(***************************************************************************)
AnnouncedEndpointAccepts == 400 \notin posted
=============================================================================
