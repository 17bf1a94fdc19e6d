--------------------------- MODULE ServerLifecycle ---------------------------
(***************************************************************************)
(* The threads of the plugin: the IDA main thread, which starts and stops  *)
(* the server (plugin.cpp) and runs every tool (sync.cpp); the server      *)
(* thread, which accepts connections (server.cpp, httplib.h); and a pool   *)
(* of PoolSize workers, each serving one connection at a time.             *)
(*                                                                         *)
(* A worker is named by the connection it serves.  A connection of Tool    *)
(* sends POST /mcp requests whose handler needs the main thread, one of    *)
(* Local sends requests a worker answers alone (ping, tools/list,          *)
(* GET /output, ...), one of Stream opens GET /sse.                        *)
(***************************************************************************)
EXTENDS Naturals, FiniteSets

CONSTANTS
    Tool, Local, Stream,   \* the connections, by what they ask for
    None,                  \* no connection
    PoolSize,              \* workers in httplib's pool: max(8, cores - 1)
    Faults                 \* what the environment may do, a subset of AllFaults

(***************************************************************************)
(* "listen_error": accept() fails for good, e.g. with ECONNABORTED.        *)
(* "slow_listen":  the 100 ms sleep in start() ends before the server      *)
(*                 thread has entered its accept loop.                     *)
(* "refuse":       execute_sync returns without having run the request.    *)
(***************************************************************************)
AllFaults == {"listen_error", "slow_listen", "refuse"}

Conn == Tool \cup Local \cup Stream

ASSUME ConnAssumption ==
    /\ None \notin Conn
    /\ Tool \cap Local = {} /\ Tool \cap Stream = {} /\ Local \cap Stream = {}
ASSUME PoolAssumption == PoolSize \in Nat \ {0}
ASSUME FaultsAssumption == Faults \subseteq AllFaults

VARIABLES
    main,        \* what the IDA main thread is doing
    unloading,   \* stop() was called by ~McpPlugmod, not by run()
    current,     \* the connection whose request the main thread executes
    queue,       \* requests handed to execute_sync that have not begun
    protocol,    \* McpPlugmod::protocol is not null
    httpServer,  \* McpPlugmod::http_server is not null
    published,   \* run() has announced the server and nothing has withdrawn it
                 \* (that the file operations may fail is in InstanceRegistry)
    running,     \* McpHttpServer::running_
    thread,      \* the server thread; "none" when server_thread_ is not joinable
    sock,        \* the listening socket
    conn,        \* conn[c]: how far the worker that serves c has come
    promise,     \* promise[c]: state of the promise in c's SyncRequest
    answer,      \* answer[c]: how execute_on_main_thread ended for c last
    sse,         \* keys of sse_connections_
    alive        \* streams whose SseConnection::alive is true

mainVars == <<main, unloading, current>>
pluginVars == <<protocol, httpServer, published>>
serverVars == <<running, thread, sock>>
syncVars == <<queue, promise, answer>>
sseVars == <<sse, alive>>
vars == <<mainVars, pluginVars, serverVars, syncVars, sseVars, conn>>

MainState == {"ui", "exec", "binding", "starting", "stopSse", "stopSocket",
              "join", "gone", "aborted"}
ThreadState == {"none", "spawned", "listening", "draining", "returned", "ended"}
ConnState == {"idle", "backlog", "job", "serving", "sync", "wait", "kept",
              "stream", "release"}

\* The connections a pool worker is busy with.
Held == {c \in Conn :
            conn[c] \in {"serving", "sync", "wait", "kept", "stream", "release"}}
Jobs == {c \in Conn : conn[c] = "job"}

\* The main thread is inside stop().
Stopping == main \in {"stopSse", "stopSocket", "join"}

TypeOK ==
    /\ main \in MainState
    /\ unloading \in BOOLEAN
    /\ current \in Tool \cup {None}
    /\ queue \subseteq Tool
    /\ protocol \in BOOLEAN
    /\ httpServer \in BOOLEAN
    /\ published \in BOOLEAN
    /\ running \in BOOLEAN
    /\ thread \in ThreadState
    /\ sock \in {"none", "open", "closed"}
    /\ conn \in [Conn -> ConnState]
    /\ promise \in [Tool -> {"unset", "value", "exception"}]
    /\ answer \in [Tool -> {"none", "value", "exception", "timeout"}]
    /\ sse \subseteq Stream
    /\ alive \subseteq Stream

Init ==
    /\ main = "ui"
    /\ unloading = FALSE
    /\ current = None
    /\ queue = {}
    /\ protocol = FALSE
    /\ httpServer = FALSE
    /\ published = FALSE
    /\ running = FALSE
    /\ thread = "none"
    /\ sock = "none"
    /\ conn = [c \in Conn |-> "idle"]
    /\ promise = [c \in Tool |-> "unset"]
    /\ answer = [c \in Tool |-> "none"]
    /\ sse = {}
    /\ alive = {}

\* Connections still in the kernel's backlog are reset when the socket closes.
ResetBacklog(f) == [c \in Conn |-> IF f[c] = "backlog" THEN "idle" ELSE f[c]]

\* Destroying a joinable std::thread calls std::terminate, which takes IDA down;
\* what the other threads still do in an aborted process is of no interest.
Abort ==
    /\ main' = "aborted"
    /\ UNCHANGED <<unloading, current, pluginVars, serverVars, syncVars,
                   sseVars, conn>>

-----------------------------------------------------------------------------
(* The IDA main thread: McpPlugmod and McpHttpServer::start / stop          *)

\* run() when no server is running: protocol and http_server are replaced.
\* The destructor of the old server calls stop(), which returns at once since
\* running_ is false, and then destroys server_thread_.
RunStart ==
    /\ main = "ui"
    /\ ~(httpServer /\ running)
    /\ IF thread # "none"
       THEN Abort
       ELSE /\ main' = "binding"
            /\ protocol' = TRUE
            /\ httpServer' = TRUE
            /\ UNCHANGED <<unloading, current, published, serverVars, syncVars,
                           sseVars, conn>>

\* start() bound a port and spawned the server thread.
BindOk ==
    /\ main = "binding"
    /\ main' = "starting"
    /\ running' = TRUE
    /\ thread' = "spawned"
    /\ sock' = "open"
    /\ UNCHANGED <<unloading, current, pluginVars, syncVars, sseVars, conn>>

\* Every port of the range was taken: start() returns false and run() resets
\* what it had created.
BindFail ==
    /\ main = "binding"
    /\ main' = "ui"
    /\ httpServer' = FALSE
    /\ protocol' = FALSE
    /\ UNCHANGED <<unloading, current, published, serverVars, syncVars,
                   sseVars, conn>>

\* start() returns running_ after its sleep.  On success run() publishes the
\* port; on failure it destroys the server without having joined its thread.
StartReturn ==
    /\ main = "starting"
    /\ thread = "spawned" => "slow_listen" \in Faults
    /\ IF running
       THEN /\ main' = "ui"
            /\ published' = TRUE
            /\ UNCHANGED <<unloading, current, protocol, httpServer, serverVars,
                           syncVars, sseVars, conn>>
       ELSE Abort

\* Mutant: running_ is cleared only at the end of stop().
StopBegin_LateFlag(unload) ==
    /\ main = "ui"
    /\ httpServer /\ running
    /\ unloading' = unload
    /\ main' = "stopSse"
    /\ UNCHANGED <<current, pluginVars, serverVars, syncVars, sseVars, conn>>

\* stop() begins: from run() as the toggle, or from ~McpPlugmod.
StopBegin(unload) ==
    /\ main = "ui"
    /\ httpServer /\ running
    /\ running' = FALSE
    /\ unloading' = unload
    /\ main' = "stopSse"
    /\ UNCHANGED <<current, pluginVars, thread, sock, syncVars, sseVars, conn>>

\* The block under sse_mutex_.
StopCloseSse ==
    /\ main = "stopSse"
    /\ alive' = alive \ sse
    /\ sse' = {}
    /\ main' = "stopSocket"
    /\ UNCHANGED <<unloading, current, pluginVars, serverVars, syncVars, conn>>

\* httplib::Server::stop() closes the socket only if the accept loop has been
\* entered; otherwise the call is lost.
StopSocket ==
    /\ main = "stopSocket"
    /\ main' = "join"
    /\ IF thread \in {"listening", "draining"}
       THEN /\ sock' = "closed"
            /\ conn' = ResetBacklog(conn)
       ELSE UNCHANGED <<sock, conn>>
    /\ UNCHANGED <<unloading, current, pluginVars, running, thread, syncVars,
                   sseVars>>

\* Mutant: stop() does not wait for the server thread (detach instead of join).
StopJoin_Detached ==
    /\ main = "join"
    /\ thread' = "none"
    /\ sock' = "none"
    /\ httpServer' = FALSE
    /\ protocol' = FALSE
    /\ published' = FALSE
    /\ main' = IF unloading THEN "gone" ELSE "ui"
    /\ unloading' = FALSE
    /\ UNCHANGED <<current, running, syncVars, sseVars, conn>>

\* Mutant: stop() returns with server_thread_ still joinable.
StopJoin_Unjoined ==
    /\ main = "join"
    /\ thread = "ended"
    /\ sock' = "none"
    /\ httpServer' = FALSE
    /\ protocol' = FALSE
    /\ published' = FALSE
    /\ main' = IF unloading THEN "gone" ELSE "ui"
    /\ unloading' = FALSE
    /\ UNCHANGED <<current, running, thread, syncVars, sseVars, conn>>

\* Mutant: run() forgets remove_instance_file() when it toggles off.
StopJoin_KeepsFile ==
    /\ main = "join"
    /\ thread = "ended"
    /\ thread' = "none"
    /\ sock' = "none"
    /\ httpServer' = FALSE
    /\ protocol' = FALSE
    /\ main' = IF unloading THEN "gone" ELSE "ui"
    /\ unloading' = FALSE
    /\ UNCHANGED <<current, published, running, syncVars, sseVars, conn>>

\* server_thread_.join() returns; the caller destroys server and protocol and
\* removes the instance file.
StopJoin ==
    /\ main = "join"
    /\ thread = "ended"
    /\ thread' = "none"
    /\ sock' = "none"
    /\ httpServer' = FALSE
    /\ protocol' = FALSE
    /\ published' = FALSE
    /\ main' = IF unloading THEN "gone" ELSE "ui"
    /\ unloading' = FALSE
    /\ UNCHANGED <<current, running, syncVars, sseVars, conn>>

\* ~McpPlugmod with no running server.
Unload ==
    /\ main = "ui"
    /\ ~(httpServer /\ running)
    /\ IF thread # "none"
       THEN Abort
       ELSE /\ main' = "gone"
            /\ published' = FALSE
            /\ httpServer' = FALSE
            /\ protocol' = FALSE
            /\ UNCHANGED <<unloading, current, serverVars, syncVars, sseVars, conn>>

\* init() for the next database.
Load ==
    /\ main = "gone"
    /\ main' = "ui"
    /\ UNCHANGED <<unloading, current, pluginVars, serverVars, syncVars,
                   sseVars, conn>>

\* The event loop takes a request; closures and arguments of the waiting
\* worker are used by reference from here to ExecEnd.
ExecBegin(c) ==
    /\ main = "ui"
    /\ c \in queue
    /\ queue' = queue \ {c}
    /\ current' = c
    /\ main' = "exec"
    /\ UNCHANGED <<unloading, pluginVars, serverVars, promise, answer, sseVars,
                   conn>>

\* SyncRequest::execute() has stored the result or the exception.
ExecEnd ==
    /\ main = "exec"
    /\ \E o \in {"value", "exception"} :
          promise' = [promise EXCEPT ![current] = o]
    /\ current' = None
    /\ main' = "ui"
    /\ UNCHANGED <<unloading, pluginVars, serverVars, queue, answer, sseVars, conn>>

-----------------------------------------------------------------------------
(* The server thread: listen_after_bind()                                   *)

ListenBegin ==
    /\ thread = "spawned"
    /\ thread' = "listening"
    /\ UNCHANGED <<mainVars, pluginVars, running, sock, syncVars, sseVars, conn>>

Accept(c) ==
    /\ thread = "listening"
    /\ sock = "open"
    /\ conn[c] = "backlog"
    /\ conn' = [conn EXCEPT ![c] = "job"]
    /\ UNCHANGED <<mainVars, pluginVars, serverVars, syncVars, sseVars>>

\* The loop ends: stop() closed the socket, or accept() failed and the loop
\* closes it.  The task queue is then told to shut down.
ListenEnd ==
    /\ thread = "listening"
    /\ sock = "closed" \/ "listen_error" \in Faults
    /\ thread' = "draining"
    /\ sock' = "closed"
    /\ conn' = ResetBacklog(conn)
    /\ UNCHANGED <<mainVars, pluginVars, running, syncVars, sseVars>>

\* TaskQueue::shutdown() has joined every worker: a worker leaves once the
\* job queue is empty.
PoolJoined ==
    /\ thread = "draining"
    /\ Held = {} /\ Jobs = {}
    /\ thread' = "returned"
    /\ UNCHANGED <<mainVars, pluginVars, running, sock, syncVars, sseVars, conn>>

\* The lambda's last statement.
ThreadEnd ==
    /\ thread = "returned"
    /\ thread' = "ended"
    /\ running' = FALSE
    /\ UNCHANGED <<mainVars, pluginVars, sock, syncVars, sseVars, conn>>

-----------------------------------------------------------------------------
(* Clients and pool workers                                                 *)

Connect(c) ==
    /\ sock = "open"
    /\ conn[c] = "idle"
    /\ conn' = [conn EXCEPT ![c] = "backlog"]
    /\ UNCHANGED <<mainVars, pluginVars, serverVars, syncVars, sseVars>>

\* Mutant: one worker of the pool never takes a job.
Take_OneShort(c) ==
    /\ conn[c] = "job"
    /\ Cardinality(Held) < PoolSize - 1
    /\ conn' = [conn EXCEPT ![c] = "serving"]
    /\ UNCHANGED <<mainVars, pluginVars, serverVars, syncVars, sseVars>>

\* A free worker takes a job; jobs_ is first in, first out, which the strong
\* fairness of this action stands for.
Take(c) ==
    /\ conn[c] = "job"
    /\ Cardinality(Held) < PoolSize
    /\ conn' = [conn EXCEPT ![c] = "serving"]
    /\ UNCHANGED <<mainVars, pluginVars, serverVars, syncVars, sseVars>>

\* Mutant: the promise of the previous request is used again.
Submit_StalePromise(c) ==
    /\ c \in Tool
    /\ conn[c] = "serving"
    /\ conn' = [conn EXCEPT ![c] = "sync"]
    /\ queue' = queue \cup {c}
    /\ answer' = [answer EXCEPT ![c] = "none"]
    /\ UNCHANGED <<mainVars, pluginVars, serverVars, promise, sseVars>>

\* The handler of a tool or resource calls execute_on_main_thread.
Submit(c) ==
    /\ c \in Tool
    /\ conn[c] = "serving"
    /\ conn' = [conn EXCEPT ![c] = "sync"]
    /\ queue' = queue \cup {c}
    /\ promise' = [promise EXCEPT ![c] = "unset"]
    /\ answer' = [answer EXCEPT ![c] = "none"]
    /\ UNCHANGED <<mainVars, pluginVars, serverVars, sseVars>>

\* Mutant: the request is posted with MFF_NOWAIT.
SyncReturn_NoWait(c) ==
    /\ c \in Tool
    /\ conn[c] = "sync"
    /\ conn' = [conn EXCEPT ![c] = "wait"]
    /\ UNCHANGED <<mainVars, pluginVars, serverVars, syncVars, sseVars>>

\* execute_sync without MFF_NOWAIT returns when the request is no longer
\* pending or executing.
SyncReturn(c) ==
    /\ c \in Tool
    /\ conn[c] = "sync"
    /\ c \notin queue /\ current # c
    /\ conn' = [conn EXCEPT ![c] = "wait"]
    /\ UNCHANGED <<mainVars, pluginVars, serverVars, syncVars, sseVars>>

\* IDA drops the request without running it.
SyncRefused(c) ==
    /\ "refuse" \in Faults
    /\ c \in queue
    /\ queue' = queue \ {c}
    /\ UNCHANGED <<mainVars, pluginVars, serverVars, promise, answer, sseVars, conn>>

\* future.get() returns the value or rethrows the exception.
FutureReady(c) ==
    /\ c \in Tool
    /\ conn[c] = "wait"
    /\ promise[c] # "unset"
    /\ answer' = [answer EXCEPT ![c] = promise[c]]
    /\ conn' = [conn EXCEPT ![c] = "kept"]
    /\ UNCHANGED <<mainVars, pluginVars, serverVars, queue, promise, sseVars>>

\* wait_for() expires: "Tool timed out after ...".
FutureTimeout(c) ==
    /\ c \in Tool
    /\ conn[c] = "wait"
    /\ promise[c] = "unset"
    /\ answer' = [answer EXCEPT ![c] = "timeout"]
    /\ conn' = [conn EXCEPT ![c] = "kept"]
    /\ UNCHANGED <<mainVars, pluginVars, serverVars, queue, promise, sseVars>>

\* A request the worker answers without the main thread.
ServeLocal(c) ==
    /\ c \in Local
    /\ conn[c] = "serving"
    /\ conn' = [conn EXCEPT ![c] = "kept"]
    /\ UNCHANGED <<mainVars, pluginVars, serverVars, syncVars, sseVars>>

\* Keep-alive: the client sends its next request on the same connection.
NextRequest(c) ==
    /\ conn[c] = "kept"
    /\ conn' = [conn EXCEPT ![c] = "serving"]
    /\ UNCHANGED <<mainVars, pluginVars, serverVars, syncVars, sseVars>>

\* Time-out, request limit, closed server socket or departed client.
KeepAliveEnd(c) ==
    /\ conn[c] = "kept"
    /\ conn' = [conn EXCEPT ![c] = "idle"]
    /\ UNCHANGED <<mainVars, pluginVars, serverVars, syncVars, sseVars>>

\* GET /sse enters its session in the map and installs the content provider.
StreamOpen(c) ==
    /\ c \in Stream
    /\ conn[c] = "serving"
    /\ sse' = sse \cup {c}
    /\ alive' = alive \cup {c}
    /\ conn' = [conn EXCEPT ![c] = "stream"]
    /\ UNCHANGED <<mainVars, pluginVars, serverVars, syncVars>>

\* Mutant: the loop looks at alive only.
StreamStop_AliveOnly(c) ==
    /\ conn[c] = "stream"
    /\ c \notin alive
    /\ conn' = [conn EXCEPT ![c] = "release"]
    /\ UNCHANGED <<mainVars, pluginVars, serverVars, syncVars, sseVars>>

\* The provider's loop sees alive or running_ cleared.
StreamStop(c) ==
    /\ conn[c] = "stream"
    /\ c \notin alive \/ ~running
    /\ conn' = [conn EXCEPT ![c] = "release"]
    /\ UNCHANGED <<mainVars, pluginVars, serverVars, syncVars, sseVars>>

\* A ping cannot be written: the client has gone.
StreamBroken(c) ==
    /\ conn[c] = "stream"
    /\ conn' = [conn EXCEPT ![c] = "release"]
    /\ UNCHANGED <<mainVars, pluginVars, serverVars, syncVars, sseVars>>

\* Mutant: the releaser clears alive but leaves the session in the map.
StreamRelease_KeepsSession(c) ==
    /\ conn[c] = "release"
    /\ alive' = alive \ {c}
    /\ conn' = [conn EXCEPT ![c] = "idle"]
    /\ UNCHANGED <<mainVars, pluginVars, serverVars, syncVars, sse>>

\* The resource releaser; the provider returned false, so the connection ends.
StreamRelease(c) ==
    /\ conn[c] = "release"
    /\ alive' = alive \ {c}
    /\ sse' = sse \ {c}
    /\ conn' = [conn EXCEPT ![c] = "idle"]
    /\ UNCHANGED <<mainVars, pluginVars, serverVars, syncVars>>

-----------------------------------------------------------------------------

MainProgress ==
    \/ BindOk \/ BindFail \/ StartReturn
    \/ StopCloseSse \/ StopSocket \/ StopJoin
    \/ ExecEnd

UserStep == RunStart \/ (\E u \in BOOLEAN : StopBegin(u)) \/ Unload \/ Load

ServerThread == ListenBegin \/ ListenEnd \/ PoolJoined \/ ThreadEnd

Worker(c) ==
    \/ Submit(c) \/ SyncReturn(c) \/ FutureReady(c) \/ FutureTimeout(c)
    \/ ServeLocal(c)
    \/ StreamOpen(c) \/ StreamStop(c) \/ StreamRelease(c)

Environment(c) == Connect(c) \/ NextRequest(c) \/ StreamBroken(c) \/ SyncRefused(c)

Next ==
    \/ MainProgress
    \/ UserStep
    \/ ServerThread
    \/ \E c \in Conn : \/ Worker(c) \/ Environment(c)
                       \/ Accept(c) \/ Take(c) \/ KeepAliveEnd(c)
                       \/ ExecBegin(c)

Spec == Init /\ [][Next]_vars

(***************************************************************************)
(* Fairness.  Each thread runs its code; nobody has to use the server.     *)
(* Strong fairness stands for the first-in-first-out order of jobs_ and of *)
(* IDA's request queue, and for keep_alive_max_count, which ends a         *)
(* connection however busy its client keeps it.  A faulty accept() is not  *)
(* something that has to happen.                                           *)
(***************************************************************************)
Fairness ==
    /\ WF_vars(MainProgress)
    /\ WF_vars(ListenBegin \/ (sock = "closed" /\ ListenEnd) \/ PoolJoined \/ ThreadEnd)
    /\ \A c \in Conn :
          /\ WF_vars(Worker(c))
          /\ WF_vars(Accept(c))
          /\ SF_vars(Take(c))
          /\ SF_vars(KeepAliveEnd(c))
          /\ SF_vars(ExecBegin(c))

FairSpec == Spec /\ Fairness

-----------------------------------------------------------------------------
(* Safety                                                                   *)

(***************************************************************************)
(* A request lies in IDA's queue or runs on the main thread only while its *)
(* caller is still inside execute_sync: the closure captures the caller's  *)
(* stack by reference (sync.cpp, mcp.cpp tools_call).                      *)
(***************************************************************************)
NoDanglingRequest ==
    \A c \in Tool : (c \in queue \/ current = c) => conn[c] = "sync"

(***************************************************************************)
(* No worker runs a handler, and no job waits for one, after run() or      *)
(* ~McpPlugmod has destroyed the server or the protocol they refer to.     *)
(***************************************************************************)
NoUseAfterFree == Held \cup Jobs # {} => protocol /\ httpServer

(***************************************************************************)
(* Once stop() has returned nothing of the server is left: no session in   *)
(* the map, no request queued in IDA, no thread, no announced port.        *)
(***************************************************************************)
QuietWhenStopped ==
    main \in {"ui", "gone"} /\ ~httpServer =>
        /\ sse = {} /\ queue = {} /\ Held \cup Jobs = {}
        /\ thread = "none" /\ sock = "none"
        /\ ~running /\ ~published /\ ~protocol

(***************************************************************************)
(* stop() must reach every open stream: through the map, or because the    *)
(* stream's loop will find running_ cleared (a stream can register between *)
(* the sweep of the map and the closing of the socket).                    *)
(***************************************************************************)
EveryStreamIsReachable ==
    \A c \in Stream : conn[c] = "stream" => c \in sse \/ ~running

\* The accept loop has ended by itself: a stop() that has returned leaves no
\* closed socket behind.
ListenFailed == sock = "closed" /\ ~Stopping

(***************************************************************************)
(* No order of start, stop, failed start, unload and reload destroys the   *)
(* std::thread of the server while it is joinable, which would take IDA    *)
(* down, unless accept() has failed for good.                              *)
(***************************************************************************)
AbortOnlyAfterListenError == main = "aborted" => ListenFailed

(***************************************************************************)
(* While the main thread is not starting or stopping the server, one that  *)
(* is announced in the instance file accepts connections; only a failed    *)
(* accept() leaves an announcement behind of one that does not.            *)
(***************************************************************************)
AdvertisedIsServed ==
    published /\ main \in {"ui", "exec"} => (running /\ sock = "open") \/ ListenFailed

(***************************************************************************)
(* The detailed system implements the request service of RpcService.       *)
(***************************************************************************)
CallOf == [c \in Tool |->
             IF current = c THEN "executing"
             ELSE IF conn[c] \notin {"sync", "wait"} THEN "none"
             ELSE IF promise[c] = "unset" THEN "pending" ELSE promise[c]]

Rpc == INSTANCE RpcService WITH Caller <- Tool, call <- CallOf, answer <- answer

ImplementsRpc == Rpc!Spec

-----------------------------------------------------------------------------
(* The inductive invariant behind the safety properties                     *)

\* Where the main thread is determines what it is executing.
MainConsistent ==
    /\ main = "exec" <=> current # None
    /\ main = "binding" => protocol /\ httpServer /\ thread = "none"
    /\ main \in {"starting", "stopSse", "stopSocket", "join"} => thread # "none"
    /\ main \in {"stopSse", "stopSocket", "join"} => ~running
    /\ main = "gone" => ~httpServer

\* The objects outlive the server thread, and the server thread outlives the
\* work of its pool.
Lifetimes ==
    /\ thread # "none" => protocol /\ httpServer
    /\ thread = "none" <=> sock = "none"
    /\ Held \cup Jobs # {} => thread \in {"listening", "draining"}
    /\ running => thread \in {"spawned", "listening", "draining", "returned"}
    /\ main \in {"ui", "gone"} /\ ~httpServer => ~protocol
    /\ published => thread # "none"
    /\ httpServer => main = "binding" \/ thread # "none"

\* A request is in one place at a time, and has no outcome before it has run.
FreshRequests == current \notin queue /\ \A c \in queue : promise[c] = "unset"

SessionsHaveWorkers == \A c \in sse : conn[c] \in {"stream", "release"}

\* An accept loop that ends has closed its socket, and nothing but its end and
\* stop() makes the server idle.
NoSelfStop ==
    /\ main = "aborted" => sock = "closed"
    /\ thread \in {"draining", "returned", "ended"} => sock = "closed"
    /\ thread # "none" => running \/ Stopping \/ sock = "closed"

Inv == /\ TypeOK
       /\ NoDanglingRequest
       /\ FreshRequests
       /\ MainConsistent
       /\ Lifetimes
       /\ SessionsHaveWorkers
       /\ EveryStreamIsReachable
       /\ NoSelfStop

-----------------------------------------------------------------------------
(* Liveness                                                                 *)

(***************************************************************************)
(* stop() joins the pool, so the only thing that can hold it up for ever   *)
(* is a worker that waits for the main thread; streams and kept-alive      *)
(* connections cannot.                                                     *)
(***************************************************************************)
StopBlockedOnlyByCalls ==
    main = "join" ~> (main # "join" \/ \E c \in Tool : conn[c] = "sync")

(***************************************************************************)
(* An accepted tool request is answered unless the server is being         *)
(* stopped, provided the open streams leave a worker free.                 *)
(***************************************************************************)
CallServedUnlessStopping ==
    \A c \in Tool : conn[c] = "job" ~> (conn[c] = "kept" \/ Stopping)

(***************************************************************************)
(* plugin.cpp:218 "term (handled by plugmod_t destructor)": the plugin can *)
(* always be unloaded, that is, no joinable std::thread is ever destroyed. *)
(***************************************************************************)
NoAbort == main # "aborted"

(***************************************************************************)
(* README.md:12 "Press Ctrl+Alt+M again to stop": a stop that has begun   *)
(* ends.                                                                   *)
(***************************************************************************)
StopReturns == Stopping ~> ~Stopping

(***************************************************************************)
(* sync.h:39 "Blocks until completion or timeout.": a call handed to the   *)
(* main thread returns to its worker.                                      *)
(***************************************************************************)
CallReturns == \A c \in Tool : conn[c] = "sync" ~> conn[c] # "sync"
=============================================================================
