# Verification of IDA Free MCP

TLA+ models of the IDA Free MCP plugin, model-checked with TLC, and theorems about them proved with
TLAPS. All paths are relative to the repository (`src/server.cpp` is the plugin's own code,
`deps/httplib.h` a vendored library).

Contents: [the system](#1-the-system) · [the modules](#2-the-modules) · [the runs](#3-the-runs) ·
[fairness](#4-fairness) · [what is proved](#5-what-is-proved) ·
[known disagreements](#6-known-disagreements) · [what is not modelled](#7-what-is-not-modelled) ·
[plan](#8-plan)

## 1. The system

The plugin runs an HTTP server inside IDA, through which language models call 37 tools on the open
database. Four kinds of threads meet in it:

* the **IDA main thread**: the user toggles the plugin (`McpPlugmod::run`), which starts or stops the
  server, and every tool runs here;
* the **server thread** spawned by `McpHttpServer::start`, in httplib's accept loop;
* **pool workers** of httplib, each serving one connection at a time; tools are marshalled to the main
  thread with `execute_sync`, and the worker waits;
* **clients**, the user, and on IDA Free the cloud decompiler, which delivers its output when it likes.

Several IDA processes of one user also share the directory `~/.ida-mcp/instances`.

| Component | State it keeps | Operations | Hard behaviour | What makes it correct |
|---|---|---|---|---|
| Plugin (`plugin.cpp`) | `protocol`, `http_server`, the instance file | load, toggle, unload | objects destroyed while workers use them; stop and start in any order; failed binds | nothing outlives stop; an instance file means a served port |
| HTTP server (`server.cpp`, `httplib.h`) | `running_`, `server_thread_`, `sse_connections_`, the socket, job queue and pool | start, stop, accept, serve, stream | stop racing the start of the accept loop, accept errors, streams that occupy workers, join cycles | stop ends; streams are reachable; no thread destroyed joinable |
| Marshalling (`sync.cpp`) | promise and future per request, IDA's request queue | `execute_on_main_thread` | time-out racing execution; closures over a caller's stack | each call runs at most once and its caller gets its outcome |
| Instance registry (`plugin.cpp`) | one file per process, the bound port | search a port, write, remove, clean up | crashes anywhere, unlocked shared directory, pid reuse, file errors nobody looks at | what a server has written stays, crashes are cleaned up |
| JSON-RPC and MCP (`jsonrpc.cpp`, `mcp.cpp`) | `protocol_version_`, pending requests | dispatch, initialize, tools/call, cancel | workers share one object; notifications; errors on every path | every request gets exactly its own reply |
| Output cache (`mcp.cpp`) | `output_cache_`, `download_base_url_`, the id generator | store, evict, download | unsynchronised generator and URL, eviction at the limit | links lead to their own output |
| callgraph (`analysis.cpp`) | queue, nodes, edges, flags | breadth-first walk under four limits | partial graphs, cycles, a scan that returns to the same instruction | an unflagged graph is the whole graph; it ends |
| Editing tools (`modify.cpp`, `memory.cpp`, `stack.cpp`, `types.cpp`) | the database | batches of comments, renames, patches, integers, functions, code, stack variables and types | items that fail or throw half way, items that depend on earlier ones, lists given as text | the answer accounts for every change |
| Reading tools (`analysis.cpp`, `core.cpp`, `utils.cpp`) | offset, limit, total of a call | pages with a cursor; tools with a limit that answer once (`xrefs_to`, `callees`, `export_funcs`) | argument corrections, off-by-one at the page's end | a client that follows the cursor reads all, once, and is told when it does not |
| Queries (`core.cpp`, `types.cpp`, `memory.cpp`, `resources.cpp`) | none: the database, and what the client was told by a listing | `list_*`, `imports`, `search_structs`; `lookup_funcs`, `get_global_value`, `read_struct`, resources by name | every one resolves names its own way | a filter keeps what it says; what is listed is found by its name |
| Helpers (`utils.cpp`, `core.cpp`, `mcp.cpp`) | none | glob and regex filters, `int_convert`, `truncate_value` | backtracking, widths and signs, recursion limits | the text, bytes or preview is true of its input |
| decompile (`decompiler.cpp`) | pseudocode tabs of the user interface | close, F5, poll | late output of other calls, renames, tabs running out | the text returned is of the function asked for |
| Dialogs, `stack_frame`, tables of resources | a hook; the database | single reads | see section 7 | |

How they interact: workers call into one shared `McpProtocol`; a tool call crosses to the main thread
and back; `stop()` runs on the main thread and waits for the workers; the server's port reaches the
links of the output cache and the instance file only after the server has begun to answer.

## 2. The modules

| Module | Models | Extends / composed with |
|---|---|---|
| `RpcService` | abstract: what `execute_on_main_thread` promises its callers | implemented by `ServerLifecycle` |
| `ServerLifecycle` | main thread, server thread, pool workers, streams, marshalling, object lifetimes | refines `RpcService` |
| `ServerLifecycle_proofs` | its theorems and those of `InstanceRegistry` | |
| `ToolOutput` | output ids, cache, links, base URL | |
| `ToolOutput_proofs` | its theorems | |
| `McpHttp` | routes, JSON-RPC dispatch, MCP methods with shared state, cancellation, SSE posts | |
| `McpHttp_proofs` | its theorems and those of `Decompile` | |
| `InstanceRegistry` | processes, ports, instance files, crashes | |
| `CallGraph` | `tool_callgraph` | |
| `CallGraph_proofs` | its theorems | |
| `Numbers` | integers as bytes, as the memory tools and `int_convert` take them apart | |
| `Numbers_proofs` | the laws of powers and bytes, and what a recursive function over the naturals is | |
| `EditHandlers` | what one item of each editing tool does to the database | extends `Numbers` |
| `EditBatch` | the batches: lists and their texts, the loops, what throws, the answer | extends `EditHandlers` |
| `EditBatch_proofs` | its theorems | |
| `Reading` | abstract: what reading a long result promises a client | implemented by `Paging` |
| `Paging` | the cursors of all paging tools, `utils::paginate`, tools that answer once | refines `Reading` |
| `Paging_proofs` | its theorems | |
| `TextTools` | `glob_match`, `pattern_filter`, `int_convert`, `truncate_value` as operators | extends `Numbers` |
| `Queries` | the tools and resources that list and that answer by name, `tools/call` with its preview | extends `TextTools` |
| `Queries_proofs` | its theorems | |
| `Decompile` | `tool_decompile` and the asynchronous decompiler | |
| `MC*` | bounds, inputs and symmetries for TLC | extend their module |

An action is one step that other actors can see: up to a lock, a wait, a system call or a hand-over
between threads. Variables carry the source's names where TLA+ allows it.

**ServerLifecycle.** A worker is named by the connection it serves. `conn[c]` says how far it is:
in the kernel's backlog, in httplib's job queue, in a handler (`serving`), inside `execute_sync`
(`sync`), at the future (`wait`), in keep-alive (`kept`), in the content provider of an SSE stream
(`stream`) or its releaser (`release`). `main` says what the main thread does: `StopBegin`,
`StopCloseSse`, `StopSocket` and `StopJoin` are the four parts of `McpHttpServer::stop`, between which
workers and the server thread run; `RunStart`, `BindOk`/`BindFail` and `StartReturn` are
`run()` with `start()`. `execute_on_main_thread` is `Submit` (build the request, call `execute_sync`),
`ExecBegin`/`ExecEnd` on the main thread, `SyncReturn` or `SyncRefused`, and `FutureReady` or
`FutureTimeout`. `Faults` says what the environment may do: `accept()` failing for good
(`listen_error`), a server thread later than the 100 ms sleep in `start()` (`slow_listen`),
`execute_sync` returning without running the request (`refuse`). Destroying a joinable
`std::thread` ends in `main = "aborted"`.

**RpcService.** A request is pending, executing, finished, delivered; one executes at a time; only a
request that has not begun may be given up. The mapping `CallOf` derives this state from where the
worker is, from `current` and from the promise.

**ToolOutput.** A large result draws an id (`DrawBegin`, `DrawEnd`: the static generator of
`uuid_v4` is read and written back without a lock, so overlapping draws may coincide), is stored
(`CacheOutput`, atomic under `cache_mutex_`; the victim is *any* entry, since `begin()` of an
`unordered_map` is), and announced (`AddDownloadInfo`). `SetDownloadBaseUrl` is the end of `run()`.

**McpHttp.** `Body` describes what dispatch distinguishes in a request: is it JSON, an object, of
version 2.0, with which method, with or without an id, well-formed for its handler, and whether its
texts and the tool's are UTF-8. The last matters because nlohmann's `dump()` throws on a text that is
not, and the place where it throws decides what the client gets: for a method that is logged
(`log_calls`; `tools/call` is not by default, `src/jsonrpc.cpp:71`) the first `dump()` is inside the
`try` and becomes an INTERNAL_ERROR reply, otherwise it is the one that serialises the response.
A result that the preview cuts within a character ("split") is such a text. `PostMcp` writes the
shared `protocol_version_`; `Answer` runs the method; `Finish` sends.

**InstanceRegistry.** `phase[p]` walks through `run()`: `cleanup`/`remove` (the check of a pid and
the removal of its file are two steps), `bind`, `open`/`write` (the file is created, then written),
`serving`, `unpublish`. `Crash` happens anywhere; `Boot` gives out any pid no living process has.
Every file operation may fail, and as in the code nothing follows from it: the directory cannot be
opened (`RunBegin`), the file cannot be created (`OpenFails`: no `HOME`, `create_directories`, the stream,
`src/plugin.cpp:68`, `:72`, `:82`) or written (`WriteFails`, also an IDB path that `dump()` refuses), or it
cannot be removed (`Remove`). A process without `HOME` is one for which they all fail. The history
variables `written` and `kept` record what has succeeded for a server and what could not be removed.
`ServerLifecycle`'s `published` is the announcement itself, whatever became of the file.

**CallGraph.** One action per path through the scan of an instruction; `Dequeue` takes the next
function, `AtCall` looks at the instruction the scan is at, and the actions after it are the
outcomes: seen before, over the per-function limit, over the edge or node limit, an edge to a known
or to a new node. A capped scan looks at the same instruction again, as the code does.

**EditHandlers** has one operator per kind of item: from the item and the database to success or
failure and the database after it. The database has bytes, comments, names, functions, types of
addresses, declared types, instruction and data items, and the frame of each function with its return
address, saved registers and arguments. Items carry what the handlers can trip over: an address that
does not parse or is no string, an invalid name, an instruction that does not assemble, data whose
second byte is no hex digit, a declaration that does not parse, an end before its start. Integers are
byte sequences in base `Base`, with width, sign and byte order. `ItemOf(tool)` is what an item of each tool
may hold; it is what the theorems take for the input of a batch.

**EditBatch.** `Submit` is the normalisation of the list (`normalize_dict_list`, or
`normalize_list_input`, which splits a text at its commas); `Item` handles the next item on the
database the items before it have left; `Abort` is an exception that leaves the tool; `Answer` sends.
`rename` walks its four sections in the code's order.

**Reading.** The result, what the client has of it, and what it has been told: that there is more,
that it has all, or that the rest was cut. Only the last page may be empty.

**Paging.** `hits` is what the search would meet; a page restarts the search and skips `offset`
reportable hits. The tools differ only where the code does: corrections of offset and limit, what is
counted, what is reported once, when `more` is set, the cursor, 32-bit sums. Tools without a cursor
(`OnePage`) answer once.

**TextTools.** Texts are sequences of characters. `GlobRound` is a round of `glob_match`'s loop, with
the star it goes back to, and `glob_match` takes as many rounds as the loop can make; a regex is a literal, since of `std::regex` the code decides only which patterns are
one, whether they are valid and whether case counts. Numbers have `Word` bytes of `Base` values, so that
`stoll`'s bounds and the extension of the sign are within reach. A value of JSON is a number, a string
of some length, an array or an object.

**Queries.** A behaviour is a listing and a question, or a question alone: the client asks about a name
it was just told, or with a text of its own. Each tool's way from a text to an address is kept apart:
`HexAddress`, `SubAddress` (the `sub_` prefix that `lookup_funcs` takes for an address), `NameAddress`,
`PlainAddress`, and the path parameter of a resource, which ends at a slash.

**Decompile.** The tabs `Pseudocode-A..Z`, texts reduced to the function they were made from, the
name their declaration line declares, and the names in their body. `line_declares_exact_name`
(`src/utils.cpp:316`) takes every whole identifier in front of a `(`, and `:` ends an identifier: the
constant `InFrontOfParen` says what it finds in a line besides the name declared there, `bar` in
`Foo::bar(` for one. `Act` is F5: IDA Pro fills the tab at
once, on IDA Free the output is under way and may land whole, as a banner only, late in the tab of
another call, or never. Method A is `read_pseudocode_via_vdui`, method B the declaration line.

## 3. The runs

Each run answers one question. All bounds are in the `.cfg` files; TLC explores every instance
completely.

| Run | Question | Properties | Instance, and why it is enough |
|---|---|---|---|
| `lifecycle_threads` | Can starts, stops and unloads leave something behind, and do callers get what `RpcService` promises? | `QuietWhenStopped`, `EveryStreamIsReachable`, `AbortOnlyAfterListenError`, `AdvertisedIsServed`, `NoDanglingRequest`, `NoUseAfterFree`, `ImplementsRpc` | every fault; 2 callers, so that one executes while the other queues, a local client, 2 streams, 3 workers: workers are scarce, two streams can straddle the sweep |
| `lifecycle_progress` | What can hold up a stop or a call? | `StopBlockedOnlyByCalls`, `CallServedUnlessStopping` | 2 callers, 1 stream, 2 workers: one worker is left for calls, as the second property requires |
| `finding_stop_hangs` | Does stop return? (violated) | `StopReturns` | one caller suffices |
| `output_cache` | Do links lead to their own output? | `TypeOK`, `DownloadIsOwn`, `LinksWorkUntilFull` | 3 workers, 4 results, a cache of 2: evictions with a third worker between drawing and storing; draws overlap |
| `http_dispatch` | Is every request answered as JSON-RPC demands? | `RepliesConform`, `VersionIsOfOwnRequest` | every kind of body on 2 workers, with a session and cancellations of each other's requests, calls logged and not |
| `registry` | Do the files tell the truth about the servers? | `ServingIsAdvertised`, `CleanupIsThorough`, `IdleIsUnadvertised` | 3 processes, so that two clean up and start beside what a third has left, or get its pid; 3 pids; crashes anywhere and file operations that fail anywhere; 2 ports, one taken |
| `finding_shared_port` | Do two instances get different ports? (violated) | `PortsDistinct` | 2 servers at least |
| `callgraph` | Is the graph what it claims to be? | `TypeOK`, `UnflaggedIsWhole`, `DepthIsDistance`, `EdgesMeetNodes`, `WalkEnds` | every program of 4 functions (two calls in the root, one elsewhere) and an import; requests that end the walk in each way, one of them with values that must be corrected |
| `edits` | Does the answer account for the changes? | `TypeOK`, `AnswerAccountsForChanges`, `NamesStayUnique`, `PutIntReadsBack`, `OnlyTheNamedIsDeleted` | batches of up to three items of each tool; 4 addresses, one unmapped; three names, so that renames can chain and swap; 1- and 2-byte integers; frames of 6 bytes with two variables, a gap, return address and argument, so that a wrong length of a deletion meets a neighbour |
| `paging` | Does a client that follows the cursor read everything once, and is it told so? | `TypeOK`, `PagesAreFull`, `TotalIsWhole`, `ImplementsReading`, `ReadingEnds` | all results of up to 4 hits, each of which may match or not, and repeat; pages of 1, 2 and 3; negative, zero, too large and largest arguments, and offsets beyond the end; every tool but `export_funcs` (section 6) |
| `decompile` | Is the answer of the function asked for? | `TabsDoNotPileUp`, `AnswerIsRequested`, `ShownIsFound`, `EveryCallIsAnswered` | a caller and its callee, so that the caller's text contains the callee's name; 2 calls, so that the first one's output can land in the second; 3 tabs, 2 polls, 2 renames or user tabs; the caller is a method `Foo::bar` with a mangled name, and functions are renamed to `bar` and `_bar`, so that names tell functions apart or do not |
| `queries` | Do filters, names, bytes and previews mean what they say? | `FilterIsExact`, `ListedIsFound`, `BytesAreTheNumber`, `PreviewIsTrue` | all patterns of up to 3 characters of `a`, `b`, `*`, `?`, and longer ones that must go back twice, against 8 names; 2 functions, a global, 3 imports (one by ordinal), 2 entries, 3 types; all numbers of a word of two bytes of four values, and one beyond; results nested three deep, previews two |

Deadlock is not checked where the system really stops: a stop that waits for ever or an aborted
process (`lifecycle_*`), the bound on calls (`output_cache`, `decompile`), all processes dead
(`registry`), one call per behaviour (`edits`), a listing and a question (`queries`). The other runs
check it.

Where the code's promise ends, the property names the exception:

* `DownloadIsOwn` and `LinksWorkUntilFull` exempt ids drawn while two workers were inside `uuid_v4`
  (history variable `raced`); the properties of `InstanceRegistry` exempt pids that more than one
  process has had (`Reused`).
* `ServingIsAdvertised` is about servers whose own file has been written (`written`): one that could not
  create or write it serves unadvertised. `CleanupIsThorough` and `IdleIsUnadvertised` exempt files that
  could not be removed (`kept`), and a cleanup that cannot open the directory cleans nothing up.
* `AbortOnlyAfterListenError` and `AdvertisedIsServed` say in their formula what an `accept()` that has
  failed for good may cause.
* `RepliesConform` leaves out `Unanswerable` requests, whose reply cannot be serialised.
* `AnswerAccountsForChanges` exempts the bytes a failed `patch_asm` leaves and the types a failed
  `declare_type` has declared. It counts a range of `undefine` that wraps around as asked for.
* `Paging`'s properties hold for `Sane` arguments: none that is negative where the tool does not correct
  it, and no sum of an offset and a limit beyond `INT_MAX`. A count of 0 asks `paginate` for the whole size,
  so a list with count 0 and a far offset overflows too; and later pages stay sane only if twice the
  largest offset fits, which every result that fits into memory satisfies.
* `AnswerIsRequested` holds while names tell functions apart (`Unambiguous`): no line printed for another
  function, under any name it has had, declares in the eyes of the tool a name it looks for. That
  excludes `_bar` beside `bar`, overloads of one C++ function, and, for a function `bar`, every method
  `Foo::bar`.
* `ListedIsFound` leaves out names that do not fit into the call (`Nameable`): names that
  `lookup_funcs` takes for an address (`Misread`), empty ones, and those with a slash in a resource.

## 4. Fairness

* `ServerLifecycle`: each thread runs its own code (weak fairness per worker, for the server thread and
  for the main thread once it is in a handler). Strong fairness on `Take`, `KeepAliveEnd` and
  `ExecBegin` stands for the FIFO order of httplib's `jobs_` and IDA's request queue, and for httplib's
  `keep_alive_max_count`, which ends a connection however busy its client is. Users, clients and faults
  need not act: an accept error never *has* to happen, nor does anyone have to stop the server. In
  particular no fairness makes the main thread leave `StopJoin` for a tool call.
* `CallGraph`, `Paging`, `Decompile`: the tool runs on. In `Decompile` the output need never land, and
  in `Paging` the client follows the cursor.
* The others state safety only.

## 5. What is proved

TLAPS proves these for every value of the constants, from the named assumptions on the constants alone
(types, disjointness, `PoolSize` and tab numbers positive).

**ServerLifecycle_proofs** — any number of connections and workers, any faults. `TypeCorrect`;
`NoDanglingRequestAlways`, `NoUseAfterFreeAlways`, `QuietWhenStoppedAlways`,
`EveryStreamIsReachableAlways`; `AbortOnlyAfterListenErrorAlways`, `AdvertisedIsServedAlways`;
`RpcImplemented` (every step is a step of `RpcService` or stutters).
The inductive invariant `Inv` adds what the safety properties do not say by themselves: which objects
exist for each position of the main thread (`MainConsistent`); that the objects outlive the server thread
and the server thread outlives the work of its pool (`Lifetimes`, which is what makes joining in
`stop()` sufficient); that a request is in one place only and has no outcome before it has run
(`FreshRequests`, without which the refinement mapping would jump); that sessions belong to workers.

**ServerLifecycle_proofs, second part** — `InstanceRegistry` with any number of processes, pids and
ports, as theorems of `RegistrySpec`. `ServingIsAdvertisedAlways`, `CleanupIsThoroughAlways`,
`IdleIsUnadvertisedAlways`, whatever file operations fail. The key of the invariant is `WriterInv`: a
file about to be removed is named after a *dead* process, so if a living one has that pid the pid has
been given out twice. `CleanupInv` says that a stale file is still in the list, about to be removed, not
removable, or of a reused pid. `ReusedStep`: once reused, always reused.

**McpHttp_proofs, second part** — `Decompile` with any functions, names, call relation, tabs, polls and
calls, as theorems of `DecompileSpec`, for every `InFrontOfParen` that finds a name in its own line.
`TabsDoNotPileUpAlways`, `AnswerIsRequestedAlways`, `ShownIsFoundAlways`. `TextInv` says that every
text, shown or under way, is declared by a name its function has had; `AcceptedIsRequested` is the
heart: what the tool accepts by a declaration line cannot be of another function while names are
unambiguous. `PollInv` says that a text shown during the whole poll is in a tab not yet passed.

**ToolOutput_proofs** — any number of workers, results and cache entries. `TypeCorrect`,
`DownloadIsOwnAlways`, `LinksWorkUntilFullAlways`. The generator never runs ahead of the calls, because
every position read belongs to a call that still has to draw (`CountInv`; it also bounds the ids). An id
drawn while nobody else was in the generator is behind it and behind every position about to be written
back (`FreshInv`), hence new, hence held for one call only (`OwnInv`). `StoredInv` counts: a cache that has
not been full has evicted nothing.

**McpHttp_proofs** — any workers, sessions and ids; assumed is only that the mark `Absent` is none of the
ids, codes and methods. `TypeCorrect`, `RepliesConformAlways`, `VersionIsOfOwnRequestAlways`. `ReplyInv`
says that a reply is determined by the body its worker serves, although the other workers write to the
same `McpProtocol`; `VersionInv` that no POST reaches the line that would set the version of the SSE
transport, as no path carries a session.

**CallGraph_proofs** — any program and any limits. `TypeCorrect`, `EdgesMeetNodesAlways`,
`DepthIsDistanceAlways`, `UnflaggedIsWholeAlways`. `QueueInv` is the reason for a queue: it is sorted by
depth and holds at most two depths, so a node is met first along a shortest path. `ScanInv` says which
calls have been handled, up to the instruction under the cursor; `CompleteUpTo` turns that into
completeness level by level. `Within` is a recursive function over the naturals; its equation is proved
from the choice of a least counterexample (`Least`, by the well-founded order of the naturals).

**Paging_proofs** — results of any length, any offset and page size, assuming what `PagingAssumption`
says of the machine's `int` (hits and the limits of the tools fit). `TypeCorrect`, `PagesAreFullAlways`,
`TotalIsWholeAlways`, and `ReadingImplemented`: every step of every tool but `export_funcs` (section 6)
is a step of `Reading` or stutters. `Expected` selects the k-th reportable hit by counting; `ScanInv`
relates the page under construction to it, half way through a search, and `SessionInv` carries the sum
that must not overflow from one call of the client to the next.

**EditBatch_proofs** — databases, batches, frames and integers of any size. `TypeCorrect`,
`NamesStayUniqueAlways`, `AnswerAccountsForChangesAlways`, `OnlyTheNamedIsDeletedAlways`. `Effect` says what
one item may have changed and of what it must then report; it holds of every handler (one lemma each,
joined in `OutcomeEffect`), which is where the order of check and change inside the handlers matters: a
handler that fails late has to have changed nothing. The invariant relates the database, half way
through the batch, to the one before it and to the items done so far (`AccountInv`), and the items to
come to those walked (`RunInv`).
`BatchAssumption` says that the databases calls find are well-formed and that batches hold items of
their tool. It speaks of the list after normalisation (`Walked`), because the filter of
`normalize_dict_list` is a `SelectSeq`, of which the prover knows nothing; TLC evaluates the
assumption for all batches of the run.

`PutIntReadsBackAlways`: what `put_int` reports as written is what `get_int` of the same type reads there,
for words and types of any width, either byte order, signed or not. It rests on `Numbers_proofs`.

**Numbers_proofs** — a byte has any even number of values (`BaseAssumption`). A recursive function has to be
shown to exist before its equation can be used: `Iterate` builds it from one step, over sets of naturals
(`Least`, `Induction`), since no prover here takes a predicate as a parameter. From there come the laws of
powers (`PowDef`, `PowEven`), that the bytes of a number, put together again, are the number modulo its
width (`NumberOfItsBytes`), and that above a word there are only the bytes of the sign (`BytesAbove`).

**Queries_proofs** — databases, filters, texts, numbers and results of any size.

* `BytesAreTheNumberAlways`, for words of any width: a readable text holds a number between the bounds of
  the word (`NumberFits`), of its magnitude there is exactly one number of bytes (`BytesForDef`), and the
  bytes, extended by the sign, are those of the number (`ReadBackwards`).
* `PreviewIsTrueAlways`, for any nesting: what a preview shows so many levels down is a copy of the whole,
  shortened the remaining levels (`ShownAreCopies`), and one shortened value stands for its own
  (`ShortenedStandsFor`). The equation of `truncate_value` is proved (`TruncatedDef`).
* `ListedIsFoundAlways`: `NamedInv` relates the listing and the answer to the database, each to the part it
  is of, so that a name that was listed is one the tool asked next has. For functions this needs that no
  other function covers the address (`FunctionFound`), for imports that the first of a name is on the page
  when any is.
* `FilterIsExactAlways`: `pattern_filter` keeps the names that `Wanted` wants (`KeepsWanted`), and the
  page is the beginning of what it keeps. Its heart is `GlobMatchIsExact`. `glob_match` goes back to the
  last star only and never to one before it; the invariant `GlobInv` of its loop says why that is enough:
  the pattern matches the text if and only if the rest matches the rest, or what follows the last star
  matches from a later place than the one tried. When a new star is met the second case can be dropped,
  since whatever a later attempt reached from there, the new star reaches too (`MatchSegment`,
  `MatchStars`). That the loop ends within `Rounds` follows from a weight that every round raises
  (`Weight`, `WeightBound`).

Assumed of the database (`DatabaseAssumption`): functions do not overlap and bear the names of their
addresses, names are unique, and none holds a star or begins with the digit 0, as IDA demands. Without the
last two a text with a star would defeat the loop (section 6), and `0x1` could be a name. Of letters it is
assumed that a star is none (`TextToolsAssumption`), of results that they are made of numbers, texts,
arrays and objects (`ValueAssumption`), of inputs only their types (`FilterAssumption`,
`CallAssumption`). TLC evaluates all of them on the run's instance.

Only model-checked are the liveness properties: `StopBlockedOnlyByCalls`, `CallServedUnlessStopping`,
`WalkEnds`, `ReadingEnds`, `EveryCallIsAnswered`. The prover handles neither fairness nor `ENABLED`. Every
invariant, action property and refinement of the passing runs is also a theorem.

## 6. Known disagreements

Two runs are expected to fail, and listed as findings:

* **`finding_stop_hangs`**: `stop()` on the main thread joins the pool (`src/server.cpp:181`); a worker
  inside `execute_sync` waits for the main thread. `README.md:12` "Press **Ctrl+Alt+M** again to stop".
* **`finding_shared_port`**: httplib's default socket options let a second process bind a port that
  is listened on (`deps/httplib.h:2058`), so the port does not auto-increment between instances
  (`README.md:35`).

The following are shown by further configurations, which can be run by hand with
`tlc -config X.cfg M`; each must report a violation (in `queries.cfg`, put the property named here in
the place of its INVARIANTS):

| Configuration, module | Property | What happens |
|---|---|---|
| `finding_call_hangs`, `MCServerLifecycle` | `CallReturns` | the time-out of `src/sync.cpp:66` bounds only the wait after `execute_sync`, which may never return (`src/sync.h:39` "Blocks until completion or timeout.") |
| `finding_lost_stop`, `MCServerLifecycle` | `StopReturns` | a server thread later than the sleep at `src/server.cpp:153` misses httplib's `stop()`, and the join never ends |
| `finding_abort`, `MCServerLifecycle` | `NoAbort` | after `accept()` has failed for good, `stop()` returns early at `src/server.cpp:163` and a joinable thread is destroyed |
| `finding_eviction`, `MCToolOutput` | `EvictsOldest` | `src/mcp.cpp:410` "Evict oldest entry" erases an arbitrary one |
| `finding_env_url`, `MCToolOutput` | `UrlIsFromEnv` | `run()` overrides `IDA_MCP_URL` (`src/plugin.cpp:192`) |
| `finding_default_port`, `MCToolOutput` | `LinkHasActualPort` | a call answered before `set_download_base_url` gets the default port |
| `finding_cancel`, `MCMcpHttp` | `CancelledIsAnswered` | nothing registers pending requests, so a cancellation finds none (`src/mcp.cpp:173`) |
| `finding_utf8_cut`, `MCMcpHttp` | `EveryCallIsReplied` | a preview cut within a character of UTF-8 (`src/mcp.cpp:343`) cannot be serialised, `dump()` throws past the handler (`src/server.cpp:270`), and the client gets no JSON-RPC response |
| `finding_decl_commas`, `MCEditBatch` | `ValidDeclarationsSucceed` | `declare_type` splits a text at its commas, those within a declaration too (`src/tools/types.cpp:30`) |
| `finding_export_cut`, `MCPaging` | `ImplementsReading` | `export_funcs` stops at its limit and says nothing of the rest (`src/tools/analysis.cpp:778`) |
| `finding_listed_not_found`, `MCQueries` | `ListedIsAlwaysFound` | a function called `sub_` and hexadecimal digits is looked up at that address (`src/tools/core.cpp:226`); a name with a slash does not fit into a resource's path (`src/mcp.cpp:256`) |
| `finding_auto_size`, `MCQueries` | `BytesReadBackSigned` | the size chosen for a number is that of its magnitude, without room for the sign (`src/tools/core.cpp:72`) |
| `queries`, `MCQueries` | `ValuesAreOfTheStruct` | `read_struct` finds the struct a pointer points to and reads its members at the pointer itself (`src/tools/types.cpp:87`) |
| `queries`, `MCQueries` | `ReplyIsLimited` | the text content of a reply is the whole result, only the structured content is shortened (`src/mcp.cpp:181`) |
| `finding_silent_write`, `MCInstanceRegistry` | `ServerIsAdvertised` | `write_instance_file` cannot create its file and returns silently (`src/plugin.cpp:68`, `:72`, `:82`); `run()` returns true and the server serves unadvertised, against `README.md:35` "Each instance writes its port, PID, and IDB path" |
| `finding_other_method`, `MCDecompile` | `AnswerNeverOfAnother` | asked for a function `bar`, `decompile` returns the output of the method `Foo::bar` when that is what the tab shows: `bar(` stands in its declaration line as a whole identifier (`src/utils.cpp:316`) |
| `finding_sse_post`, `MCMcpHttp` | `AnnouncedEndpointAccepts` | the announced SSE endpoint carries its session in the query, which `src/server.cpp:337` looks for in the path |

Visible in the models without a configuration of their own:

* two overlapping draws give one output id, and one client downloads the other's output (the ids in
  `raced`, `src/mcp.cpp:16`);
* a pid given out between `is_pid_alive` and `fs::remove` costs a live server its file
  (`src/plugin.cpp:108`), and the file of a crashed session is kept once its pid is in use;
* two functions whose prototypes print one name are confused by `decompile` on IDA Free: call a function
  `bar`, have another one `_bar`, and let the output for `_bar` land late (drop `Unambiguous`; the same
  with two overloads, and with a method `Foo::bar` as in `finding_other_method`);
* an item with an `addr` that is no string aborts the batch and loses the results of the items that
  have taken effect (`Abort` in `EditBatch`);
* `patch_asm` reports an item as failed although its first instructions have been patched;
* `undefine` with an end before its start asks for a count that has wrapped around (`Wraps`);
* `lookup_funcs` answers `*` with the first 1000 functions and does not say that it has cut the rest
  (`AllCap`); `int_convert` and `get_global_value` read the numeric prefix of a text and ignore what
  follows, and a negative size makes `int_convert` throw;
* `glob_match` tries a literal before the star, so a text that itself contains a `*` would consume the
  pattern's star; no name contains one. `src/utils.h:77` calls the function case-insensitive, which
  only its caller makes it;
* offsets count matches from the start of the database, so an edit between two pages moves them
  (`src/tools/analysis.cpp:407`; in `Paging` the database rests while a client reads);
* `patch` reports success for addresses without bytes; a byte order of "Be" is read as little-endian;
* `put_int` cannot write an unsigned 64-bit value above `INT64_MAX`, which `get_int` returns
  (`src/tools/memory.cpp:428`);
* `paginate` with a negative offset, or with an offset and a count whose sum exceeds `INT_MAX`, reaches a
  negative index or returns a negative `next_offset` (`src/utils.cpp:156`, the arguments outside `Sane`).

## 7. What is not modelled

* `deps/`: only what the code depends on is modelled, from its use: httplib's accept loop, job queue,
  keep-alive, stop and socket options. TLS, parsing and compression are not.
* The IDA SDK: databases, names and the decompiler appear as the tools observe them.
* `tools/list`, `resources/list` and the resources `metadata`, `segments`, `cursor`, `selection`, `types`
  and `xrefs/from`: they enumerate a constant table or copy data out of the database. So do
  `stack_frame`, `get_bytes`, `get_string` and `xrefs_to_field`. They are marshalled like every tool.
* Exceptions of `std::filesystem` while a cleanup walks the directory, which leave `run()` before the
  server has started (`src/plugin.cpp:101`), and entries of the directory that are not named after a pid.
* Dialog suppression: a reference count that a UI hook reads to dismiss dialogs during searches.
* Comments and variables of the decompiler, which `set_comments` and `rename` also set where Hex-Rays is
  present; `hexrays_diag` and `debug_mode`, which report and log.
* CORS headers (no state depends on them; `is_cors_allowed` never accepts `http://[::1]:port`), the
  `?ext=` of the routes (`req.path` has no query, so the code never sees one), logging but for its
  effect on replies, wording and layout of texts, `std::regex` beyond literals, the build.

## 8. Plan

Done: the core (threads, marshalling, output, dispatch, registry), the tools with control of their own,
the editing tools with their batches, reading and querying, previews, filters and conversions; theorems
for every invariant, action property and refinement that a run checks, in every module with states.
What would come next, in this order:

1. An abstract specification of a transactional batch, and the tools of `EditBatch` that implement it;
   its step is `Effect` in `EditBatch_proofs`.
2. The composition of `ToolOutput` with `ServerLifecycle`'s start, so that the base URL is set where
   `run()` sets it, across restarts of the server.
