------------------------------ MODULE ToolOutput ------------------------------
(***************************************************************************)
(* Large tool results (mcp.cpp): the worker that ran tools/call draws an   *)
(* output id, stores the full result in the output cache, and answers with *)
(* a link built from download_base_url_.  Clients later GET the link.      *)
(* Meanwhile the main thread, in run(), finishes starting the server.      *)
(*                                                                         *)
(* Results below the limit and failed calls answer without touching this   *)
(* state.  A large result is named by the number of its call.              *)
(***************************************************************************)
EXTENDS Naturals, FiniteSets, Sequences, SequencesExt

CONSTANTS
    Worker,        \* pool workers
    CacheMax,      \* OUTPUT_CACHE_MAX_SIZE
    MaxCalls,      \* bound: large results in a behaviour
    UrlFromEnv     \* IDA_MCP_URL is set

ASSUME ToolOutputAssumption ==
    /\ CacheMax \in Nat \ {0}
    /\ MaxCalls \in Nat
    /\ UrlFromEnv \in BOOLEAN

Call == 1 .. MaxCalls
\* The n-th value of the generator; an id is named by the position it was drawn at.
OutputId == 1 .. MaxCalls
Absent == 0

VARIABLES
    calls,     \* number of large results so far
    step,      \* step[w]: where w is in mcp_tools_call
    call,      \* call[w]: the call w works on
    seen,      \* seen[w]: generator position w has read
    rng,       \* position of the static generator in uuid_v4
    racing,    \* workers in uuid_v4 while another one is or has been in it
    raced,     \* history: ids drawn by such workers
    id,        \* id[w]: the id w has drawn
    cache,     \* output_cache_: id -> call, or Absent
    inserted,  \* calls in the order in which they entered the cache
    baseUrl,   \* download_base_url_
    links      \* links clients have received

race == <<racing, raced>>
vars == <<calls, step, call, seen, rng, race, id, cache, inserted, baseUrl, links>>

Url == {"default", "env", "bound"}
Link == [id : OutputId, call : Call, base : Url]

TypeOK ==
    /\ calls \in 0 .. MaxCalls
    /\ step \in [Worker -> {"idle", "draw", "drawing", "store", "link"}]
    /\ call \in [Worker -> 0 .. MaxCalls]
    /\ seen \in [Worker -> 0 .. MaxCalls]
    /\ rng \in 1 .. MaxCalls + 1
    /\ racing \subseteq Worker /\ raced \subseteq OutputId
    /\ id \in [Worker -> 0 .. MaxCalls]
    /\ cache \in [OutputId -> 0 .. MaxCalls]
    /\ inserted \in Seq(Call)
    /\ baseUrl \in Url
    /\ links \subseteq Link

\* The constructor has run and start() has returned; run() has not yet called
\* set_download_base_url.
Init ==
    /\ calls = 0
    /\ step = [w \in Worker |-> "idle"]
    /\ call = [w \in Worker |-> 0]
    /\ seen = [w \in Worker |-> 0]
    /\ rng = 1
    /\ racing = {} /\ raced = {}
    /\ id = [w \in Worker |-> 0]
    /\ cache = [i \in OutputId |-> Absent]
    /\ inserted = <<>>
    /\ baseUrl = IF UrlFromEnv THEN "env" ELSE "default"
    /\ links = {}

Cached == {i \in OutputId : cache[i] # Absent}

\* get_cached_output: what GET /output/{i}.json is answered with, Absent is 404.
get_cached_output(i) == cache[i]

SetDownloadBaseUrl ==
    /\ baseUrl # "bound"
    /\ baseUrl' = "bound"
    /\ UNCHANGED <<calls, step, call, seen, rng, race, id, cache, inserted, links>>

\* Mutant: the answer is built before an id has been drawn.
LargeResult_NoId(w) ==
    /\ step[w] = "idle"
    /\ calls < MaxCalls
    /\ calls' = calls + 1
    /\ call' = [call EXCEPT ![w] = calls + 1]
    /\ step' = [step EXCEPT ![w] = "link"]
    /\ UNCHANGED <<seen, rng, race, id, cache, inserted, baseUrl, links>>

\* A handler has returned a result above OUTPUT_LIMIT_MAX_CHARS.
LargeResult(w) ==
    /\ step[w] = "idle"
    /\ calls < MaxCalls
    /\ calls' = calls + 1
    /\ call' = [call EXCEPT ![w] = calls + 1]
    /\ step' = [step EXCEPT ![w] = "draw"]
    /\ UNCHANGED <<seen, rng, race, id, cache, inserted, baseUrl, links>>

\* uuid_v4 reads the state of its static generator ...
DrawBegin(w) ==
    /\ step[w] = "draw"
    /\ racing' = LET others == {v \in Worker : step[v] = "drawing"}
                 IN  IF others = {} THEN racing ELSE racing \cup others \cup {w}
    /\ seen' = [seen EXCEPT ![w] = rng]
    /\ step' = [step EXCEPT ![w] = "drawing"]
    /\ UNCHANGED <<calls, call, rng, raced, id, cache, inserted, baseUrl, links>>

\* Mutant: the generator is seeded again on every call.
DrawEnd_Reseeded(w) ==
    /\ step[w] = "drawing"
    /\ id' = [id EXCEPT ![w] = seen[w]]
    /\ raced' = IF w \in racing THEN raced \cup {seen[w]} ELSE raced
    /\ racing' = racing \ {w}
    /\ step' = [step EXCEPT ![w] = "store"]
    /\ UNCHANGED <<calls, call, seen, rng, cache, inserted, baseUrl, links>>

\* ... and writes it back advanced, with no lock in between.
DrawEnd(w) ==
    /\ step[w] = "drawing"
    /\ id' = [id EXCEPT ![w] = seen[w]]
    /\ raced' = IF w \in racing THEN raced \cup {seen[w]} ELSE raced
    /\ racing' = racing \ {w}
    /\ rng' = seen[w] + 1
    /\ step' = [step EXCEPT ![w] = "store"]
    /\ UNCHANGED <<calls, call, seen, cache, inserted, baseUrl, links>>

Store(w, without) ==
    /\ cache' = [i \in OutputId |-> IF i = id[w] THEN call[w]
                                    ELSE IF i \in without THEN Absent ELSE cache[i]]
    /\ inserted' = Append(inserted, call[w])
    /\ step' = [step EXCEPT ![w] = "link"]
    /\ UNCHANGED <<calls, call, seen, rng, race, id, baseUrl, links>>

\* Mutant: the cache evicts one entry too early.
CacheOutput_OneUnder(w) ==
    /\ step[w] = "store"
    /\ IF Cardinality(Cached) >= CacheMax - 1
       THEN \E victim \in Cached : Store(w, {victim})
       ELSE Store(w, {})

\* cache_output: begin() of the unordered_map is any of its entries.
CacheOutput(w) ==
    /\ step[w] = "store"
    /\ IF Cardinality(Cached) >= CacheMax
       THEN \E victim \in Cached : Store(w, {victim})
       ELSE Store(w, {})

\* add_download_info, and the response is sent.
AddDownloadInfo(w) ==
    /\ step[w] = "link"
    /\ links' = links \cup {[id |-> id[w], call |-> call[w], base |-> baseUrl]}
    /\ step' = [step EXCEPT ![w] = "idle"]
    /\ UNCHANGED <<calls, call, seen, rng, race, id, cache, inserted, baseUrl>>

Next ==
    \/ SetDownloadBaseUrl
    \/ \E w \in Worker :
          \/ LargeResult(w) \/ DrawBegin(w) \/ DrawEnd(w)
          \/ CacheOutput(w) \/ AddDownloadInfo(w)

Spec == Init /\ [][Next]_vars

-----------------------------------------------------------------------------

(***************************************************************************)
(* A link leads to the output of the call that announced it or, once that  *)
(* has been evicted, to nothing: never to another call's output.  Only the *)
(* ids drawn while two workers were inside uuid_v4 are exempt.             *)
(***************************************************************************)
DownloadIsOwn ==
    \A l \in links : l.id \notin raced => get_cached_output(l.id) \in {Absent, l.call}

(***************************************************************************)
(* A link is dead only if the cache was full at some time since its result *)
(* was stored: as long as no more than CacheMax results have been stored,  *)
(* every link handed out works (but for ids drawn in a race, as above).    *)
(***************************************************************************)
LinksWorkUntilFull ==
    Len(inserted) <= CacheMax =>
        \A l \in links : l.id \notin raced => get_cached_output(l.id) = l.call

\* The entry that has been in the cache longest.
Oldest == LET live == SelectSeq(inserted, LAMBDA n : \E i \in Cached : cache[i] = n)
          IN  Head(live)

(***************************************************************************)
(* mcp.cpp:410 "Evict oldest entry".                                       *)
(***************************************************************************)
EvictsOldest ==
    [][\A i \in Cached : cache'[i] = Absent => cache[i] = Oldest]_vars

(***************************************************************************)
(* README.md:43: IDA_MCP_URL is the "Download base URL for large outputs". *)
(***************************************************************************)
UrlIsFromEnv == UrlFromEnv => \A l \in links : l.base = "env"

(***************************************************************************)
(* mcp.h:122, of the default http://127.0.0.1:13337: "Overridden by plugin *)
(* with actual port".  No link carries the default port, which may belong  *)
(* to another instance.                                                    *)
(***************************************************************************)
LinkHasActualPort == \A l \in links : l.base # "default"
=============================================================================
