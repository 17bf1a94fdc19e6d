------------------------------ MODULE CallGraph ------------------------------
(***************************************************************************)
(* tool_callgraph (analysis.cpp): the breadth-first walk over the calls of *)
(* one root, with its four limits.  The roots of a request are walked one  *)
(* after the other and share nothing.                                      *)
(*                                                                         *)
(* A function is its start address; the code maps every call target to the *)
(* start of the function that holds it, and so does calls, which lists the *)
(* targets of a function's call instructions in address order.  Indirect   *)
(* calls have no target and are left out.                                  *)
(***************************************************************************)
EXTENDS Integers, FiniteSets, Sequences

CONSTANTS
    Func,       \* functions of the database
    External,   \* addresses outside every function, such as import slots
    MaxCalls,   \* bound: MaxCalls[f] call instructions in f
    Root,       \* addresses a client may ask for
    Request,    \* limits a client may ask for
    NodesCap,   \* 100000
    EdgesCap,   \* 200000
    PerFuncCap, \* 5000
    None        \* no function is being scanned

Node == Func \cup External
Limit == [depth : Int, nodes : Int, edges : Int, perFunc : Int]
CallList(f) == UNION {[1 .. n -> Node] : n \in 0 .. MaxCalls[f]}
Program == {c \in [Func -> UNION {CallList(f) : f \in Func}] :
                \A f \in Func : c[f] \in CallList(f)}

ASSUME CallGraphAssumption ==
    /\ Func \cap External = {}
    /\ None \notin Node
    /\ MaxCalls \in [Func -> Nat]
    /\ Root \subseteq Node
    /\ Request \subseteq Limit
    /\ {NodesCap, EdgesCap, PerFuncCap} \subseteq Nat \ {0}

VARIABLES
    calls,      \* calls[f]: the targets of f, in the order of its instructions
    root,       \* the address asked for
    limit,      \* the limits in force
    nodes,      \* node -> depth
    edges,      \* sequence of <<from, to>>
    bfs_queue,  \* nodes to be scanned, with their depth
    cur,        \* <<function, depth>> being scanned, or <<None, 0>>
    at,         \* index of the next call instruction of cur
    seen,       \* seen_targets
    count,      \* edge_count_this_func
    limit_reason,     \* "none" unless truncated
    per_func_capped,
    phase       \* "start", "walk", "done" or "error"

scan == <<cur, at, seen, count>>
input == <<calls, root, limit>>
vars == <<calls, root, limit, nodes, edges, bfs_queue, cur, at, seen, count,
          limit_reason, per_func_capped, phase>>

\* The limits put in place of what the client asked for.
Clamped(n, cap) == IF n <= 0 \/ n > cap THEN cap ELSE n
InForce(r) ==
    [depth   |-> IF r.depth <= 0 THEN 1 ELSE r.depth,
     nodes   |-> Clamped(r.nodes, NodesCap),
     edges   |-> Clamped(r.edges, EdgesCap),
     perFunc |-> Clamped(r.perFunc, PerFuncCap)]

Reason == {"none", "max_edges", "max_nodes"}

TypeOK ==
    /\ calls \in [Func -> Seq(Node)]
    /\ root \in Root
    /\ limit \in Limit
    /\ DOMAIN nodes \subseteq Node /\ nodes \in [DOMAIN nodes -> Nat]
    /\ edges \in Seq(Func \X Node)
    /\ bfs_queue \in Seq(Node \X Nat)
    /\ cur \in (Func \cup {None}) \X Nat
    /\ at \in Nat \ {0}
    /\ seen \subseteq Node
    /\ count \in Nat
    /\ limit_reason \in Reason
    /\ per_func_capped \in BOOLEAN
    /\ phase \in {"start", "walk", "done", "error"}

Init ==
    /\ calls \in Program
    /\ root \in Root
    /\ limit \in {InForce(r) : r \in Request}
    /\ nodes = [n \in {} |-> 0]
    /\ edges = <<>>
    /\ bfs_queue = <<>>
    /\ cur = <<None, 0>>
    /\ at = 1
    /\ seen = {}
    /\ count = 0
    /\ limit_reason = "none"
    /\ per_func_capped = FALSE
    /\ phase = "start"

-----------------------------------------------------------------------------
\* The walk starts at depth -1.
Begin_BelowZero ==
    /\ phase = "start"
    /\ root \in Func
    /\ phase' = "walk"
    /\ nodes' = [n \in {root} |-> -1]
    /\ bfs_queue' = <<<<root, -1>>>>
    /\ UNCHANGED <<input, edges, scan, limit_reason, per_func_capped>>

\* get_func(root_ea) decides between a walk and "Not a function".
Begin ==
    /\ phase = "start"
    /\ IF root \in Func
       THEN /\ phase' = "walk"
            /\ nodes' = [n \in {root} |-> 0]
            /\ bfs_queue' = <<<<root, 0>>>>
       ELSE /\ phase' = "error"
            /\ UNCHANGED <<nodes, bfs_queue>>
    /\ UNCHANGED <<input, edges, scan, limit_reason, per_func_capped>>

Idle == phase = "walk" /\ cur[1] = None

\* The depth test lets one level too many through.
Expandable_OneDeeper(entry) == entry[2] <= limit.depth /\ entry[1] \in Func

\* Only functions above the depth limit are scanned.
Expandable(entry) == entry[2] < limit.depth /\ entry[1] \in Func

\* The next queued node; one that is too deep or no function is dropped.
Dequeue ==
    /\ Idle
    /\ bfs_queue # <<>>
    /\ bfs_queue' = Tail(bfs_queue)
    /\ IF Expandable(Head(bfs_queue))
       THEN cur' = Head(bfs_queue) /\ at' = 1 /\ seen' = {} /\ count' = 0
       ELSE UNCHANGED scan
    /\ UNCHANGED <<input, nodes, edges, limit_reason, per_func_capped, phase>>

Finish ==
    /\ Idle
    /\ bfs_queue = <<>>
    /\ phase' = "done"
    /\ UNCHANGED <<input, nodes, edges, bfs_queue, scan, limit_reason, per_func_capped>>

-----------------------------------------------------------------------------
Scanning == phase = "walk" /\ cur[1] # None
AtCall == Scanning /\ at <= Len(calls[cur[1]])
Target == calls[cur[1]][at]
AtNewTarget == AtCall /\ Target \notin seen

\* fn->end_ea is reached.
EndFunc ==
    /\ Scanning
    /\ at > Len(calls[cur[1]])
    /\ cur' = <<None, 0>>
    /\ UNCHANGED <<input, nodes, edges, bfs_queue, at, seen, count,
                   limit_reason, per_func_capped, phase>>

\* A target this function has called before: on to the next instruction.
SkipSeen ==
    /\ AtCall
    /\ Target \in seen
    /\ at' = at + 1
    /\ UNCHANGED <<input, nodes, edges, bfs_queue, cur, seen, count,
                   limit_reason, per_func_capped, phase>>

\* The cap is tested before the target is remembered.
CapFunc_Unremembered ==
    /\ AtNewTarget
    /\ count >= limit.perFunc
    /\ per_func_capped' = TRUE
    /\ UNCHANGED <<input, nodes, edges, bfs_queue, cur, at, seen, count, limit_reason, phase>>

\* The per-function limit: `continue` comes back to the same instruction, and
\* gets past it because its target has been remembered.
CapFunc ==
    /\ AtNewTarget
    /\ count >= limit.perFunc
    /\ seen' = seen \cup {Target}
    /\ per_func_capped' = TRUE
    /\ UNCHANGED <<input, nodes, edges, bfs_queue, cur, at, count, limit_reason, phase>>

\* goto done with a reason.
Truncate(reason) ==
    /\ limit_reason' = reason
    /\ phase' = "done"
    /\ cur' = <<None, 0>>
    /\ UNCHANGED <<input, bfs_queue, at, per_func_capped>>

\* The edge limit: the edge is not drawn.
EdgeLimit ==
    /\ AtNewTarget
    /\ count < limit.perFunc
    /\ Len(edges) >= limit.edges
    /\ seen' = seen \cup {Target}
    /\ Truncate("max_edges")
    /\ UNCHANGED <<nodes, edges, count>>

\* What every drawn edge does.
DrawEdge ==
    /\ AtNewTarget
    /\ count < limit.perFunc
    /\ Len(edges) < limit.edges
    /\ seen' = seen \cup {Target}
    /\ edges' = Append(edges, <<cur[1], Target>>)
    /\ count' = count + 1

\* An edge to a node of the graph.
EdgeToNode ==
    /\ DrawEdge
    /\ Target \in DOMAIN nodes
    /\ at' = at + 1
    /\ UNCHANGED <<input, nodes, bfs_queue, cur, limit_reason, per_func_capped, phase>>

\* New nodes are scanned first: a depth-first walk.
EdgeToNew_Lifo ==
    /\ DrawEdge
    /\ Target \notin DOMAIN nodes
    /\ Cardinality(DOMAIN nodes) < limit.nodes
    /\ nodes' = [n \in DOMAIN nodes \cup {Target} |->
                    IF n = Target THEN cur[2] + 1 ELSE nodes[n]]
    /\ bfs_queue' = <<<<Target, cur[2] + 1>>>> \o bfs_queue
    /\ at' = at + 1
    /\ UNCHANGED <<input, cur, limit_reason, per_func_capped, phase>>

\* An edge to a new node, which is queued one level deeper.
EdgeToNew ==
    /\ DrawEdge
    /\ Target \notin DOMAIN nodes
    /\ Cardinality(DOMAIN nodes) < limit.nodes
    /\ nodes' = [n \in DOMAIN nodes \cup {Target} |->
                    IF n = Target THEN cur[2] + 1 ELSE nodes[n]]
    /\ bfs_queue' = Append(bfs_queue, <<Target, cur[2] + 1>>)
    /\ at' = at + 1
    /\ UNCHANGED <<input, cur, limit_reason, per_func_capped, phase>>

\* The node limit skips the target instead of ending the walk.
NodeLimit_Continues ==
    /\ DrawEdge
    /\ Target \notin DOMAIN nodes
    /\ Cardinality(DOMAIN nodes) >= limit.nodes
    /\ limit_reason' = "max_nodes"
    /\ at' = at + 1
    /\ UNCHANGED <<input, nodes, bfs_queue, cur, per_func_capped, phase>>

\* The node limit: the edge stays, its target does not become a node.
NodeLimit ==
    /\ DrawEdge
    /\ Target \notin DOMAIN nodes
    /\ Cardinality(DOMAIN nodes) >= limit.nodes
    /\ Truncate("max_nodes")
    /\ UNCHANGED nodes

\* The walk has ended and its result is in the answer.
Over == phase \in {"done", "error"} /\ UNCHANGED vars

Walk ==
    \/ Begin
    \/ Dequeue
    \/ EndFunc
    \/ SkipSeen
    \/ CapFunc
    \/ EdgeLimit
    \/ EdgeToNode
    \/ EdgeToNew
    \/ NodeLimit
    \/ Finish

Next == Walk \/ Over

\* The tool runs to its end on the main thread.
Spec == Init /\ [][Next]_vars /\ WF_vars(Walk)

-----------------------------------------------------------------------------
Callees(f) == {calls[f][i] : i \in DOMAIN calls[f]}

\* Within[d]: the nodes at most d calls away from the root.
Within[d \in Nat] ==
    IF d = 0 THEN {root}
    ELSE Within[d - 1] \cup UNION {Callees(f) : f \in Within[d - 1] \cap Func}

\* n is exactly d calls away.
AtDistance(n, d) == n \in Within[d] /\ (d > 0 => n \notin Within[d - 1])

\* The whole graph within the depth limit: nodes at their distance, one edge
\* for every pair of caller and callee.
IsWholeGraph ==
    /\ DOMAIN nodes = Within[limit.depth]
    /\ {edges[i] : i \in DOMAIN edges} =
           UNION {{f} \X Callees(f) : f \in Within[limit.depth - 1] \cap Func}
    /\ \A i, j \in DOMAIN edges : edges[i] = edges[j] => i = j

\* An answer that reports neither truncation nor a capped function is the
\* whole call graph within max_depth: no caller of the tool is left with a
\* partial graph that looks complete.
UnflaggedIsWhole ==
    phase = "done" /\ limit_reason = "none" /\ ~per_func_capped => IsWholeGraph

\* As long as no function was capped, a node's depth is its distance from the
\* root, also when the walk is cut short: that is what the FIFO queue is for.
DepthIsDistance ==
    phase = "done" /\ ~per_func_capped =>
        \A n \in DOMAIN nodes : AtDistance(n, nodes[n])

\* Both ends of an edge are nodes of the answer, with one exception: the edge
\* that ran into max_nodes, which is the last one.
EdgesMeetNodes ==
    \A i \in DOMAIN edges :
        /\ edges[i][1] \in DOMAIN nodes
        /\ \/ edges[i][2] \in DOMAIN nodes
           \/ limit_reason = "max_nodes" /\ i = Len(edges)

\* A capped scan returns to the instruction it was at, and the walk still ends
\* on every graph, recursion and cycles included.
WalkEnds == <>(phase \in {"done", "error"})
=============================================================================
