--------------------------- MODULE TopologyGraph ---------------------------
(***************************************************************************)
(* The loaded topology graph of src/phantom/src/main/routing/topology.c   *)
(* and the read-only queries the routing engine makes of it.  After       *)
(* topology_new the graph is immutable, so every query here is a pure     *)
(* operator; the lock the code takes around each igraph call (graphLock)  *)
(* protects only the library's internal state and does not order any     *)
(* change to state this project tracks.                                    *)
(*                                                                         *)
(* Edges is a function from edge ids (igraph edge order) to records       *)
(* [from, to, latency, loss]; latency is the parsed "latency" attribute  *)
(* in whole milliseconds (the duration-string conversion belongs to the   *)
(* attribute validator and is not modelled here), loss the packet_loss   *)
(* attribute in hundredths.  A reliability is kept as an exact fraction  *)
(* [num, den] so products along a path compare without rounding.         *)
(***************************************************************************)
EXTENDS Integers, Sequences, FiniteSets, FiniteSetsExt

CONSTANTS
    Vertices,   \* igraph vertex indices
    Edges,      \* [EdgeIds -> [from, to : Vertices, latency : Nat, loss : 0..100]]
    Directed    \* igraph_is_directed(&top->graph)

EdgeIds == DOMAIN Edges

\* True when edge e connects u to v; directedness is ignored for
\* undirected graphs, as in the igraph_get_eid call of _topology_getEdgeHelper.
Joins(e, u, v) ==
    \/ Edges[e].from = u /\ Edges[e].to = v
    \/ ~Directed /\ Edges[e].from = v /\ Edges[e].to = u

\* The engine assumes at most one edge between two vertices (the spec's
\* non-goal: parallel edges); igraph_get_eid would return any one of them.
IsSimpleGraph ==
    \A e, f \in EdgeIds : e # f => ~Joins(f, Edges[e].from, Edges[e].to)

\* _topology_getEdgeHelper: igraph_get_eid with error reporting off, which
\* yields -1 when the two vertices are not adjacent.
GetEid(u, v) ==
    LET between == {e \in EdgeIds : Joins(e, u, v)}
    IN  IF between = {} THEN -1 ELSE Min(between)

Adjacent(u, v) == GetEid(u, v) # -1

EdgeLatency(u, v) == Edges[GetEid(u, v)].latency

Ratio(n, d) == [num |-> n, den |-> d]
RatioMul(a, b) == [num |-> a.num * b.num, den |-> a.den * b.den]
SameRatio(a, b) == a.num * b.den = b.num * a.den

\* _topology_getEdgeHelper's edgeReliabilityOut: 1 - packet_loss.
EdgeReliability(u, v) == Ratio(100 - Edges[GetEid(u, v)].loss, 100)

\* igraph_es_incident(v, IGRAPH_OUT): out-edges, or all incident edges of
\* an undirected graph.
IncidentOut(v) ==
    {e \in EdgeIds : Edges[e].from = v \/ (~Directed /\ Edges[e].to = v)}

\* _topology_getOppositeVertex
OppositeVertex(e, v) == IF Edges[e].from = v THEN Edges[e].to ELSE Edges[e].from

\* Mutant: the latency of a non-loop edge is not doubled.
SelfCandidateLatencyNoDouble(e, v) == Edges[e].latency

\* The latency an incident edge contributes to a path back to v itself: a
\* true self-loop once, any other edge twice (out and back).
SelfCandidateLatency(e, v) ==
    IF OppositeVertex(e, v) = v THEN Edges[e].latency ELSE 2 * Edges[e].latency

\* _topology_computeShortestPathToSelf: the cheapest candidate, or 0 when
\* the vertex has no incident edge.
SelfPathLatency(v) ==
    IF IncidentOut(v) = {} THEN 0
    ELSE Min({SelfCandidateLatency(e, v) : e \in IncidentOut(v)})

\* Mutant: the reliability of a non-loop edge is not squared.
SelfEdgeReliabilityNoSquare(e, v) == Ratio(100 - Edges[e].loss, 100)

\* The reliability of the self-path over edge e: 1 - packet_loss, squared
\* when the edge is used out and back.
SelfEdgeReliability(e, v) ==
    LET r == Ratio(100 - Edges[e].loss, 100)
    IN  IF OppositeVertex(e, v) = v THEN r ELSE RatioMul(r, r)

\* _topology_computeShortestPathToSelf: the Path it stores.  The code keeps
\* the first minimum in igraph's incident-edge order, which this model
\* leaves open among the edges that tie; a vertex without incident edges
\* keeps latency 0, isDirectPath TRUE and the initial reliability 0.0.
SelfPathChoices(v) ==
    IF IncidentOut(v) = {}
      THEN {[direct |-> TRUE, latency |-> 0, reliability |-> Ratio(0, 1)]}
      ELSE {[direct |-> OppositeVertex(e, v) = v, latency |-> SelfCandidateLatency(e, v),
             reliability |-> SelfEdgeReliability(e, v)] :
               e \in {f \in IncidentOut(v) : SelfCandidateLatency(f, v) = SelfPathLatency(v)}}

\* Vertex sequences without repetition from s to t along edges.
SimplePaths(s, t) ==
    {p \in UNION {[1..k -> Vertices] : k \in 1..Cardinality(Vertices)} :
        /\ p[1] = s
        /\ p[Len(p)] = t
        /\ \A i, j \in 1..Len(p) : i # j => p[i] # p[j]
        /\ \A i \in 1..Len(p) - 1 : Adjacent(p[i], p[i + 1])}

\* _topology_computePathProperties: the sum of the edge latencies along
\* a result path, each edge looked up with _topology_getEdgeHelper.
RECURSIVE PathLatency(_)
PathLatency(p) ==
    IF Len(p) < 2 THEN 0
    ELSE EdgeLatency(p[1], p[2]) + PathLatency(Tail(p))

\* _topology_computePathProperties: the product of the edges' 1 - packet_loss.
RECURSIVE PathReliability(_)
PathReliability(p) ==
    IF Len(p) < 2 THEN Ratio(1, 1)
    ELSE RatioMul(EdgeReliability(p[1], p[2]), PathReliability(Tail(p)))

\* igraph_get_shortest_paths_dijkstra with the edge latencies as weights:
\* one of the cheapest paths from s to t (empty set when t is unreachable).
DijkstraPaths(s, t) ==
    {p \in SimplePaths(s, t) :
        \A q \in SimplePaths(s, t) : PathLatency(p) <= PathLatency(q)}

(***************************************************************************)
(* Reference definition of the shortest-path latency, independent of the  *)
(* path enumeration above: Bellman-Ford relaxation over k edges.           *)
(***************************************************************************)
Unreachable == 1 + MapThenSumSet(LAMBDA e : Edges[e].latency, EdgeIds)

RECURSIVE DistWithin(_, _, _)
DistWithin(s, t, k) ==
    IF k = 0 THEN (IF s = t THEN 0 ELSE Unreachable)
    ELSE Min({DistWithin(s, t, k - 1)} \cup
             {DistWithin(s, w, k - 1) + EdgeLatency(w, t) :
                 w \in {u \in Vertices : Adjacent(u, t)}})

ShortestDistance(s, t) == DistWithin(s, t, Cardinality(Vertices) - 1)

=============================================================================
