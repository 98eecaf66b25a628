--------------------------- MODULE TopologyChecks ---------------------------
(***************************************************************************)
(* The input of topology_new in src/phantom/src/main/routing/topology.c   *)
(* (the GML file as igraph_read_graph_gml yields it, and the              *)
(* useShortestPath argument) and the checks _topology_checkGraph and its  *)
(* hooks apply to it, as operators over that input.  TopologyValidator    *)
(* runs them one loop iteration a step; TopologyLoad states the outcome   *)
(* topology_new promises in one step.                                     *)
(*                                                                         *)
(* Vertices are igraph indices 1..NumVertices.  Attribute values are      *)
(* abstracted to what the checks tell apart:                               *)
(*   bandwidth: Missing (absent or empty), Bad (parse_bandwidth < 0),      *)
(*              or bits per second;                                        *)
(*   latency, jitter: Missing, Bad (parse_time_nanosec < 0), or ns;        *)
(*   packet_loss: Missing (NaN) or an integer number of tenths;            *)
(*   id: "present", or Missing (absent or NaN).                            *)
(* Optional vertex strings (ip_address, city_code, country_code) are only  *)
(* logged by the hook and are left out.                                    *)
(***************************************************************************)
EXTENDS Integers, FiniteSets, FiniteSetsExt, TLC

LOCAL Gr == INSTANCE Graphs
LOCAL Seqs == INSTANCE SequencesExt

CONSTANTS
    NumVertices,        \* igraph_vcount
    Topologies,         \* candidate graphs: [directed : BOOLEAN, edges : [ids -> [from, to]]]
    VertexAttrChoices,  \* candidate [id, bandwidth_down, bandwidth_up] of one vertex
    EdgeAttrChoices,    \* candidate [latency, packet_loss, jitter] of one edge
    TypeChoices,        \* candidate GML types: functions from keys to types
    ExtraChoices,       \* candidate extra keys: [v : SUBSET keys, e : SUBSET keys]
    Missing,            \* model value: attribute absent, empty or NaN
    Bad                 \* model value: a string the parser rejects

Vertices == 1..NumVertices

VARIABLES
    readable,         \* fopen and igraph_read_graph_gml succeed
    graph,            \* the loaded graph: [directed, edges]
    vattr, eattr,     \* per-vertex and per-edge attribute values
    types, extra,     \* the attribute list igraph_cattribute_list reports
    useShortestPath   \* top->useShortestPath

Input == <<readable, graph, vattr, eattr, types, extra, useShortestPath>>

\* Any GML file: one that cannot be opened or parsed, or a parsed graph
\* with its attributes; and either value of the useShortestPath argument.
InputInit ==
    /\ readable \in BOOLEAN
    /\ \E t \in Topologies :
          /\ graph = t
          /\ eattr \in [DOMAIN t.edges -> EdgeAttrChoices]
    /\ vattr \in [Vertices -> VertexAttrChoices]
    /\ types \in TypeChoices
    /\ extra \in ExtraChoices
    /\ useShortestPath \in BOOLEAN

EdgeIds == DOMAIN graph.edges
Edge(e) == graph.edges[e]
IsLoop(e) == Edge(e).from = Edge(e).to

\* The kibibytes per second _topology_findVertexAttributeStringBandwidth
\* yields: parse_bandwidth's bits per second divided by 8 * 1024.
BandwidthFound(b) == b \notin {Missing, Bad}
BandwidthKiB(b) == b \div (8 * 1024)

\* _topology_findEdgeAttributeStringTimeMs succeeds for a parsed duration
\* >= 0; the milliseconds are ns / 10^6, positive exactly when ns > 0.
TimeFound(t) == t \notin {Missing, Bad}

\* _topology_findEdgeAttributeDouble: any non-NaN value.
DoubleFound(x) == x # Missing

\* _topology_findVertexAttributeDouble(v, VERTEX_ATTR_ID): the key is
\* declared and v's value is not NaN.
IdFound(v) == vattr[v].id # Missing

-----------------------------------------------------------------------------
(* Attribute keys                                                          *)

\* A key of the GML file, abstracted to how it compares with a known name:
\* rel "same" is the name itself, "case" the name in other letter case,
\* "longer" the name followed by more characters, "shorter" a proper
\* prefix of it.  Stem "unknown" shares no prefix with any known name.
Key(stem, rel) == [stem |-> stem, rel |-> rel]
Exact(name) == Key(name, "same")

\* The names _topology_vertexAttributeToString and
\* _topology_edgeAttributeToString give, in the order the two loops of
\* _topology_checkGraphAttributes test them.
VertexAttributeNames == <<"id", "ip_address", "city_code", "country_code",
                          "bandwidth_down", "bandwidth_up", "label">>
EdgeAttributeNames == <<"latency", "jitter", "packet_loss", "label">>

\* Mutant: strncasecmp bounded by the key's length, not the name's.
IsValidVertexAttributeKeyByKeyLength(key, name) ==
    key.stem = name /\ key.rel \in {"same", "case", "shorter"}

\* g_ascii_strncasecmp(attrName, expected, strlen(expected)) == 0: the key
\* begins with the known name, whatever the case of its letters.
IsValidVertexAttributeKey(key, name) ==
    key.stem = name /\ key.rel \in {"same", "case", "longer"}

IsValidEdgeAttributeKey(key, name) ==
    key.stem = name /\ key.rel \in {"same", "case", "longer"}

\* The else-if chain of each loop: the index of the first name the key
\* matches, 0 when the key is unsupported.
VertexKeyClass(key) ==
    Seqs!SelectInSeq(VertexAttributeNames, LAMBDA n : IsValidVertexAttributeKey(key, n))
EdgeKeyClass(key) ==
    Seqs!SelectInSeq(EdgeAttributeNames, LAMBDA n : IsValidEdgeAttributeKey(key, n))

-----------------------------------------------------------------------------
(* _topology_checkGraphAttributes                                          *)

\* The type each branch of the two loops requires.
VertexKeyType == [id |-> "numeric", ip_address |-> "string", city_code |-> "string",
                  country_code |-> "string", bandwidth_down |-> "string",
                  bandwidth_up |-> "string", label |-> "string"]
EdgeKeyType == [latency |-> "string", packet_loss |-> "numeric",
                jitter |-> "string", label |-> "string"]

\* igraph's GML reader declares a key when any element carries it; the
\* values the hooks read are those of the exactly named keys.
DeclaredVertexKeys ==
    {Exact(n) : n \in {m \in {"id", "bandwidth_down", "bandwidth_up"} :
                         \E v \in Vertices : vattr[v][m] # Missing}} \cup extra.v
DeclaredEdgeKeys ==
    {Exact(n) : n \in {m \in {"latency", "packet_loss", "jitter"} :
                         \E e \in EdgeIds : eattr[e][m] # Missing}} \cup extra.e

\* _topology_checkAttributeType: the parsed type is the required one.
CheckAttributeType(k, required) == types[k] = required

\* Both loops, then igraph_cattribute_has_attr, which compares names
\* exactly, for the required keys.
AttributesOK ==
    /\ \A k \in DeclaredVertexKeys :
          /\ VertexKeyClass(k) # 0
          /\ CheckAttributeType(k, VertexKeyType[VertexAttributeNames[VertexKeyClass(k)]])
    /\ {Exact("id"), Exact("bandwidth_down"), Exact("bandwidth_up")} \subseteq DeclaredVertexKeys
    /\ \A k \in DeclaredEdgeKeys :
          /\ EdgeKeyClass(k) # 0
          /\ CheckAttributeType(k, EdgeKeyType[EdgeAttributeNames[EdgeKeyClass(k)]])
    /\ {Exact("latency"), Exact("packet_loss")} \subseteq DeclaredEdgeKeys

-----------------------------------------------------------------------------
(* Graph structure as igraph sees it                                       *)

\* The arcs of the graph; an undirected edge can be walked both ways.
Arcs == {<<Edge(e).from, Edge(e).to>> : e \in EdgeIds}
          \cup (IF graph.directed THEN {} ELSE {<<Edge(e).to, Edge(e).from>> : e \in EdgeIds})

Reach == Gr!ConnectionsIn([node |-> Vertices, edge |-> Arcs])

\* igraph_clusters(IGRAPH_STRONG): the number of strongly connected components.
StrongComponents ==
    {{w \in Vertices : Reach[v, w] /\ Reach[w, v]} : v \in Vertices}

\* The length of igraph_incident(v, IGRAPH_OUT): out-edges of a directed
\* graph; every incident edge of an undirected one, a self-loop twice.
IncidentCount(v) ==
    IF graph.directed
      THEN Cardinality({e \in EdgeIds : Edge(e).from = v})
      ELSE Cardinality({e \in EdgeIds : ~IsLoop(e) /\ v \in {Edge(e).from, Edge(e).to}})
             + 2 * Cardinality({e \in EdgeIds : IsLoop(e) /\ Edge(e).from = v})

\* _topology_getEdgeHelper(v, v) finds a self-loop.
HasSelfLoop(v) == \E e \in EdgeIds : IsLoop(e) /\ Edge(e).from = v

\* Mutant: the undirected self-loop counted twice.
CompletenessCountNoLoopFix(v) == IncidentCount(v)

\* ecount after the undirected self-loop correction.
CompletenessCount(v) ==
    IncidentCount(v) - (IF ~graph.directed /\ HasSelfLoop(v) THEN 1 ELSE 0)

-----------------------------------------------------------------------------
(* The per-element hooks                                                   *)

\* _topology_checkGraphVerticesHelperHook
VertexOK(v) ==
    /\ IdFound(v)
    /\ BandwidthFound(vattr[v].bandwidth_down) /\ BandwidthKiB(vattr[v].bandwidth_down) > 0
    /\ BandwidthFound(vattr[v].bandwidth_up) /\ BandwidthKiB(vattr[v].bandwidth_up) > 0

\* The utility_asserts at the top of _topology_checkGraphEdgesHelperHook:
\* both end vertices have an id.
EdgeEndsHaveIds(e) ==
    IdFound(Edge(e).from) /\ IdFound(Edge(e).to)

\* Mutant: a zero latency accepted.
EdgeOKNoLatencyCheck(e) ==
    /\ TimeFound(eattr[e].latency)
    /\ DoubleFound(eattr[e].packet_loss) /\ eattr[e].packet_loss \in 0..10
    /\ TimeFound(eattr[e].jitter) => eattr[e].jitter >= 0

\* _topology_checkGraphEdgesHelperHook: latency > 0 ms, packet_loss in
\* [0.0, 1.0]; a jitter that fails to parse is skipped like an absent one.
EdgeOK(e) ==
    /\ TimeFound(eattr[e].latency) /\ eattr[e].latency > 0
    /\ DoubleFound(eattr[e].packet_loss) /\ eattr[e].packet_loss \in 0..10
    /\ TimeFound(eattr[e].jitter) => eattr[e].jitter >= 0

=============================================================================
