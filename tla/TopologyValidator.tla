------------------------- MODULE TopologyValidator -------------------------
(***************************************************************************)
(* topology_new in src/phantom/src/main/routing/topology.c: the GML file *)
(* is read (_topology_loadGraph), _topology_checkGraph runs               *)
(* _topology_checkGraphProperties (attribute list, strong connectivity,  *)
(* cluster count, completeness), then the per-vertex and per-edge hooks,  *)
(* and _topology_extractEdgeWeights copies each edge's latency into the   *)
(* weight vector.  It runs once, on one thread, under topologyLock and    *)
(* graphLock.                                                              *)
(*                                                                         *)
(* The file is chosen in Init (TopologyChecks' InputInit) and never       *)
(* changes; the loops over vertices and edges run in index order, one     *)
(* iteration a step.  Every failure returns NULL after topology_free,     *)
(* which releases what was allocated and changes nothing this model      *)
(* tracks.  The module implements TopologyLoad (see TopologyLoadRefined). *)
(***************************************************************************)
EXTENDS TopologyChecks

VARIABLES
    isConnected, clusterCount, isComplete,
    todo,             \* indices the current loop has still to visit
    ok,               \* isSuccess of the current loop
    edgeWeights,      \* top->edgeWeights
    pc

vars == <<Input, isConnected, clusterCount, isComplete, todo, ok, edgeWeights, pc>>

-----------------------------------------------------------------------------
(* topology_new, one step per check                                         *)

Init ==
    /\ InputInit
    /\ isConnected = FALSE
    /\ clusterCount = 0
    /\ isComplete = FALSE
    /\ todo = {}
    /\ ok = TRUE
    /\ edgeWeights = [e \in {} |-> 0]
    /\ pc = "load"

Loaded == Input

\* _topology_loadGraph: fopen and igraph_read_graph_gml; either failing
\* makes topology_new return NULL.
LoadGraph ==
    /\ pc = "load"
    /\ pc' = IF readable THEN "attributes" ELSE "failed"
    /\ UNCHANGED <<Loaded, isConnected, clusterCount, isComplete, todo, ok, edgeWeights>>

\* _topology_checkGraphAttributes, then igraph_is_connected and
\* igraph_clusters with IGRAPH_STRONG.
CheckAttributes ==
    /\ pc = "attributes"
    /\ IF AttributesOK
         THEN /\ isConnected' = \A u, v \in Vertices : Reach[u, v]
              /\ clusterCount' = Cardinality(StrongComponents)
              /\ todo' = Vertices
              /\ pc' = "complete"
         ELSE /\ pc' = "failed"
              /\ UNCHANGED <<isConnected, clusterCount, todo>>
    /\ UNCHANGED <<Loaded, isComplete, ok, edgeWeights>>

\* One iteration of the vertex loop of _topology_isComplete: the first
\* vertex with fewer counted edges than vertices ends it.
CompleteStep ==
    LET v == Min(todo) IN
    /\ pc = "complete"
    /\ \/ /\ CompletenessCount(v) < NumVertices
          /\ isComplete' = FALSE
          /\ todo' = {}
          /\ pc' = "decide"
       \/ /\ CompletenessCount(v) >= NumVertices
          /\ todo' = todo \ {v}
          /\ isComplete' = (todo' = {})
          /\ pc' = IF todo' = {} THEN "decide" ELSE "complete"
    /\ UNCHANGED <<Loaded, isConnected, clusterCount, ok, edgeWeights>>

\* Mutant: an incomplete graph is refused even with shortest paths on.
DecideIgnoreShortest ==
    /\ pc = "decide"
    /\ IF ~isComplete \/ ~isConnected \/ clusterCount > 1
         THEN /\ pc' = "failed"
              /\ UNCHANGED todo
         ELSE /\ pc' = "vertices"
              /\ todo' = Vertices
    /\ UNCHANGED <<Loaded, isConnected, clusterCount, isComplete, ok, edgeWeights>>

\* The end of _topology_checkGraphProperties: an incomplete graph without
\* shortest paths, or a graph that is not one strongly connected cluster,
\* fails the load; otherwise the vertex hooks start.
Decide ==
    /\ pc = "decide"
    /\ IF (~isComplete /\ ~useShortestPath) \/ ~isConnected \/ clusterCount > 1
         THEN /\ pc' = "failed"
              /\ UNCHANGED todo
         ELSE /\ pc' = "vertices"
              /\ todo' = Vertices
    /\ UNCHANGED <<Loaded, isConnected, clusterCount, isComplete, ok, edgeWeights>>

\* _topology_iterateAllVertices with _topology_checkGraphVerticesHelperHook:
\* every vertex is visited, a failing one only clears isSuccess.
VertexHook ==
    LET v == Min(todo) IN
    /\ pc = "vertices"
    /\ todo # {}
    /\ ok' = (ok /\ VertexOK(v))
    /\ todo' = todo \ {v}
    /\ UNCHANGED <<Loaded, isConnected, clusterCount, isComplete, edgeWeights, pc>>

\* Mutant: the vertex hooks' result is ignored.
VerticesDoneIgnoreFailure ==
    /\ pc = "vertices"
    /\ todo = {}
    /\ pc' = "edges"
    /\ todo' = EdgeIds
    /\ UNCHANGED <<Loaded, isConnected, clusterCount, isComplete, ok, edgeWeights>>

\* _topology_checkGraphVertices: a negative count fails the load.
VerticesDone ==
    /\ pc = "vertices"
    /\ todo = {}
    /\ pc' = IF ok THEN "edges" ELSE "failed"
    /\ todo' = EdgeIds
    /\ UNCHANGED <<Loaded, isConnected, clusterCount, isComplete, ok, edgeWeights>>

\* One iteration of _topology_iterateAllEdges (edge id order) with
\* _topology_checkGraphEdgesHelperHook: a failing edge only clears
\* isSuccess; a failed assertion in the hook aborts.
EdgeHook ==
    LET e == Min(todo) IN
    /\ pc = "edges"
    /\ todo # {}
    /\ IF EdgeEndsHaveIds(e)
         THEN /\ ok' = (ok /\ EdgeOK(e))
              /\ todo' = todo \ {e}
              /\ UNCHANGED pc
         ELSE /\ pc' = "assertFailed"
              /\ UNCHANGED <<ok, todo>>
    /\ UNCHANGED <<Loaded, isConnected, clusterCount, isComplete, edgeWeights>>

\* _topology_checkGraphEdges, and the start of _topology_extractEdgeWeights.
EdgesDone ==
    /\ pc = "edges"
    /\ todo = {}
    /\ pc' = IF ok THEN "weights" ELSE "failed"
    /\ todo' = EdgeIds
    /\ UNCHANGED <<Loaded, isConnected, clusterCount, isComplete, ok, edgeWeights>>

\* One iteration of _topology_extractEdgeWeights: the latency is asserted
\* to parse and stored as the edge's weight.
WeightStep ==
    LET e == Min(todo) IN
    /\ pc = "weights"
    /\ todo # {}
    /\ IF TimeFound(eattr[e].latency)
         THEN /\ edgeWeights' = edgeWeights @@ (e :> eattr[e].latency)
              /\ todo' = todo \ {e}
              /\ UNCHANGED pc
         ELSE /\ pc' = "assertFailed"
              /\ UNCHANGED <<edgeWeights, todo>>
    /\ UNCHANGED <<Loaded, isConnected, clusterCount, isComplete, ok>>

WeightsDone ==
    /\ pc = "weights"
    /\ todo = {}
    /\ pc' = "done"
    /\ UNCHANGED <<Loaded, isConnected, clusterCount, isComplete, todo, ok, edgeWeights>>

\* topology_new has returned the topology or NULL.
Finished ==
    /\ pc \in {"done", "failed", "assertFailed"}
    /\ UNCHANGED vars

Next ==
    \/ LoadGraph \/ CheckAttributes \/ CompleteStep \/ Decide
    \/ VertexHook \/ VerticesDone \/ EdgeHook \/ EdgesDone
    \/ WeightStep \/ WeightsDone
    \/ Finished

Spec == Init /\ [][Next]_vars

\* Weak fairness: topology_new runs on one thread that nothing blocks.
FairSpec == Spec /\ WF_vars(Next /\ ~Finished)

-----------------------------------------------------------------------------
(* Properties                                                              *)

\* The spec's invariants I1-I3 of a loaded graph, stated from the spec:
\* I1 strongly connected; I2 without shortest paths every vertex has an
\* edge to every vertex, itself included (what _topology_lookupDirectPath
\* needs for every query); I3 every declared key known and of its type, and
\* every required attribute present and in range.
\* Strongly connected: every nonempty proper set of vertices has an arc out.
SpecConnected ==
    \A S \in SUBSET Vertices :
        S \notin {{}, Vertices} => \E a \in Arcs : a[1] \in S /\ a[2] \notin S
SpecComplete == \A u, v \in Vertices : <<u, v>> \in Arcs
\* Spec 6.3: the vertex and edge keys, matched by a case-insensitive
\* prefix, with their types.  Key k names n when n begins k.
SpecVertexKeys == [id |-> "numeric", bandwidth_down |-> "string", bandwidth_up |-> "string",
                   ip_address |-> "string", city_code |-> "string",
                   country_code |-> "string", label |-> "string"]
SpecEdgeKeys == [latency |-> "string", packet_loss |-> "numeric",
                 jitter |-> "string", label |-> "string"]
SpecKeyNames(k, n) == k.stem = n /\ k.rel # "shorter"
SpecKeysValid(keys, known) ==
    \A k \in keys : \E n \in DOMAIN known : SpecKeyNames(k, n) /\ types[k] = known[n]
SpecAttributesValid ==
    /\ SpecKeysValid(DeclaredVertexKeys, SpecVertexKeys)
    /\ SpecKeysValid(DeclaredEdgeKeys, SpecEdgeKeys)
    /\ \A v \in Vertices :
          /\ vattr[v].id = "present"
          /\ \A k \in {"bandwidth_down", "bandwidth_up"} :
                BandwidthFound(vattr[v][k]) /\ BandwidthKiB(vattr[v][k]) > 0
    /\ \A e \in EdgeIds :
          /\ TimeFound(eattr[e].latency) /\ eattr[e].latency > 0
          /\ DoubleFound(eattr[e].packet_loss)
          /\ 0 <= eattr[e].packet_loss /\ eattr[e].packet_loss <= 10

\* A topology that topology_new returns satisfies I1-I3, and the weights
\* Dijkstra runs on are every edge's positive latency.
AcceptedGraphValid ==
    pc = "done" =>
        /\ SpecConnected
        /\ ~useShortestPath => SpecComplete
        /\ SpecAttributesValid
        /\ DOMAIN edgeWeights = EdgeIds
        /\ \A e \in EdgeIds : edgeWeights[e] > 0

\* The spec: an edge's optional jitter is a duration >= 0 and is validated.
\* A loaded topology has no edge whose jitter is present but does not parse
\* (_topology_checkGraphEdgesHelperHook skips such a jitter).
AcceptedJitterValid ==
    pc = "done" => \A e \in EdgeIds : eattr[e].jitter \in Nat \cup {Missing}

\* The utility_asserts of the edge hook (both end vertices have an id) and
\* of _topology_extractEdgeWeights (every latency parses) never fail: the
\* checks that run before them have already refused such graphs.
NoAssertFailure == pc # "assertFailed"

\* The refinement mapping: topology_new has returned a topology once the
\* weights are extracted, NULL once a check failed; an aborted process
\* returns nothing, which TopologyLoad does not allow.  The weights are
\* visible to the caller only in a returned topology.
LoadResult ==
    CASE pc = "done"         -> "done"
      [] pc = "failed"       -> "failed"
      [] pc = "assertFailed" -> "aborted"
      [] OTHER               -> "loading"

Abstract == INSTANCE TopologyLoad
    WITH result <- LoadResult,
         edgeWeights <- IF pc = "done" THEN edgeWeights ELSE [e \in {} |-> 0]

\* topology_new implements its one-step contract: it returns, and it
\* returns a topology, with every edge's latency as its weight, exactly
\* when the file loads and the whole graph passes every check; the loops'
\* order, early exits and accumulated isSuccess never accept a graph the
\* checks refuse nor refuse one they accept.
TopologyLoadRefined == Abstract!Spec

=============================================================================
