---------------------------- MODULE TopologyLoad ----------------------------
(***************************************************************************)
(* What topology_new (src/phantom/src/main/routing/topology.c) promises   *)
(* its caller, as one atomic step: given a GML file and useShortestPath,  *)
(* it returns a topology exactly when the file loads and the graph passes *)
(* every check of _topology_checkGraph, and that topology's edge weights  *)
(* are the edges' latencies; otherwise it returns NULL.  How the checks   *)
(* are ordered, and which loop finds a fault, is left out.                 *)
(***************************************************************************)
EXTENDS TopologyChecks

VARIABLES
    edgeWeights,  \* top->edgeWeights of the returned topology
    result        \* "loading", then "done" (a topology) or "failed" (NULL)

vars == <<Input, edgeWeights, result>>

\* topology_new before any check has run.
Init ==
    /\ InputInit
    /\ edgeWeights = [e \in {} |-> 0]
    /\ result = "loading"

\* The graph _topology_checkGraph accepts, stated over the whole graph at
\* once: the attribute list, one strongly connected cluster, completeness
\* unless shortest paths are on, and every vertex and edge hook passing.
Acceptable ==
    /\ readable
    /\ AttributesOK
    /\ \A u, v \in Vertices : Reach[u, v]
    /\ Cardinality(StrongComponents) = 1
    /\ useShortestPath \/ \A v \in Vertices : CompletenessCount(v) >= NumVertices
    /\ \A v \in Vertices : VertexOK(v)
    /\ \A e \in EdgeIds : EdgeOK(e)

\* topology_new returns: the topology with every edge's latency as its
\* weight, or NULL.
Load ==
    /\ result = "loading"
    /\ IF Acceptable
         THEN /\ result' = "done"
              /\ edgeWeights' = [e \in EdgeIds |-> eattr[e].latency]
         ELSE /\ result' = "failed"
              /\ UNCHANGED edgeWeights
    /\ UNCHANGED Input

\* topology_new is called once and returns.
Spec == Init /\ [][Load]_vars /\ WF_vars(Load)

=============================================================================
