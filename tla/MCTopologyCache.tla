-------------------------- MODULE MCTopologyCache --------------------------
(***************************************************************************)
(* Model-checking instances of TopologyCache: small validated topologies  *)
(* (strongly connected, positive latencies) and a few hosts.              *)
(***************************************************************************)
EXTENDS TopologyCache

CONSTANTS v1, v2, v3, h1, h2, h3

ASSUME IsSimpleGraph

\* Undirected triangle where the direct edge v1-v2 (3 ms) is beaten by the
\* detour through v3 (1 + 1 ms); v2 has a 1 ms self-loop, v1 and v3 none.
\* Losses (hundredths) make every route's reliability distinct: the
\* detour's 0.9 * 0.8 against the direct edge's 1.0, v1's self-path 0.8^2
\* over v1-v3.
TriangleVertices == {v1, v2, v3}
TriangleEdges ==
    <<[from |-> v1, to |-> v2, latency |-> 3, loss |-> 0],
      [from |-> v2, to |-> v3, latency |-> 1, loss |-> 10],
      [from |-> v1, to |-> v3, latency |-> 1, loss |-> 20],
      [from |-> v2, to |-> v2, latency |-> 1, loss |-> 50]>>

\* Complete undirected graph (a self-loop at every vertex), as required
\* when shortest paths are off; v1's self-loop (5 ms) costs more than the
\* round trip over v1-v2 (2 + 2 ms).
CompleteVertices == {v1, v2}
CompleteEdges ==
    <<[from |-> v1, to |-> v1, latency |-> 5, loss |-> 0],
      [from |-> v2, to |-> v2, latency |-> 1, loss |-> 50],
      [from |-> v1, to |-> v2, latency |-> 2, loss |-> 10]>>

\* Directed two-vertex cycle with different latencies each way.
CycleVertices == {v1, v2}
CycleEdges ==
    <<[from |-> v1, to |-> v2, latency |-> 1, loss |-> 10],
      [from |-> v2, to |-> v1, latency |-> 5, loss |-> 0]>>

TwoHosts == {h1, h2}

\* The entry points the hosts call: only the readers (topology_getLatency,
\* topology_getReliability, topology_isRoutable), or also the counter.
GetOnly == {"get"}
AllKinds == {"get", "increment"}

\* Hosts are interchangeable: none is named by a constant of the model.
HostSymmetry == Permutations(Hosts)

=============================================================================
