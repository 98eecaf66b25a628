\* Direct-edge routing (shortest paths off) on the complete undirected
\* graph whose v1 self-loop (5 ms) costs more than the v1-v2 round trip.
CONSTANTS
    v1 = v1
    v2 = v2
    v3 = v3
    h1 = h1
    h2 = h2
    h3 = h3
    NoVertex = NoVertex
    NoPath = NoPath
    Vertices <- CompleteVertices
    Edges <- CompleteEdges
    Directed = FALSE
    UseShortestPath = FALSE
    Hosts <- TwoHosts
    QueryKinds <- AllKinds
    MaxQueries = 2


SPECIFICATION Spec
SYMMETRY HostSymmetry

INVARIANT LatencyCorrect
