\* Shortest-path routing on a directed two-vertex cycle.
CONSTANTS
    v1 = v1
    v2 = v2
    v3 = v3
    h1 = h1
    h2 = h2
    h3 = h3
    NoVertex = NoVertex
    NoPath = NoPath
    Vertices <- CycleVertices
    Edges <- CycleEdges
    Directed = TRUE
    UseShortestPath = TRUE
    Hosts <- TwoHosts
    QueryKinds <- GetOnly
    MaxQueries = 2


SPECIFICATION Spec
SYMMETRY HostSymmetry

INVARIANT LatencyCorrect
