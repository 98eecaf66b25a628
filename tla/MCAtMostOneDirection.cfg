\* Shortest-path routing on an undirected triangle, two concurrent hosts.
CONSTANTS
    v1 = v1
    v2 = v2
    v3 = v3
    h1 = h1
    h2 = h2
    h3 = h3
    NoVertex = NoVertex
    NoPath = NoPath
    Vertices <- TriangleVertices
    Edges <- TriangleEdges
    Directed = FALSE
    UseShortestPath = TRUE
    Hosts <- TwoHosts
    QueryKinds <- GetOnly
    MaxQueries = 2


SPECIFICATION Spec
SYMMETRY HostSymmetry

INVARIANT AtMostOneDirection
