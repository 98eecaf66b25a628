\* Directed graphs on two vertices in which 1 -> 2 may be a parallel edge.
CONSTANTS
    Missing = Missing
    Bad = Bad
    NumVertices = 2
    Topologies <- ParallelGraphs2
    VertexAttrChoices <- GoodVertices
    EdgeAttrChoices <- GoodEdges
    TypeChoices <- CorrectTypesOnly
    ExtraChoices <- NoExtra
SPECIFICATION Spec
INVARIANT AcceptedGraphValid
