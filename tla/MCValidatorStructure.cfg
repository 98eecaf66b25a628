\* Every simple graph on three vertices, directed or not, with good
\* attributes, in both routing modes.
CONSTANTS
    Missing = Missing
    Bad = Bad
    NumVertices = 3
    Topologies <- AllSimpleGraphs3
    VertexAttrChoices <- GoodVertices
    EdgeAttrChoices <- GoodEdges
    TypeChoices <- CorrectTypesOnly
    ExtraChoices <- NoExtra
SPECIFICATION FairSpec
INVARIANT AcceptedGraphValid
PROPERTY TopologyLoadRefined
