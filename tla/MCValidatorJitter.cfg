\* The complete undirected graph on two vertices, good vertices, and edges
\* that are good or carry one value at the edge of the accepted range.
CONSTANTS
    Missing = Missing
    Bad = Bad
    NumVertices = 2
    Topologies <- Complete2
    VertexAttrChoices <- GoodVertices
    EdgeAttrChoices <- JitterChoices
    TypeChoices <- CorrectTypesOnly
    ExtraChoices <- NoExtra
SPECIFICATION Spec
INVARIANT AcceptedJitterValid
