\* The complete undirected graph on two vertices with every combination of
\* good and bad vertex and edge attributes, key types and extra keys.
CONSTANTS
    Missing = Missing
    Bad = Bad
    NumVertices = 2
    Topologies <- Complete2
    VertexAttrChoices <- VertexChoices
    EdgeAttrChoices <- EdgeChoices
    TypeChoices <- AllTypeChoices
    ExtraChoices <- AllExtras
SPECIFICATION Spec
INVARIANTS AcceptedGraphValid NoAssertFailure
