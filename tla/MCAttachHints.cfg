\* Three vertices with or without addresses and city and country codes,
\* and every combination of host hints.
CONSTANTS
    NoIP = NoIP
    NoCode = NoCode
    NoHint = NoHint
    NumVertices = 3
    Width = 3
    Loopback = 1
    RandomSteps = 4
    VertexChoices <- HintVertices
    HintChoices <- HintHints
SPECIFICATION Spec
INVARIANT AttachReturnsCandidate ChosenFollowsHints PrefixMatchIsLongest
