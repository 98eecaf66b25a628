\* Three vertices with every 3-bit address and no codes, every hint address.
CONSTANTS
    NoIP = NoIP
    NoCode = NoCode
    NoHint = NoHint
    NumVertices = 3
    Width = 3
    Loopback = 1
    RandomSteps = 4
    VertexChoices <- PrefixVertices
    HintChoices <- PrefixHints
SPECIFICATION Spec
INVARIANT PrefixMatchMostBits
