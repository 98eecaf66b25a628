--------------------------- MODULE MCAttachPolicy ---------------------------
(***************************************************************************)
(* Instances of AttachPolicy: three vertices, 3-bit addresses.           *)
(***************************************************************************)
EXTENDS AttachPolicy

\* Vertices with or without an address and codes; hints that are absent,
\* usable, unusable (the broadcast address, what an unparsable string
\* gives) or naming a code no vertex has.
HintVertices ==
    [ip : {NoIP, 3, 5}, city : {NoCode, "c1"}, country : {NoCode, "k1"}]
HintHints ==
    [ip : {NoHint, 3, 4, 7}, city : {NoHint, "c1", "c2"}, country : {NoHint, "k1"}]

\* Every address on every vertex, no codes; every hint address.
PrefixVertices == [ip : 0 .. 7, city : {NoCode}, country : {NoCode}]
PrefixHints == [ip : {NoHint} \cup 0 .. 7, city : {NoHint}, country : {NoHint}]

=============================================================================
