------------------------ MODULE MCTopologyValidator ------------------------
(***************************************************************************)
(* Candidate GML files for TopologyValidator: every graph over a few      *)
(* vertices with good attributes, and a fixed graph with every            *)
(* combination of good and bad attribute values.                          *)
(***************************************************************************)
EXTENDS TopologyValidator

\* The graphs whose edges are a subset of the candidate list cand (a
\* sequence of [from, to] records; a repeated entry is a parallel edge).
GraphsOver(cand, dir) ==
    {[directed |-> dir, edges |-> [i \in S |-> cand[i]]] : S \in SUBSET DOMAIN cand}

Arc(u, v) == [from |-> u, to |-> v]

\* Every directed and every undirected simple graph on 3 vertices.
DirectedPairs3 ==
    <<Arc(1, 1), Arc(1, 2), Arc(1, 3), Arc(2, 1), Arc(2, 2), Arc(2, 3),
      Arc(3, 1), Arc(3, 2), Arc(3, 3)>>
UndirectedPairs3 ==
    <<Arc(1, 1), Arc(1, 2), Arc(1, 3), Arc(2, 2), Arc(2, 3), Arc(3, 3)>>
AllSimpleGraphs3 == GraphsOver(DirectedPairs3, TRUE) \cup GraphsOver(UndirectedPairs3, FALSE)

\* Directed graphs on 2 vertices where 1 -> 2 may appear twice.
ParallelPairs2 == <<Arc(1, 1), Arc(1, 2), Arc(1, 2), Arc(2, 1), Arc(2, 2)>>
ParallelGraphs2 == GraphsOver(ParallelPairs2, TRUE)

\* The complete undirected graph on 2 vertices (self-loops included).
Complete2 == {[directed |-> FALSE, edges |-> <<Arc(1, 1), Arc(2, 2), Arc(1, 2)>>]}

\* Attribute values (bandwidth in bit/s, latency and jitter in ns, loss in
\* tenths).
GoodVertex == [id |-> "present", bandwidth_down |-> 8192, bandwidth_up |-> 16384]
VertexChoices ==
    {GoodVertex,
     [GoodVertex EXCEPT !.id = Missing],
     [GoodVertex EXCEPT !.bandwidth_down = 4096],
     [GoodVertex EXCEPT !.bandwidth_up = Bad]}
GoodEdge == [latency |-> 1000000, packet_loss |-> 0, jitter |-> Missing]
EdgeChoices ==
    {GoodEdge,
     [GoodEdge EXCEPT !.latency = 0],
     [GoodEdge EXCEPT !.latency = Bad],
     [GoodEdge EXCEPT !.packet_loss = 11],
     [GoodEdge EXCEPT !.packet_loss = Missing],
     [GoodEdge EXCEPT !.jitter = Bad]}

\* Edges that are good or carry a jitter that does not parse.
JitterChoices == {GoodEdge, [GoodEdge EXCEPT !.jitter = Bad]}

\* Every key the candidates declare: the exact known names, a label key in
\* other case and one cut short, an unknown key, and a key that extends
\* "latency".
ExtraKeys == {Key("label", "case"), Key("label", "shorter"), Key("unknown", "same"),
              Key("latency", "longer")}
AllKeys == {Exact(n) : n \in {"id", "bandwidth_down", "bandwidth_up", "latency",
                               "packet_loss", "jitter"}} \cup ExtraKeys
CorrectTypes ==
    [k \in AllKeys |-> IF k.stem \in {"id", "packet_loss"} THEN "numeric" ELSE "string"]
AllTypeChoices == {CorrectTypes, [CorrectTypes EXCEPT ![Exact("latency")] = "numeric"]}
GoodVertices == {GoodVertex}
GoodEdges == {GoodEdge}
CorrectTypesOnly == {CorrectTypes}
NoExtra == {[v |-> {}, e |-> {}]}
AllExtras ==
    {[v |-> {}, e |-> {}],
     [v |-> {Key("label", "case")}, e |-> {}],
     [v |-> {Key("label", "shorter")}, e |-> {}],
     [v |-> {}, e |-> {Key("unknown", "same")}],
     [v |-> {}, e |-> {Key("latency", "longer")}]}

=============================================================================
