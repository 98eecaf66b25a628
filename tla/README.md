# TLA+ models of the topology and routing engine

This directory holds TLA+ models of `src/phantom/src/main/routing/topology.c`,
the routing engine of the simulator. It checks them with TLC. Every
definition is written from the C source. `PROJECT.json` maps each definition
to the lines it models, and lists the runs, mutants, findings and hazards.

## 1. The system (inventory)

| Part | Code | State | Operations |
|---|---|---|---|
| C1 Graph store | `_topology_loadGraph`, `_topology_getEdgeHelper`, `_topology_verticesAreAdjacent`, `_topology_getOppositeVertex`, the igraph calls | `graph`, `edgeWeights` (immutable after load), `graphLock` | edge lookup, incident edges, Dijkstra |
| C2 Attribute validator | `topology_new`, `_topology_checkGraph*`, `_topology_isComplete`, `_topology_extractEdgeWeights` | `isDirected`, `isConnected`, `clusterCount`, `isComplete` | runs once inside `topology_new` |
| C3 Path engine | `_topology_getPathEntry`, `_topology_computeSourcePaths`, `_topology_computeShortestPathToSelf`, `_topology_lookupDirectPath`, `_topology_computePathProperties`, `topology_getLatency`, `topology_getReliability`, `topology_isRoutable`, `topology_incrementPathPacketCounter` | thread locals | queries from any host thread |
| C4 Path cache | `_topology_getPathFromCache`, `_topology_shouldStorePath`, `_topology_storePathInCache` | `pathCache` (src -> dst -> Path*), `minimumPathLatency`, `pathCacheLock` (a reader/writer lock) | probe, admission check, insert, minimum update, `worker_updateMinTimeJump` |
| C5 Attachment | `topology_attach`, `_topology_findAttachmentVertex`, `_topology_getLongestPrefixMatch`, `topology_detach`, `_topology_getConnectedVertexIndex` | `virtualIP` (ip -> vertex), `verticesWithAttachedHosts`, `virtualIPLock` | attach, detach, lookup |
| Other files | shim IPC, descriptor, packet, interface, controller and syscall headers | none here | declarations only |

How the parts interact:
- Host threads call the query functions (C3) concurrently. They attach and
  detach (C5) while other hosts' queries are in flight.
- A query resolves both addresses through C5. It then probes C4. On a miss it
  computes paths from C1 and offers each one to C4.
- Each table has its own lock, and no code path holds two of them at once.
  So a query passes through many separate critical sections. Other threads
  can change the tables between any two of them.

The behaviours that are hard to test:
- The admission check in `_topology_shouldStorePath` runs under reader locks.
  The insert runs later under the writer lock.
- `g_hash_table_replace` frees any Path already stored under the same key.
- The worker is told the new minimum after the lock is released.
- Detach leaves the vertex in the Dijkstra target set.
- After a computation, the re-probe falls back to the reverse cache entry,
  even in directed graphs.

## 2. Modules

**`TopologyGraph`** models C1 as pure operators over a constant graph.
- Constants: `Vertices`, `Edges` (edge id -> `[from, to, latency, loss]`,
  with `loss` the `packet_loss` in hundredths) and `Directed`.
- Reliabilities are exact fractions `[num, den]` (`Ratio`, `RatioMul`,
  `SameRatio`), so products along a path compare without rounding.
- Operators:
  - `GetEid` and `Joins` model `_topology_getEdgeHelper`, which returns -1 when
    there is no edge.
  - `Adjacent` models `_topology_verticesAreAdjacent`.
  - `IncidentOut` models `igraph_es_incident(v, IGRAPH_OUT)`.
  - `OppositeVertex` models `_topology_getOppositeVertex`.
  - `EdgeReliability` is the `1 - packet_loss` that `_topology_getEdgeHelper`
    returns.
  - `SelfCandidateLatency`, `SelfPathLatency`, `SelfEdgeReliability` and
    `SelfPathChoices` model the loop in `_topology_computeShortestPathToSelf`.
    The directness flag, latency and reliability (squared for a non-loop edge)
    all come from one minimum edge. Ties between edges are left open, because
    the code keeps whichever minimum igraph iterates first.
  - `PathLatency` and `PathReliability` (RECURSIVE) model
    `_topology_computePathProperties`.
  - `DijkstraPaths` gives the cheapest simple paths, which is the set igraph
    may return.
- Reference definitions: `DistWithin` and `ShortestDistance` are a
  Bellman-Ford reference, independent of the path enumeration. The
  properties compare what the code computes against it.

**`TopologyCache`** (EXTENDS `TopologyGraph`) models C3, C4 and the table side
of C5, with one thread per host.
- Constants: `Hosts`, `UseShortestPath`, `MaxQueries`, `QueryKinds` (the
  entry points hosts call), and the model values `NoVertex` and `NoPath`.
- Shared variables: `virtualIP`, `verticesWithAttachedHosts`, `pathCache`,
  `minimumPathLatency`, `pathSerial`, `minJumpCalls` and `packetCount` (each
  Path's packet counter).
  - `pathSerial` numbers each `path_new`, so a Path that is freed and replaced
    can be told apart from its successor.
  - `minJumpCalls` is the sequence of arguments the worker received. No
    property reads it: the order in which calls reach the worker is up to
    the worker, which is not in this tree (see the hazard at line 1263).
- Thread-local variables: `pc`, `kind` (the entry point of the current
  query) and the function locals.

Each action is one critical section of the code, in the order the code runs
them:

| Action | Code |
|---|---|
| `Attach` / `Detach` | `topology_attach` (the writer-lock region; the vertex choice is abstracted to any vertex), `topology_detach` |
| `LookupSrc` / `LookupDst` | `_topology_getConnectedVertexIndex` and the early returns of `_topology_getPathEntry` |
| `Probe` / `ProbeReverse` | the first cache probe; the reverse probe happens only for undirected graphs |
| `Miss` | `_topology_lookupDirectPath` (`DirectPath`; panics without the edge), the self-path, or hand-off to `Targets` |
| `Targets` | `_topology_getUniqueVertexTargets` (`UniqueVertexTargets`) and the assertion that the destination is a target (`abort`) |
| `StoreNext` | one iteration of the loop over Dijkstra's results (0 ms becomes 1 ms), and the final `foundDstPosition` assertion |
| `CheckForward` / `CheckReverse` | the two reader-lock probes of `_topology_shouldStorePath`, and the adjacency policy `RefusedByPolicy` |
| `Insert` | the writer-lock region of `_topology_storePathInCache`: `path_new`, `g_hash_table_replace` and the minimum update |
| `Notify` / `Deliver` | the read of `minimumPathLatency` after the unlock, then the worker acting on it |
| `Reprobe` / `ReprobeReverse` | the re-probe after a computation, which checks both directions whatever the directedness, then `utility_panic` |
| `Return` | `topology_getLatency`, `topology_getReliability` and `topology_isRoutable` read the Path with no lock held |
| `Increment` | `topology_incrementPathPacketCounter`: the Path's counter goes up by one, with no lock held; a NULL Path is `utility_panic` (`incrementPanic`) |

The process states `gone`, `panic`, `abort` and `incrementPanic` are final. `Terminated` is a
stuttering step taken once every host has stopped. Deadlock checking
therefore catches any other state in which no thread can move.

**`MCTopologyCache`** defines the instances:
- `Triangle`: undirected. The direct edge v1-v2 costs 3 ms and the detour
  through v3 costs 2 ms. v2 has a 1 ms self-loop; v1 and v3 have none, so
  their self-paths are doubled edges.
- `Complete`: two vertices with self-loops, as `useShortestPath = false`
  requires. v1's self-loop (5 ms) costs more than its round trip (4 ms).
- `Cycle`: directed. v1->v2 costs 1 ms and v2->v1 costs 5 ms.

Edge losses are chosen so that every route has a distinct reliability. In
the triangle, for example, the detour's 0.9 * 0.8 differs from the direct
edge's 1.0. Each instance is a graph the validator accepts: strongly connected, with
positive latencies, and complete where that is required.

**`TopologyChecks`** holds what the validator and its contract share.
- The input of `topology_new` (`InputInit`): whether the file opens and
  parses (`readable`), any graph from `Topologies`, any vertex and edge
  attribute values from small sets, and `useShortestPath`.
- Every check, as an operator over that input: `CheckAttributeType`,
  `AttributesOK`, `Reach`, `StrongComponents`, `CompletenessCount`,
  `VertexOK`, `EdgeEndsHaveIds` and `EdgeOK`.

Attribute values are reduced to what the parsers return:
- a bandwidth in bit/s, or `Missing` / `Bad`;
- a duration in ns, or `Missing` / `Bad`;
- `packet_loss` in tenths, or `Missing` (NaN).

It also picks the attribute types igraph reports and extra keys.

An attribute key is a record `Key(stem, rel)`, where `stem` is the known name
the key is compared with (`VertexAttributeNames` or `EdgeAttributeNames`,
from `_topology_*AttributeToString`). `rel` says how the key relates to that name:
- `"same"`: the key is the name itself;
- `"case"`: the name in other letter case;
- `"longer"`: the name followed by more characters;
- `"shorter"`: a proper prefix of the name.

`IsValidVertexAttributeKey` and `IsValidEdgeAttributeKey` are
`g_ascii_strncasecmp` bounded by the name's length: they accept `same`,
`case` and `longer`. `VertexKeyClass` and `EdgeKeyClass` are the else-if
chains: the first name that matches, found with `SelectInSeq`. The required-key
test `igraph_cattribute_has_attr` compares exactly. So only `Exact(name)`
satisfies it, and only exact keys carry the values the hooks read
(`IdFound`, `BandwidthFound`, ...).

**`TopologyLoad`** is the abstract specification of `topology_new`. It has
one step, `Load`. The step returns a topology exactly when `Acceptable`
holds: the file loads, the attribute list is right, there is one strongly
connected cluster, the graph is complete unless shortest paths are on, and
every vertex and edge passes its hook. The returned topology's weights are
the latencies. Otherwise the step returns NULL. The spec has weak fairness,
so `topology_new` returns.

**`TopologyValidator`** (EXTENDS `TopologyChecks`) runs the checks the way the
code does, one loop iteration a step:

| Action | Code |
|---|---|
| `LoadGraph` | `_topology_loadGraph`: `fopen` or `igraph_read_graph_gml` failing returns NULL |
| `CheckAttributes` | `_topology_checkGraphAttributes` (key prefixes, types, required keys), then `igraph_is_connected` and `igraph_clusters` (strong), computed by Warshall reachability (`Graphs!ConnectionsIn`) |
| `CompleteStep` | one vertex of `_topology_isComplete`: the `igraph_incident` count (a self-loop counts twice when undirected), minus one for an undirected self-loop, and the early exit on `ecount < vcount` |
| `Decide` | the two rejections at the end of `_topology_checkGraphProperties` |
| `VertexHook` / `VerticesDone` | `_topology_iterateAllVertices` with the vertex hook (id, both bandwidths > 0 KiB), which visits every vertex and then fails if any vertex failed |
| `EdgeHook` / `EdgesDone` | `_topology_iterateAllEdges` in edge-id order with the edge hook: the `utility_assert`s on the end vertices' ids, latency > 0, `packet_loss` in [0, 1], and jitter only when it parses |
| `WeightStep` / `WeightsDone` | `_topology_extractEdgeWeights`, which asserts that every latency parses |

The spec-side definitions are written separately from the code-side ones:
- `SpecConnected` is a cut condition: every proper vertex subset has an arc
  leaving it.
- `SpecComplete` is an edge for every ordered pair.
- `SpecAttributesValid` covers the spec's I3.

`FairSpec` adds weak fairness on every step except the final stutter. The
validation runs on one thread and never waits on anything.

The refinement is `Abstract == INSTANCE TopologyLoad WITH ...`, with this
mapping:
- `result` is `"done"` at `pc = "done"` and `"failed"` at `pc = "failed"`.
- An abort maps to `"aborted"`, which the contract does not allow.
- At any other `pc`, `result` is `"loading"`.
- `edgeWeights` is visible only in a returned topology.

`TopologyLoadRefined == Abstract!Spec` is checked as a PROPERTY. Every failure
path calls `topology_free` before returning NULL. That call releases memory
and changes nothing this model tracks.

**`MCTopologyValidator`** defines the graph sets, as `GraphsOver(cand, dir)`
(every subset of a candidate edge list):
- every simple graph on 3 vertices, directed and undirected;
- directed graphs on 2 vertices in which 1->2 may be doubled;
- the complete undirected 2-vertex graph.

It also defines the attribute value sets.

**`AttachPolicy`** models `_topology_findAttachmentVertex`, the choice
`TopologyCache.Attach` abstracts to "any vertex". Addresses are `Width`-bit
integers, compared exactly as the code compares `in_addr_t` values.
`address_stringToIP` and `random_nextDouble` are not in this source tree, so
they are abstracted:
- a vertex without an address string reads as any address (a
  nondeterministic choice);
- the random double is k / `RandomSteps`.

| Action | Code |
|---|---|
| `Init` | the hint parse (`requestedIPIsUsable`) and empty queues |
| `Walk` | `_topology_findAttachmentVertexHelperHook` on the next vertex. The three disjuncts are: an exact match (the first one clears all queues); a later non-match, which is skipped; and the normal sort into the all, city and country queues with their usable-IP counters |
| `Choose` | the city, country, all preference order; the `useLongestPrefixMatching` conditions (the all queue needs only a non-NULL hint); `utility_assert(numCandidates > 0)` |
| `PrefixStep` / `PrefixDone` | one pop of `_topology_getLongestPrefixMatch`: `match = ~(vertexIP ^ ip)`, kept if larger or if `bestMatch == 0` |
| `RandomPick` | `chosenIndex = round(indexRange * r)` and `chosenIndex + 1` head pops (popping the empty queue gives NULL, which is vertex 0) |
| `Picked` | the `-1` sentinel assertion |

`CommonPrefix` and `EqualBits` (RECURSIVE) are bit-by-bit reference
definitions. They do not use the code's arithmetic.

**`MCAttachPolicy`** defines the vertex and hint sets. The instance has 3
vertices and 3-bit addresses; 0, 1 and 7 play `INADDR_ANY`,
`INADDR_LOOPBACK` and `INADDR_NONE`.

## 3. Runs

| Run | cfg | Result | What it shows |
|---|---|---|---|
| shortest | `MCShortest.cfg` | pass (170,408 states, about 2 min) | Triangle, shortest paths on, 2 hosts with 2 queries each, attach and detach interleaved with everything. Every returned latency equals the reference shortest distance, or the I7 self-path for s = d. Every returned reliability is in (0, 1] and is the product of `1 - packet_loss` over a least-latency route, with the self-path's non-loop edge squared (`ReliabilityCorrect`). The "unable to find path" panic and the target assertion are never hit. `minimumPathLatency` equals the least cached latency. Under weak fairness, every query that gets past the source lookup returns (`QueryCompletes`). |
| direct | `MCDirect.cfg` | pass (208,567 states) | Complete graph, shortest paths off, with hosts calling both the readers and `topology_incrementPathPacketCounter`. After `_topology_lookupDirectPath` stores the direct edge, the re-probe always finds it, so the panic is never reached (`PathFoundAfterCompute`). The refusal on this code path differs from the one in the shortest run. |
| at_most_one_direction | `MCAtMostOneDirection.cfg` | violation of `AtMostOneDirection` | Two hosts miss on the same pair and both pass the admission check before either inserts. Both cache[a][b] and cache[b][a] end up stored, which contradicts spec I4. |
| no_dangling_path | `MCNoDanglingPath.cfg` | violation of `NoDanglingPath` | Through the same race, the second `g_hash_table_replace` frees the Path that the first host's query holds (a use after free). |
| direct_self_path | `MCDirectSelfPath.cfg` | violation of `LatencyCorrect` | The same instance as direct. With shortest paths off, a query from v1 to itself goes to `_topology_lookupDirectPath(v1, v1)` and returns the 5 ms self-loop (reliability 1.0). The spec's self-path rule (I7, 4.3 Case A, the glossary's "direct path") gives the cheapest incident edge: v1-v2 out and back, 4 ms, 0.81. |
| directed_latency | `MCDirectedLatency.cfg` | violation of `LatencyCorrect` | Directed cycle. After v2->v1 is cached, a query for v1->v2 is refused at admission. The re-probe then returns the 5 ms reverse path instead of the 1 ms edge. |
| validator_structure | `MCValidatorStructure.cfg` | pass (11,238 states) | All 576 simple graphs on 3 vertices, in both routing modes, and an unreadable file. Every accepted graph is strongly connected, complete when shortest paths are off, and has a positive weight on every edge (`AcceptedGraphValid`). The step-by-step validation implements `TopologyLoad` (`TopologyLoadRefined`). It always returns, and it accepts exactly the graphs the one-step check accepts, with the latencies as weights. |
| validator_attributes | `MCValidatorAttributes.cfg` | pass (467,052 states) | Every mix of good and bad ids, bandwidths (including 4096 bit/s, which is 0 KiB), latencies (0, unparsable), losses (1.1, NaN), jitters and key types. The extra keys are `Label`, `lab`, an unknown key and `latency_ms`. Only valid graphs are accepted, and every declared key begins, ignoring case, with a known name of its type (spec 6.3). The `utility_assert`s in the edge hook and in the weight extraction never fire, because the earlier checks reject those graphs first (`NoAssertFailure`). |
| parallel_edges | `MCValidatorParallel.cfg` | violation of `AcceptedGraphValid` | 1->2 twice, 2->1 and 2->2, with no 1->1. Each vertex counts 2 edges for 2 vertices, so the graph loads with shortest paths off. A later self-query of vertex 1 finds no direct edge. |
| jitter_unparsed | `MCValidatorJitter.cfg` | violation of `AcceptedJitterValid` | A jitter that does not parse is skipped as if absent, and the load succeeds. The "is negative" branch is dead code. |
| attach_hints | `MCAttachHints.cfg` | pass (1,109,196 states) | Every mix of addresses (none, 3, 5) and city and country codes on 3 vertices, with every hint. A candidate of the chosen queue is always returned. An exact IP wins, then the city, then the country. The prefix match picks a longest leading-bit prefix. |
| attach_popcount | `MCAttachPopcount.cfg` | violation of `PrefixMatchMostBits` | Hint 101, candidates 000, 001 and 110. The code picks 110 (the longest prefix), but the spec's most-equal-bits rule picks 001. |

Each property of the passing runs has a mutant in `PROJECT.json`, and TLC
finds each mutant violated under that run's configuration:
- `LookupDstNoCheck` drops the early return on an unattached destination.
- `SelfCandidateLatencyNoDouble` forgets to double a non-loop edge.
- `RefusedByPolicyAlways` and `RefusedByPolicyAnyPath` each drop one test of
  the admission policy.
- `DetachRecount` implements the re-count that the spec's open question
  suggests.
- `InsertNoFirstMin` drops the `minimumPathLatency == 0` case.
- `StoreNextNoPop` never advances the Dijkstra result loop, which breaks
  `QueryCompletes`.
- `CompletenessCountNoLoopFix` double-counts the undirected self-loop.
- `DecideIgnoreShortest` refuses an incomplete graph even with shortest
  paths on. No accepted graph is wrong, but the refinement fails.
- `SelfEdgeReliabilityNoSquare` forgets to square a non-loop self-path
  edge's reliability.
- `EdgeOKNoLatencyCheck` accepts 0 ms.
- `IsValidVertexAttributeKeyByKeyLength` bounds `strncasecmp` by the key's
  length, so the truncated key `lab` is accepted as `label`.
- `VerticesDoneIgnoreFailure` ignores a failed vertex hook, which lets the id
  assertion fire.
- `PopsOffByOne` pops one head too few.
- `ExactResetNone` forgets to clear the queues at the first exact match.
- `MatchNoComplement` drops the `~`.

**Bounds.**
- Cache: two hosts with `MaxQueries = 2` is the smallest setting in which:
  - two queries race on one pair;
  - a host detaches while the other host is mid-query;
  - one host's second query reuses or replaces a path stored by the other.
- Cache: the triangle is the smallest undirected graph that has all of:
  - a shortest path that differs from the direct edge;
  - a self-loop;
  - self-paths over doubled edges;
  - two distinct minimum latencies.
- Cache: three hosts with two queries each exceeds 5 million states without
  adding a new kind of interleaving.
- Cache: host symmetry is used only in `direct`. No property and no constant
  names a host, but symmetry is unsound for the liveness property of
  `shortest`.
- Validator: three vertices give every connectivity shape (disconnected,
  weakly but not strongly connected, a single strong cluster) and both
  completeness outcomes, with and without loops. Two parallel arcs on two
  vertices is the smallest multigraph that fools the completeness count.
- Attachment: three vertices let an exact match come after a vertex that was
  already queued, let the city and country queues differ, and let the prefix
  match compare three candidates. Three bits keep the three special
  addresses apart from usable ones.

**Fairness.**
- `TopologyCache.FairSpec` gives each host weak fairness on its in-query
  steps (`InQuery(h)`). Each of these is one lock region or a local
  computation of that host's thread. No lock is held across a blocking call,
  and every region is short, so a step that stays enabled is eventually
  taken.
- Attaching, detaching and starting a query are the host's own choice, and
  get no fairness.
- `TopologyValidator.FairSpec` is weak fairness on the single validating
  thread.

## 4. What is not modelled, and the plan

Not modelled:
- `packet_loss = 1.0`. The spec allows it on an edge, but also says a Path's
  reliability is in (0, 1]. `ReliabilityCorrect` states the range; the cache
  instances keep losses below 1.0. The conflict is inside the spec, and is
  recorded as a hazard.
- The atomicity of `path_incrementPacketCount`, and what callers of
  `topology_incrementPathPacketCounter` check first. `path.c` and those
  callers are not in this tree. `Increment` counts in one step. Increments
  through a freed Path are the `no_dangling_path` finding.
- `topology_free`, `_topology_clearCache` and `_topology_logAllCachedPaths`.
  They run once every host thread has ended, or on `topology_new`'s failure
  path. They destroy or log state that nothing reads afterwards, and nothing
  runs concurrently with them. On the failure path, what `igraph_destroy`
  does with a graph the reader never initialised depends on igraph (a
  hazard).
- The byte order of `in_addr_t`. `address.c` is not in this tree, so the
  prefix match compares the values as given.
- The bias of the random pick (the end candidates get half weight). TLC
  checks which vertices can be chosen, not their probabilities.
- The spelling of attribute keys. A key is reduced to its relation with a
  known name (see `TopologyChecks`).
- `_topology_igraphAttributeTypeToString` and the logging of
  `_topology_logAllCachedPaths`. They only format log messages.
- The GML text and the bandwidth and duration strings. The parse is the
  nondeterministic input.
- The headers outside `routing/`, which contain declarations only.
- A vertex with no incident edge (the `minLatency == -1` branch of
  `_topology_computeShortestPathToSelf`, which leaves reliability 0.0 and
  reads the id of vertex -1). The validator refuses every graph with one:
  - with no edges, the required edge keys are missing;
  - with two or more vertices, strong connectivity gives every vertex an
    out-edge.

Plan for later sittings:
1. An abstract, atomic cache specification with `TopologyCache` shown to
   refine it, when the graph is undirected and queries of a pair are
   serialised.
2. An abstract attachment choice refined by `AttachPolicy`. Its invariants
   (`AttachReturnsCandidate`, `ChosenFollowsHints`, `PrefixMatchIsLongest`)
   already state that choice state by state.

The reference check of Dijkstra is already part of `LatencyCorrect`.
`ExpectedLatency` is the recursive Bellman-Ford `ShortestDistance`, and it is
compared with the latency that `PathLatency` sums along the `DijkstraPaths`
result.
