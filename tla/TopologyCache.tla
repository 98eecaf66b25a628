--------------------------- MODULE TopologyCache ---------------------------
(***************************************************************************)
(* The routing engine of src/phantom/src/main/routing/topology.c as seen  *)
(* by concurrent callers: the attachment registry (virtualIP and          *)
(* verticesWithAttachedHosts under virtualIPLock), the two-level path     *)
(* cache with minimumPathLatency (under pathCacheLock), and the query     *)
(* path _topology_getPathEntry with everything it calls.                   *)
(*                                                                         *)
(* Every host runs on its own thread.  Each region the code runs under    *)
(* one lock acquisition is one step; reads of the immutable graph are     *)
(* folded into the step that uses them.  No code path holds two of the    *)
(* locks that guard the modelled state at once, so no lock is a variable. *)
(***************************************************************************)
EXTENDS TopologyGraph, Sequences, TLC

CONSTANTS
    Hosts,            \* the hosts' addresses; each host queries as itself
    UseShortestPath,  \* top->useShortestPath
    MaxQueries,       \* bound: queries per host
    QueryKinds,       \* entry points the hosts call: "get" and/or "increment"
    NoVertex,         \* model value: address not attached (lookup returns -1)
    NoPath            \* model value: NULL Path*

ASSUME UseShortestPath \in BOOLEAN /\ MaxQueries \in Nat
ASSUME QueryKinds \subseteq {"get", "increment"}

VARIABLES
    virtualIP,                 \* address -> vertex, NoVertex when absent
    verticesWithAttachedHosts, \* set of vertices that ever had a host
    pathCache,                 \* <<src, dst>> -> Path or NoPath
    minimumPathLatency,        \* top->minimumPathLatency
    pathSerial,                \* number of Paths created (their identities)
    minJumpCalls,              \* arguments received by worker_updateMinTimeJump
    packetCount,               \* Path id -> its packet counter
    \* per-thread locals
    pc, kind, dstAddr, srcV, dstV, held, pending, cur, jumpArg, queries

vars == <<virtualIP, verticesWithAttachedHosts, pathCache, minimumPathLatency,
          pathSerial, minJumpCalls, packetCount, pc, kind, dstAddr, srcV, dstV,
          held, pending, cur, jumpArg, queries, kind>>

\* A Path as created by path_new; id tells apart two allocations.
PathRec == [id : Nat, src : Vertices, dst : Vertices, direct : BOOLEAN, latency : Nat,
            reliability : [num : Nat, den : Nat]]

\* An argument of _topology_storePathInCache.
StoreRec == [src : Vertices, dst : Vertices, direct : BOOLEAN, latency : Nat,
             reliability : [num : Nat, den : Nat]]

Pcs == {"start", "idle", "lookupDst", "probe", "probeReverse", "miss",
        "targets", "storeNext", "checkForward", "checkReverse", "insert",
        "notify", "deliver", "reprobe", "reprobeReverse", "ret",
        "gone", "panic", "abort", "incrementPanic"}

Init ==
    /\ virtualIP = [a \in Hosts |-> NoVertex]
    /\ verticesWithAttachedHosts = {}
    /\ pathCache = [x \in Vertices \X Vertices |-> NoPath]
    /\ minimumPathLatency = 0
    /\ pathSerial = 0
    /\ minJumpCalls = <<>>
    /\ packetCount = [i \in {} |-> 0]
    /\ pc = [h \in Hosts |-> "start"]
    /\ kind = [h \in Hosts |-> "get"]
    /\ dstAddr = [h \in Hosts |-> h]
    /\ srcV = [h \in Hosts |-> NoVertex]
    /\ dstV = [h \in Hosts |-> NoVertex]
    /\ held = [h \in Hosts |-> NoPath]
    /\ pending = [h \in Hosts |-> {}]
    /\ cur = [h \in Hosts |-> NoPath]
    /\ jumpArg = [h \in Hosts |-> 0]
    /\ queries = [h \in Hosts |-> 0]

Locals == <<kind, dstAddr, srcV, dstV, held, pending, cur, jumpArg, queries, kind>>
Shared == <<virtualIP, verticesWithAttachedHosts, pathCache, minimumPathLatency,
            pathSerial, minJumpCalls, packetCount>>

Goto(h, label) == pc' = [pc EXCEPT ![h] = label]

\* _topology_getPathFromCache (one reader-lock region).
CachedPath(s, d) == pathCache[<<s, d>>]

-----------------------------------------------------------------------------
(* The attachment registry.                                                *)

\* topology_attach: _topology_findAttachmentVertex picks the vertex from
\* the hints and the random source (modelled in its own module; here any
\* vertex), then both tables are updated under one writer lock.
Attach(h) ==
    /\ pc[h] = "start"
    /\ \E v \in Vertices :
          /\ virtualIP' = [virtualIP EXCEPT ![h] = v]
          /\ verticesWithAttachedHosts' = verticesWithAttachedHosts \cup {v}
    /\ Goto(h, "idle")
    /\ UNCHANGED <<pathCache, minimumPathLatency, pathSerial, minJumpCalls, packetCount, Locals>>

\* Mutant: detach also drops the vertex from the Dijkstra targets once no
\* other address maps to it (the re-count the spec's open question suggests).
DetachRecount(h) ==
    /\ pc[h] = "idle"
    /\ virtualIP' = [virtualIP EXCEPT ![h] = NoVertex]
    /\ verticesWithAttachedHosts' =
          IF \E a \in Hosts \ {h} : virtualIP[a] = virtualIP[h]
            THEN verticesWithAttachedHosts
            ELSE verticesWithAttachedHosts \ {virtualIP[h]}
    /\ Goto(h, "gone")
    /\ UNCHANGED <<pathCache, minimumPathLatency, pathSerial, minJumpCalls, packetCount, Locals>>

\* topology_detach: removes the address only; the vertex stays a target.
Detach(h) ==
    /\ pc[h] = "idle"
    /\ virtualIP' = [virtualIP EXCEPT ![h] = NoVertex]
    /\ Goto(h, "gone")
    /\ UNCHANGED <<verticesWithAttachedHosts, pathCache, minimumPathLatency,
                   pathSerial, minJumpCalls, packetCount, Locals>>

-----------------------------------------------------------------------------
(* _topology_getPathEntry, as called by topology_getLatency.               *)

\* _topology_getConnectedVertexIndex: the vertex the address is attached
\* to, read under the virtualIP reader lock; NoVertex stands for -1.
ConnectedVertex(a) == virtualIP[a]

\* Source lookup; an unattached address returns NULL at once.

LookupSrc(h) ==
    /\ pc[h] = "idle"
    /\ queries[h] < MaxQueries
    /\ \E a \in Hosts : dstAddr' = [dstAddr EXCEPT ![h] = a]
    /\ \E k \in QueryKinds : kind' = [kind EXCEPT ![h] = k]
    /\ queries' = [queries EXCEPT ![h] = @ + 1]
    /\ srcV' = [srcV EXCEPT ![h] = ConnectedVertex(h)]
    /\ Goto(h, IF ConnectedVertex(h) = NoVertex THEN "ret" ELSE "lookupDst")
    /\ UNCHANGED <<Shared, dstV, held, pending, cur, jumpArg>>

\* Mutant: the early return for an unattached destination is dropped.
LookupDstNoCheck(h) ==
    /\ pc[h] = "lookupDst"
    /\ dstV' = [dstV EXCEPT ![h] = ConnectedVertex(dstAddr[h])]
    /\ Goto(h, "probe")
    /\ UNCHANGED <<Shared, dstAddr, srcV, held, pending, cur, jumpArg, queries, kind>>

LookupDst(h) ==
    /\ pc[h] = "lookupDst"
    /\ dstV' = [dstV EXCEPT ![h] = ConnectedVertex(dstAddr[h])]
    /\ Goto(h, IF ConnectedVertex(dstAddr[h]) = NoVertex THEN "ret" ELSE "probe")
    /\ UNCHANGED <<Shared, dstAddr, srcV, held, pending, cur, jumpArg, queries, kind>>

\* First cache probe; the reverse entry is probed only for undirected graphs.
Probe(h) ==
    LET p == CachedPath(srcV[h], dstV[h]) IN
    /\ pc[h] = "probe"
    /\ held' = [held EXCEPT ![h] = p]
    /\ Goto(h, IF p # NoPath THEN "ret" ELSE IF Directed THEN "miss" ELSE "probeReverse")
    /\ UNCHANGED <<Shared, dstAddr, srcV, dstV, pending, cur, jumpArg, queries, kind>>

ProbeReverse(h) ==
    LET p == CachedPath(dstV[h], srcV[h]) IN
    /\ pc[h] = "probeReverse"
    /\ held' = [held EXCEPT ![h] = p]
    /\ Goto(h, IF p # NoPath THEN "ret" ELSE "miss")
    /\ UNCHANGED <<Shared, dstAddr, srcV, dstV, pending, cur, jumpArg, queries, kind>>

\* _topology_lookupDirectPath: the edge's latency and 1 - packet_loss,
\* offered to the cache as a direct path.
DirectPath(s, d) ==
    [src |-> s, dst |-> d, direct |-> TRUE,
     latency |-> EdgeLatency(s, d), reliability |-> EdgeReliability(s, d)]

\* Cache miss.  Without shortest paths: _topology_lookupDirectPath stores
\* the edge (a missing edge fails the lookup and the query panics).  With
\* shortest paths: _topology_computeSourcePaths, which handles s = d with
\* _topology_computeShortestPathToSelf.
Miss(h) ==
    LET s == srcV[h]
        d == dstV[h]
    IN
    /\ pc[h] = "miss"
    /\ \/ /\ ~UseShortestPath
          /\ IF Adjacent(s, d)
               THEN /\ cur' = [cur EXCEPT ![h] = DirectPath(s, d)]
                    /\ Goto(h, "checkForward")
               ELSE /\ Goto(h, "panic")
                    /\ UNCHANGED cur
       \/ /\ UseShortestPath
          /\ s = d
          /\ \E c \in SelfPathChoices(s) :
                cur' = [cur EXCEPT ![h] = [src |-> s, dst |-> s, direct |-> c.direct,
                                           latency |-> c.latency, reliability |-> c.reliability]]
          /\ Goto(h, "checkForward")
       \/ /\ UseShortestPath
          /\ s # d
          /\ Goto(h, "targets")
          /\ UNCHANGED cur
    /\ UNCHANGED <<Shared, dstAddr, srcV, dstV, held, pending, jumpArg, queries, kind>>

\* _topology_getUniqueVertexTargets: the attached vertices, copied under
\* the virtualIP reader lock.
UniqueVertexTargets == verticesWithAttachedHosts

\* The target list (read under the reader lock) and the Dijkstra run that
\* follows: the destination must be among the targets
\* (utility_assert(foundDstVertexIndex)); result paths with fewer than two
\* vertices (the source itself, unreachable targets) are skipped.
Targets(h) ==
    LET s == srcV[h]
        snapshot == UniqueVertexTargets
    IN
    /\ pc[h] = "targets"
    /\ IF dstV[h] \notin snapshot
         THEN /\ Goto(h, "abort")
              /\ UNCHANGED pending
         ELSE /\ pending' = [pending EXCEPT ![h] =
                               {t \in snapshot \ {s} : DijkstraPaths(s, t) # {}}]
              /\ Goto(h, "storeNext")
    /\ UNCHANGED <<Shared, dstAddr, srcV, dstV, held, cur, jumpArg, queries, kind>>

\* Mutant: the loop does not advance past the path it just offered.
StoreNextNoPop(h) ==
    /\ pc[h] = "storeNext"
    /\ \/ /\ pending[h] = {}
          /\ Goto(h, IF DijkstraPaths(srcV[h], dstV[h]) = {} THEN "abort" ELSE "reprobe")
          /\ UNCHANGED <<pending, cur>>
       \/ \E t \in pending[h] : \E p \in DijkstraPaths(srcV[h], t) :
             LET lat == PathLatency(p) IN
             /\ cur' = [cur EXCEPT ![h] = [src |-> srcV[h], dst |-> t, direct |-> FALSE,
                                           latency |-> IF lat = 0 THEN 1 ELSE lat,
                                           reliability |-> PathReliability(p)]]
             /\ Goto(h, "checkForward")
             /\ UNCHANGED pending
    /\ UNCHANGED <<Shared, dstAddr, srcV, dstV, held, jumpArg, queries, kind>>

\* The loop over Dijkstra's result paths, in the targets' order: each
\* path's latency from _topology_computePathProperties (0 becomes 1 ms) is
\* offered to the cache as a non-direct path.
StoreNext(h) ==
    /\ pc[h] = "storeNext"
    /\ \/ /\ pending[h] = {}
          \* utility_assert(foundDstPosition): the destination had a result path
          /\ Goto(h, IF DijkstraPaths(srcV[h], dstV[h]) = {} THEN "abort" ELSE "reprobe")
          /\ UNCHANGED <<pending, cur>>
       \/ \E t \in pending[h] : \E p \in DijkstraPaths(srcV[h], t) :
             LET lat == PathLatency(p) IN
             /\ cur' = [cur EXCEPT ![h] = [src |-> srcV[h], dst |-> t, direct |-> FALSE,
                                           latency |-> IF lat = 0 THEN 1 ELSE lat,
                                           reliability |-> PathReliability(p)]]
             /\ pending' = [pending EXCEPT ![h] = @ \ {t}]
             /\ Goto(h, "checkForward")
    /\ UNCHANGED <<Shared, dstAddr, srcV, dstV, held, jumpArg, queries, kind>>

-----------------------------------------------------------------------------
(* _topology_storePathInCache: _topology_shouldStorePath reads both cache  *)
(* directions under two separate reader locks, then the insert and the     *)
(* minimum update run under the writer lock, and worker_updateMinTimeJump  *)
(* is called after it is released.                                          *)

\* Where the caller resumes: the Dijkstra loop, or the final re-probe.
AfterStore(h) ==
    IF UseShortestPath /\ cur[h].src # cur[h].dst THEN "storeNext" ELSE "reprobe"

CheckForward(h) ==
    /\ pc[h] = "checkForward"
    /\ Goto(h, IF CachedPath(cur[h].src, cur[h].dst) # NoPath THEN AfterStore(h)
               ELSE "checkReverse")
    /\ UNCHANGED <<Shared, Locals>>

\* Mutant: the useShortestPath test is dropped from the refusal.
RefusedByPolicyAlways(c) == ~c.direct /\ Adjacent(c.src, c.dst)

\* Mutant: the isDirectPath test is dropped from the refusal.
RefusedByPolicyAnyPath(c) == ~UseShortestPath /\ Adjacent(c.src, c.dst)

\* A non-direct path is refused when shortest paths are off and the graph
\* has the direct edge (_topology_verticesAreAdjacent).
RefusedByPolicy(c) == ~c.direct /\ ~UseShortestPath /\ Adjacent(c.src, c.dst)

CheckReverse(h) ==
    /\ pc[h] = "checkReverse"
    /\ Goto(h, IF CachedPath(cur[h].dst, cur[h].src) # NoPath \/ RefusedByPolicy(cur[h])
               THEN AfterStore(h) ELSE "insert")
    /\ UNCHANGED <<Shared, Locals>>

\* Mutant: the minimum is updated only on a strictly smaller latency,
\* without the "still 0" case.
InsertNoFirstMin(h) ==
    LET c == cur[h]
        updated == c.latency < minimumPathLatency
    IN
    /\ pc[h] = "insert"
    /\ pathSerial' = pathSerial + 1
    /\ pathCache' = [pathCache EXCEPT ![<<c.src, c.dst>>] =
                        [id |-> pathSerial + 1, src |-> c.src, dst |-> c.dst,
                         direct |-> c.direct, latency |-> c.latency,
                         reliability |-> c.reliability]]
    /\ packetCount' = packetCount @@ (pathSerial + 1 :> 0)
    /\ minimumPathLatency' = IF updated THEN c.latency ELSE minimumPathLatency
    /\ Goto(h, IF updated THEN "notify" ELSE AfterStore(h))
    /\ UNCHANGED <<virtualIP, verticesWithAttachedHosts, minJumpCalls, Locals>>

\* path_new and g_hash_table_replace (which frees a Path already stored
\* under the same key), then the minimum latency update.
Insert(h) ==
    LET c == cur[h]
        updated == minimumPathLatency = 0 \/ c.latency < minimumPathLatency
    IN
    /\ pc[h] = "insert"
    /\ pathSerial' = pathSerial + 1
    /\ pathCache' = [pathCache EXCEPT ![<<c.src, c.dst>>] =
                        [id |-> pathSerial + 1, src |-> c.src, dst |-> c.dst,
                         direct |-> c.direct, latency |-> c.latency,
                         reliability |-> c.reliability]]
    /\ packetCount' = packetCount @@ (pathSerial + 1 :> 0)
    /\ minimumPathLatency' = IF updated THEN c.latency ELSE minimumPathLatency
    /\ Goto(h, IF updated THEN "notify" ELSE AfterStore(h))
    /\ UNCHANGED <<virtualIP, verticesWithAttachedHosts, minJumpCalls, Locals>>

\* worker_updateMinTimeJump(top->minimumPathLatency): the argument is read
\* after the writer lock is released ...
Notify(h) ==
    /\ pc[h] = "notify"
    /\ jumpArg' = [jumpArg EXCEPT ![h] = minimumPathLatency]
    /\ Goto(h, "deliver")
    /\ UNCHANGED <<Shared, dstAddr, srcV, dstV, held, pending, cur, queries, kind>>

\* ... and the worker acts on it when its call runs.
Deliver(h) ==
    /\ pc[h] = "deliver"
    /\ minJumpCalls' = Append(minJumpCalls, jumpArg[h])
    /\ Goto(h, AfterStore(h))
    /\ UNCHANGED <<virtualIP, verticesWithAttachedHosts, pathCache,
                   minimumPathLatency, pathSerial, packetCount, Locals>>

-----------------------------------------------------------------------------
(* Back in _topology_getPathEntry after a successful computation: both     *)
(* directions are probed whatever the graph's directedness; no path at     *)
(* all is utility_panic.                                                    *)

Reprobe(h) ==
    LET p == CachedPath(srcV[h], dstV[h]) IN
    /\ pc[h] = "reprobe"
    /\ held' = [held EXCEPT ![h] = p]
    /\ Goto(h, IF p # NoPath THEN "ret" ELSE "reprobeReverse")
    /\ UNCHANGED <<Shared, dstAddr, srcV, dstV, pending, cur, jumpArg, queries, kind>>

ReprobeReverse(h) ==
    LET p == CachedPath(dstV[h], srcV[h]) IN
    /\ pc[h] = "reprobeReverse"
    /\ held' = [held EXCEPT ![h] = p]
    /\ Goto(h, IF p # NoPath THEN "ret" ELSE "panic")
    /\ UNCHANGED <<Shared, dstAddr, srcV, dstV, pending, cur, jumpArg, queries, kind>>

\* topology_getLatency, topology_getReliability and topology_isRoutable
\* read path_getLatency or path_getReliability (or return -1 for NULL)
\* with no lock held.
Return(h) ==
    /\ pc[h] = "ret"
    /\ kind[h] = "get"
    /\ Goto(h, "idle")
    /\ held' = [held EXCEPT ![h] = NoPath]
    /\ UNCHANGED <<Shared, dstAddr, srcV, dstV, pending, cur, jumpArg, queries, kind>>

\* topology_incrementPathPacketCounter: path_incrementPacketCount on the
\* Path, with no lock held; a NULL Path (an endpoint not attached) is
\* utility_panic.
Increment(h) ==
    /\ pc[h] = "ret"
    /\ kind[h] = "increment"
    /\ IF held[h] = NoPath
         THEN /\ Goto(h, "incrementPanic")
              /\ UNCHANGED packetCount
         ELSE /\ packetCount' = [packetCount EXCEPT ![held[h].id] = @ + 1]
              /\ Goto(h, "idle")
    /\ held' = [held EXCEPT ![h] = NoPath]
    /\ UNCHANGED <<virtualIP, verticesWithAttachedHosts, pathCache, minimumPathLatency,
                   pathSerial, minJumpCalls, dstAddr, srcV, dstV, pending, cur,
                   jumpArg, queries, kind>>

-----------------------------------------------------------------------------
\* A host that detached, or a process stopped by a panic or failed assertion.
Stopped(h) == pc[h] \in {"gone", "panic", "abort", "incrementPanic"}

Terminated ==
    /\ \A h \in Hosts : Stopped(h)
    /\ UNCHANGED vars

Step(h) ==
    \/ Attach(h) \/ Detach(h)
    \/ LookupSrc(h) \/ LookupDst(h) \/ Probe(h) \/ ProbeReverse(h) \/ Miss(h)
    \/ Targets(h) \/ StoreNext(h)
    \/ CheckForward(h) \/ CheckReverse(h) \/ Insert(h) \/ Notify(h) \/ Deliver(h)
    \/ Reprobe(h) \/ ReprobeReverse(h) \/ Return(h) \/ Increment(h)

Next == (\E h \in Hosts : Step(h)) \/ Terminated

Spec == Init /\ [][Next]_vars

\* The steps of a query in progress, from the destination lookup of
\* _topology_getPathEntry to topology_getLatency's return. Each is a lock
\* region or local computation of the host's worker thread, and no lock is
\* held across a blocking call, so a step that stays enabled is taken.
\* Attaching, detaching and starting a query are the host's own choice and
\* get no fairness.
InQuery(h) == pc[h] \notin {"start", "idle"} /\ Step(h)

FairSpec == Spec /\ \A h \in Hosts : WF_vars(InQuery(h))

-----------------------------------------------------------------------------
(* Properties                                                              *)

TypeOK ==
    /\ virtualIP \in [Hosts -> Vertices \cup {NoVertex}]
    /\ verticesWithAttachedHosts \subseteq Vertices
    /\ pathCache \in [Vertices \X Vertices -> PathRec \cup {NoPath}]
    /\ minimumPathLatency \in Nat
    /\ pathSerial \in Nat
    /\ minJumpCalls \in Seq(Nat)
    /\ packetCount \in [1..pathSerial -> 0..MaxQueries * Cardinality(Hosts)]
    /\ pc \in [Hosts -> Pcs]
    /\ kind \in [Hosts -> QueryKinds \cup {"get"}]
    /\ dstAddr \in [Hosts -> Hosts]
    /\ held \in [Hosts -> PathRec \cup {NoPath}]
    /\ pending \in [Hosts -> SUBSET Vertices]
    /\ cur \in [Hosts -> StoreRec \cup {NoPath}]
    /\ jumpArg \in [Hosts -> Nat]
    /\ queries \in [Hosts -> 0..MaxQueries]
    \* past the lookups a query works on two attached vertices
    /\ \A h \in Hosts :
          pc[h] \notin {"start", "idle", "lookupDst", "ret", "gone", "incrementPanic"}
             => srcV[h] \in Vertices /\ dstV[h] \in Vertices

\* The spec's self-path (invariant I7): a self-loop at v counts once, the
\* cheapest other incident edge twice.
SpecSelfLatency(v) ==
    LET loops == {e \in IncidentOut(v) : Edges[e].from = v /\ Edges[e].to = v}
        others == IncidentOut(v) \ loops
    IN  Min({Edges[e].latency : e \in loops} \cup {2 * Edges[e].latency : e \in others})

\* The latency the specification promises for a query between vertices s
\* and d (4.3): for s = d the cheapest incident edge, once for a self-loop
\* and twice otherwise (Case A, in either mode); for s # d the direct edge
\* when shortest paths are off (Case B), else the shortest-path latency of
\* the reference definition (Case C).
ExpectedLatency(s, d) ==
    IF s = d THEN SpecSelfLatency(s)
    ELSE IF ~UseShortestPath THEN EdgeLatency(s, d)
    ELSE ShortestDistance(s, d)

\* topology_getLatency(src, dst) returns the latency of the route from the
\* source's vertex to the destination's vertex, whatever other hosts have
\* queried or stored before or concurrently.
LatencyCorrect ==
    \A h \in Hosts :
        pc[h] = "ret" /\ held[h] # NoPath
            => held[h].latency = ExpectedLatency(srcV[h], dstV[h])

\* The reliabilities the specification allows for a query between s and
\* d (4.3): for s = d 1 - packet_loss of a cheapest incident edge, squared
\* when it is not a self-loop (Case A); for s # d that of the direct edge
\* when shortest paths are off (Case B), else the product of
\* 1 - packet_loss over the edges of a path of least latency (Case C).
ExpectedReliabilities(s, d) ==
    IF s = d
      THEN {LET r == Ratio(100 - Edges[e].loss, 100)
            IN  IF OppositeVertex(e, s) = s THEN r ELSE RatioMul(r, r) :
               e \in {f \in IncidentOut(s) : SelfCandidateLatency(f, s) = SpecSelfLatency(s)}}
      ELSE IF ~UseShortestPath THEN {EdgeReliability(s, d)}
      ELSE {PathReliability(p) :
               p \in {q \in SimplePaths(s, d) : PathLatency(q) = ShortestDistance(s, d)}}

\* topology_getReliability(src, dst) returns a probability in (0, 1] that
\* belongs to the route the latency query reports: the reliability of the
\* Path is computed by the same branch (direct edge, self-path or
\* Dijkstra path) that computed its latency, whoever stored it.
ReliabilityCorrect ==
    \A h \in Hosts :
        pc[h] = "ret" /\ held[h] # NoPath =>
            LET r == held[h].reliability IN
            /\ 0 < r.num /\ r.num <= r.den
            /\ \E x \in ExpectedReliabilities(srcV[h], dstV[h]) : SameRatio(r, x)

\* Once _topology_getPathEntry has computed a path without error, its
\* re-probe of the cache finds one: the utility_panic "unable to find path"
\* is never reached.
PathFoundAfterCompute == \A h \in Hosts : pc[h] # "panic"

\* _topology_computeSourcePaths' assertion that the destination's vertex is
\* among the Dijkstra targets read from verticesWithAttachedHosts holds,
\* even when hosts attach and detach between the lookup and the read.
DestinationIsTarget == \A h \in Hosts : pc[h] # "abort"

\* minimumPathLatency is the least latency of all cached paths (0 while the
\* cache is empty): every insert keeps it in step under the writer lock.
MinimumIsCacheMin ==
    LET lats == {pathCache[x].latency : x \in {y \in DOMAIN pathCache : pathCache[y] # NoPath}}
    IN  minimumPathLatency = IF lats = {} THEN 0 ELSE Min(lats)

\* Cache admission rule: for two distinct vertices at most one of
\* cache[a][b] and cache[b][a] is ever stored.
AtMostOneDirection ==
    \A a, b \in Vertices :
        a # b => (CachedPath(a, b) = NoPath \/ CachedPath(b, a) = NoPath)

\* The Path a query returns is still owned by the cache when the caller
\* reads it: a concurrent insert under the same key never frees it.
NoDanglingPath ==
    \A h \in Hosts :
        pc[h] = "ret" /\ held[h] # NoPath
            => \E x \in DOMAIN pathCache : pathCache[x] = held[h]

\* Every query that gets past the source lookup returns a path to
\* topology_getLatency: the Dijkstra store loop ends and no concurrent host
\* (inserting, replacing or detaching) keeps it from finishing.
QueryCompletes == \A h \in Hosts : pc[h] = "lookupDst" ~> pc[h] = "ret"

=============================================================================
