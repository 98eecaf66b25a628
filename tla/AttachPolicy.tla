---------------------------- MODULE AttachPolicy ----------------------------
(***************************************************************************)
(* _topology_findAttachmentVertex (topology.c): the vertex a new host is  *)
(* attached to. _topology_findAttachmentVertexHelperHook sorts the        *)
(* vertices, in index order, into the city, country and all queues (an    *)
(* exact IP match clears them and keeps only exact matches), the narrowest *)
(* non-empty queue is chosen, and a vertex is taken from it either by     *)
(* _topology_getLongestPrefixMatch or by the random head-pop loop.        *)
(*                                                                         *)
(* Addresses are Width-bit integers: the in_addr_t values                  *)
(* address_stringToIP gives, compared as the code compares them.          *)
(***************************************************************************)
EXTENDS Integers, Sequences, FiniteSets, Bitwise, TLC

CONSTANTS
    NumVertices,      \* igraph vertex indexes are 0 .. NumVertices - 1
    Width,            \* bits of an address
    Loopback,         \* INADDR_LOOPBACK as a Width-bit value
    VertexChoices,    \* candidate [ip, city, country] attributes of a vertex
    HintChoices,      \* candidate [ip, city, country] hints of a host
    RandomSteps,      \* random_nextDouble returns k / RandomSteps, k in 0..RandomSteps-1
    NoIP,             \* the vertex has no ip_address string
    NoCode,           \* the vertex has no city_code / country_code
    NoHint            \* the hint argument is NULL

Vertices == 0 .. NumVertices - 1
IPs == 0 .. 2^Width - 1
AddrNone == 2^Width - 1    \* INADDR_NONE, also what an unparsable string gives
AddrAny == 0               \* INADDR_ANY

VARIABLES
    vattr,              \* vertex -> its ip, city and country attributes
    hint,               \* the host's ipAddressHint, citycodeHint, countrycodeHint
    requestedIPIsUsable, requestedIP,
    cityQ, countryQ, allQ,                 \* the AttachHelper's three GQueues
    numIPsCity, numIPsCountry, numIPsAll,
    foundExactIPMatch,
    next,               \* the next vertex index of _topology_iterateAllVertices
    candidates,         \* the chosen queue, popped by the selection
    selected,           \* the chosen queue as it was when chosen
    readIP,             \* vertex -> the address the prefix match read for it
    bestMatch, vertexIndexPtr,
    pc

vars == <<vattr, hint, requestedIPIsUsable, requestedIP, cityQ, countryQ, allQ,
          numIPsCity, numIPsCountry, numIPsAll, foundExactIPMatch, next,
          candidates, selected, readIP, bestMatch, vertexIndexPtr, pc>>

\* Neither 0.0.0.0, 127.0.0.1 nor 255.255.255.255.
Usable(ip) == ip \notin {AddrNone, AddrAny, Loopback}

\* _topology_findVertexAttributeString: the vertex has a non-empty string
\* for the key (absent is the model value standing for none).
StringFound(s, absent) == s # absent

VertexHasUsableIP(v) == StringFound(vattr[v].ip, NoIP) /\ Usable(vattr[v].ip)

\* The case-insensitive comparison of a found code with a given hint.
CodeMatches(code, h) == StringFound(code, NoCode) /\ h # NoHint /\ code = h

\* ~x on a Width-bit in_addr_t.
Complement(x) == 2^Width - 1 - x

\* C's round() of indexRange * k / RandomSteps (halves away from zero).
RoundIndex(indexRange, k) == (2 * indexRange * k + RandomSteps) \div (2 * RandomSteps)

-----------------------------------------------------------------------------
(* _topology_findAttachmentVertex up to the vertex walk: the hint is parsed *)
(* and the queues are empty.                                                *)

Init ==
    /\ vattr \in [Vertices -> VertexChoices]
    /\ hint \in HintChoices
    /\ requestedIPIsUsable = (hint.ip # NoHint /\ Usable(hint.ip))
    /\ requestedIP = IF requestedIPIsUsable THEN hint.ip ELSE 0
    /\ cityQ = <<>> /\ countryQ = <<>> /\ allQ = <<>>
    /\ numIPsCity = 0 /\ numIPsCountry = 0 /\ numIPsAll = 0
    /\ foundExactIPMatch = FALSE
    /\ next = 0
    /\ candidates = <<>> /\ selected = <<>>
    /\ readIP = [v \in {} |-> 0]
    /\ bestMatch = 0 /\ vertexIndexPtr = -1
    /\ pc = "walk"

Fixed == <<vattr, hint, requestedIPIsUsable, requestedIP>>
Helper == <<cityQ, countryQ, allQ, numIPsCity, numIPsCountry, numIPsAll, foundExactIPMatch>>
Selection == <<candidates, selected, readIP, bestMatch, vertexIndexPtr>>

\* Count a usable IP into a queue's counter.
Plus(n, v) == IF VertexHasUsableIP(v) THEN n + 1 ELSE n

\* Mutant: the queues are not cleared at the first exact IP match.
ExactResetNone(q) == q

\* g_queue_clear of a queue at the first exact IP match.
ExactReset(q) == IF foundExactIPMatch THEN q ELSE <<>>

\* _topology_findAttachmentVertexHelperHook on vertex next. An exact match
\* of a usable requested IP empties all three queues the first time, and
\* from then on only exact matches enter the all queue (numIPsAll keeps
\* its earlier count); otherwise the vertex enters the all queue and the
\* city and country queues whose hint it matches.
Walk ==
    LET v == next
        exact == requestedIPIsUsable /\ VertexHasUsableIP(v) /\ vattr[v].ip = requestedIP
    IN
    /\ pc = "walk" /\ next < NumVertices
    /\ next' = next + 1
    /\ \/ /\ exact
          /\ allQ' = Append(ExactReset(allQ), v)
          /\ cityQ' = ExactReset(cityQ)
          /\ countryQ' = ExactReset(countryQ)
          /\ numIPsAll' = numIPsAll + 1
          /\ foundExactIPMatch' = TRUE
          /\ UNCHANGED <<numIPsCity, numIPsCountry>>
       \/ /\ ~exact /\ foundExactIPMatch
          /\ UNCHANGED Helper
       \/ /\ ~exact /\ ~foundExactIPMatch
          /\ allQ' = Append(allQ, v)
          /\ numIPsAll' = Plus(numIPsAll, v)
          /\ IF CodeMatches(vattr[v].city, hint.city)
               THEN cityQ' = Append(cityQ, v) /\ numIPsCity' = Plus(numIPsCity, v)
               ELSE UNCHANGED <<cityQ, numIPsCity>>
          /\ IF CodeMatches(vattr[v].country, hint.country)
               THEN countryQ' = Append(countryQ, v) /\ numIPsCountry' = Plus(numIPsCountry, v)
               ELSE UNCHANGED <<countryQ, numIPsCountry>>
          /\ UNCHANGED foundExactIPMatch
    /\ UNCHANGED <<Fixed, Selection, pc>>

\* The candidate queue: city, else country, else all. Prefix matching needs
\* a usable requested IP for the city and country queues, but only a
\* non-NULL hint for the all queue.
Choose ==
    /\ pc = "walk" /\ next = NumVertices
    /\ LET q == IF Len(cityQ) > 0 THEN cityQ
               ELSE IF Len(countryQ) > 0 THEN countryQ
               ELSE allQ
           useLPM == IF Len(cityQ) > 0 THEN requestedIPIsUsable /\ numIPsCity > 0
                     ELSE IF Len(countryQ) > 0 THEN requestedIPIsUsable /\ numIPsCountry > 0
                     ELSE hint.ip # NoHint /\ numIPsAll > 0
       IN /\ candidates' = q
          /\ selected' = q
          \* utility_assert(numCandidates > 0)
          /\ pc' = IF q = <<>> THEN "assertFailed"
                   ELSE IF useLPM /\ ~foundExactIPMatch THEN "prefix" ELSE "random"
    /\ UNCHANGED <<Fixed, Helper, next, readIP, bestMatch, vertexIndexPtr>>

\* The address VAS reads for a vertex: its parsed ip_address, or, for a
\* vertex without one, whatever address_stringToIP makes of the missing
\* string (address.c is not part of this source tree).
ReadableIPs(v) == IF vattr[v].ip = NoIP THEN IPs ELSE {vattr[v].ip}

\* Mutant: the distance itself, without the complement.
MatchNoComplement(vip, ip) == vip ^^ ip

\* match = ~(vertexIP ^ ip).
Match(vip, ip) == Complement(vip ^^ ip)

\* One iteration of _topology_getLongestPrefixMatch: pop the head and keep
\* it if its match is larger, or if the best match is still 0.
PrefixStep ==
    LET v == Head(candidates) IN
    /\ pc = "prefix" /\ candidates # <<>>
    /\ \E vip \in ReadableIPs(v) :
          LET match == Match(vip, requestedIP) IN
          /\ readIP' = readIP @@ (v :> vip)
          /\ IF match > bestMatch \/ bestMatch = 0
               THEN bestMatch' = match /\ vertexIndexPtr' = v
               ELSE UNCHANGED <<bestMatch, vertexIndexPtr>>
    /\ candidates' = Tail(candidates)
    /\ UNCHANGED <<Fixed, Helper, next, selected, pc>>

PrefixDone ==
    /\ pc = "prefix" /\ candidates = <<>>
    /\ pc' = "picked"
    /\ UNCHANGED <<Fixed, Helper, next, Selection>>

\* Mutant: the pop loop runs while chosenIndex > 0.
PopsOffByOne(chosenIndex) == chosenIndex

\* The number of g_queue_pop_head calls of the loop.
Pops(chosenIndex) == chosenIndex + 1

\* chosenIndex = round(indexRange * random_nextDouble()), then heads are
\* popped while chosenIndex >= 0; a pop of the empty queue gives NULL,
\* which is vertex 0.
RandomPick ==
    /\ pc = "random"
    /\ \E k \in 0 .. RandomSteps - 1 :
          LET n == Pops(RoundIndex(Len(candidates) - 1, k)) IN
          /\ vertexIndexPtr' = IF n = 0 THEN vertexIndexPtr
                               ELSE IF n <= Len(candidates) THEN candidates[n] ELSE 0
          /\ candidates' = IF n <= Len(candidates) THEN SubSeq(candidates, n + 1, Len(candidates))
                           ELSE <<>>
    /\ pc' = "picked"
    /\ UNCHANGED <<Fixed, Helper, next, selected, readIP, bestMatch>>

\* utility_assert(vertexIndexPtr != GINT_TO_POINTER(-1)) and the index
\* is returned.
Picked ==
    /\ pc = "picked"
    /\ pc' = IF vertexIndexPtr # -1 THEN "done" ELSE "assertFailed"
    /\ UNCHANGED <<Fixed, Helper, next, Selection>>

Finished ==
    /\ pc \in {"done", "assertFailed"}
    /\ UNCHANGED vars

Next == Walk \/ Choose \/ PrefixStep \/ PrefixDone \/ RandomPick \/ Picked \/ Finished

Spec == Init /\ [][Next]_vars

-----------------------------------------------------------------------------
(* Reference definitions and properties                                    *)

\* The number of equal bits of a and b from the top bit down.
RECURSIVE CommonPrefix(_, _, _)
CommonPrefix(a, b, w) ==
    IF w = 0 \/ (a \div 2^(w - 1)) % 2 # (b \div 2^(w - 1)) % 2 THEN 0
    ELSE 1 + CommonPrefix(a, b, w - 1)

\* The number of equal bits of a and b anywhere.
RECURSIVE EqualBits(_, _, _)
EqualBits(a, b, w) ==
    IF w = 0 THEN 0
    ELSE (IF a % 2 = b % 2 THEN 1 ELSE 0) + EqualBits(a \div 2, b \div 2, w - 1)

InQueue(q, v) == \E i \in DOMAIN q : q[i] = v

\* topology_attach always gets a vertex: the chosen queue is never empty,
\* the selection never leaves the -1 sentinel, and the vertex returned is
\* one of the chosen queue's candidates.
AttachReturnsCandidate ==
    /\ pc # "assertFailed"
    /\ pc = "done" => InQueue(selected, vertexIndexPtr)

CityMatch(v) == CodeMatches(vattr[v].city, hint.city)
CountryMatch(v) == CodeMatches(vattr[v].country, hint.country)
ExactMatchExists ==
    requestedIPIsUsable /\ \E v \in Vertices : VertexHasUsableIP(v) /\ vattr[v].ip = requestedIP

\* The spec's attachment policy: a vertex with the requested IP is taken
\* if there is one; otherwise a vertex of the hinted city if there is one;
\* otherwise one of the hinted country if there is one.
ChosenFollowsHints ==
    pc = "done" =>
        LET c == vertexIndexPtr IN
        CASE ExactMatchExists -> vattr[c].ip = requestedIP
          [] \E v \in Vertices : CityMatch(v) -> CityMatch(c)
          [] \E v \in Vertices : CountryMatch(v) -> CountryMatch(c)
          [] OTHER -> TRUE

\* _topology_getLongestPrefixMatch returns a candidate whose address, as
\* read, shares a longest run of leading bits with the requested IP.
PrefixMatchIsLongest ==
    (pc = "done" /\ DOMAIN readIP # {}) =>
        \A v \in DOMAIN readIP :
            CommonPrefix(readIP[vertexIndexPtr], requestedIP, Width)
                >= CommonPrefix(readIP[v], requestedIP, Width)

\* The spec (4.6 step 4, 9.3): the prefix match picks the candidate with
\* the most equal bits (the popcount of ~(candidate XOR hint)).
PrefixMatchMostBits ==
    (pc = "done" /\ DOMAIN readIP # {}) =>
        \A v \in DOMAIN readIP :
            EqualBits(readIP[vertexIndexPtr], requestedIP, Width)
                >= EqualBits(readIP[v], requestedIP, Width)

=============================================================================
