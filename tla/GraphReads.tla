----------------------------- MODULE GraphReads -----------------------------
(***************************************************************************)
(* graph-engine: what is computed from the live graph while the ready lock *)
(* is held.  The graph does not change, so a read is a function of it,     *)
(* except that the two traversals go depth by depth with one Cypher call   *)
(* each; these calls are the steps.                                        *)
(*                                                                         *)
(* Nodes and edge ids are numbers, ordered as their text.  Weights, decays *)
(* and multipliers are small integers in place of floats; Null is a        *)
(* property the relationship does not have.  PageRank is left out: its     *)
(* scores only decorate the entities that the paths select.                *)
(***************************************************************************)
EXTENDS Integers, Sequences, FiniteSets, Folds, FiniteSetsExt, SequencesExt

CONSTANTS
    Graphs,         \* sets of relationships
    EntityOf,       \* node -> canonical_entity_id
    RegimeContext,  \* what world_state_ref gives: multipliers for some channels
    Requests,       \* [kind, seeds, depth, limit, filter]
    MinHolders, Normalization, Crowding, MinZ   \* HoldingsAlgorithmConfig, the thresholds in Units

VARIABLES live, query, answer

readVars == <<live, query, answer>>

Null  == -9
Unit  == 10         \* 1.0 of a bounded weight
Channels == <<"fundamental", "event", "reflexive">>
ChannelRank == [event |-> 1, fundamental |-> 2, other |-> 3, reflexive |-> 4]
DefaultChannels ==
    [CO_HOLDING |-> <<"reflexive">>, EVENT_IMPACT |-> <<"event">>,
     NORTHBOUND_HOLD |-> <<"event", "reflexive">>, OWNERSHIP |-> <<"fundamental">>,
     SUPPLY_CHAIN |-> <<"fundamental">>]
TypeRank == [CO_HOLDING |-> 1, EVENT_IMPACT |-> 2, NORTHBOUND_HOLD |-> 3, OWNERSHIP |-> 4,
             SUPPLY_CHAIN |-> 5]

(* A graph is finite, its relationships have ids of their own and types    *)
(* that propagation knows.                                                 *)
ASSUME GraphReadsAssumption ==
    /\ \A G \in Graphs :
          /\ IsFiniteSet(G) /\ \A e, f \in G : e.id = f.id => e = f
          /\ \A e \in G :
                /\ {e.id, e.src, e.dst, e.weight, e.conf, e.decay, e.holders, e.jaccard, e.z} \subseteq Int
                /\ {EntityOf[e.src], EntityOf[e.dst]} \subseteq Int
                /\ e.type \in DOMAIN DefaultChannels /\ DOMAIN e.explicit \subseteq Nat
    /\ \A r \in Requests :
          /\ {r.depth, r.limit} \subseteq Nat
          /\ r.seeds \subseteq Int /\ IsFiniteSet(r.seeds)
    /\ \A key \in {"channel_multipliers", "regime_multipliers"} :
          \A c \in DOMAIN RegimeContext[key] : RegimeContext[key][c] \in Int
    /\ Normalization \in Int

Smaller(a, b) == IF a < b THEN a ELSE b
Coalesce(x, default) == IF x = Null THEN default ELSE x
Before(a, b) == \E i \in DOMAIN a : a[i] < b[i] /\ \A j \in 1..(i - 1) : a[j] = b[j]
Sorted(S, key) ==
    [i \in 1..Cardinality(S) |-> CHOOSE x \in S : Cardinality({y \in S : Before(key[y], key[x])}) = i - 1]
Take(s, n) == SubSeq(s, 1, Smaller(n, Len(s)))

-----------------------------------------------------------------------------
(* Channels of a relationship.  e.explicit are its properties              *)
(* propagation_channel, channel and impact_channel, blank where absent;    *)
(* "other" stands for any text that is not a channel.                      *)

FirstOf(s, T) ==
    LET hits == {i \in DOMAIN s : s[i] \in T} IN IF hits = {} THEN "none" ELSE s[Min(hits)]
Explicit(e) == FirstOf(e.explicit, DOMAIN ChannelRank)
EffectiveChannel(e) == IF Explicit(e) = "none" THEN DefaultChannels[e.type][1] ELSE Explicit(e)
TypesOf(c) == {t \in DOMAIN DefaultChannels : c \in ToSet(DefaultChannels[t])}
InChannel(e, c) == EffectiveChannel(e) = c \/ (Explicit(e) = "none" /\ e.type \in TypesOf(c))

\* What the path query lists: an explicit channel stands alone, known or not.
ListedChannels(e) == IF Explicit(e) = "none" THEN ToSet(DefaultChannels[e.type]) ELSE {Explicit(e)}

\* What a simulation lists: an explicit channel it does not know counts as absent.
Known(e) == FirstOf(e.explicit, ToSet(Channels))
EdgeChannelsFirst(e) == IF Known(e) = "none" THEN {DefaultChannels[e.type][1]} ELSE {Known(e)}
EdgeChannels(e) == IF Known(e) = "none" THEN ToSet(DefaultChannels[e.type]) ELSE {Known(e)}

-----------------------------------------------------------------------------
(* Propagation over one channel, and the merge of the channels.            *)

\* build_propagation_context: 1 where the regime context names no multiplier.
ContextMultiplier(key, c) == IF c \in DOMAIN RegimeContext[key] THEN RegimeContext[key][c] ELSE 1
Multiplier(c) == ContextMultiplier("channel_multipliers", c) * ContextMultiplier("regime_multipliers", c)

Path(e, c, score) == [edge |-> e, channel |-> c, score |-> score]
PathScore(e, c) == Coalesce(e.weight, 1) * Coalesce(e.conf, 1) * Multiplier(c) * Coalesce(e.decay, 1)
PathKey(p) == <<0 - p.score, ChannelRank[p.channel], p.edge.src, TypeRank[p.edge.type],
                p.edge.dst, p.edge.id>>
RankedPaths(paths, limit) == Take(Sorted(paths, [p \in paths |-> PathKey(p)]), limit)

ActivatedPaths(edges, c, limit) ==
    RankedPaths({Path(e, c, PathScore(e, c)) : e \in {x \in edges : InChannel(x, c)}}, limit)

TotalScore(S) == MapThenSumSet(LAMBDA x : x.score, S)
Impact(n, c, score, paths) == [node |-> n, channel |-> c, score |-> score, paths |-> paths]
RankedImpacts(impacts, limit) ==
    Take(Sorted(impacts, [i \in impacts |-> <<0 - i.score, i.node>>]), limit)
ToTarget(paths, n) == {p \in ToSet(paths) : p.edge.dst = n}
Targets(paths) == {p.edge.dst : p \in ToSet(paths)}
ImpactedEntities(paths, c, limit) ==
    RankedImpacts({Impact(n, c, TotalScore(ToTarget(paths, n)), Cardinality(ToTarget(paths, n)))
                     : n \in Targets(paths)}, limit)

ChannelResult(edges, c, limit) ==
    LET paths == ActivatedPaths(edges, c, limit)
    IN  [paths |-> paths, impacts |-> ImpactedEntities(paths, c, limit)]

\* merge_propagation_results: nodes of one canonical entity become one entity,
\* which keeps the least node id; the scores of its channels add up.
MergedImpacts(results, limit) ==
    LET all == UNION {ToSet(results[i].impacts) : i \in DOMAIN results}
        Of(x) == {m \in all : EntityOf[m.node] = x}
        entities == {[entity |-> x, node |-> Min({m.node : m \in Of(x)}),
                      score |-> TotalScore(Of(x)),
                      paths |-> MapThenSumSet(LAMBDA m : m.paths, Of(x)),
                      channels |-> {m.channel : m \in Of(x)}] : x \in {EntityOf[m.node] : m \in all}}
    IN  Take(Sorted(entities, [x \in entities |-> <<0 - x.score, x.entity>>]), limit)
Merge(results, limit) ==
    [paths |-> RankedPaths(UNION {ToSet(results[i].paths) : i \in DOMAIN results}, limit),
     impacts |-> MergedImpacts(results, limit)]

FundamentalPropagation(edges, limit) == ChannelResult(edges, "fundamental", limit)
EventPropagation(edges, limit)       == ChannelResult(edges, "event", limit)
ReflexivePropagation(edges, limit)   == ChannelResult(edges, "reflexive", limit)
FullPropagation(edges, limit) ==
    Merge(<<FundamentalPropagation(edges, limit), EventPropagation(edges, limit),
            ReflexivePropagation(edges, limit)>>, limit)

-----------------------------------------------------------------------------
(* The two algorithms over holdings.  A row is used only with evidence and *)
(* scoring fields that are not negative.  The scan stops after 100 rows or *)
(* more, which no graph here has.                                          *)

Scored(e) == e.evidence /\ Coalesce(e.conf, 1) >= 0 /\ Coalesce(e.decay, 1) >= 0

\* jaccard_score, or the weight written in properties_json, capped at 1.0.
RelationWeight(e) == Smaller(IF e.jaccard # Null THEN e.jaccard ELSE e.weight, Unit)
CoHoldingPaths(edges) ==
    {Path(e, "reflexive", RelationWeight(e) * Coalesce(e.conf, 1) * Multiplier("reflexive") * Coalesce(e.decay, 1))
       : e \in {x \in edges : /\ x.type = "CO_HOLDING" /\ Scored(x)
                              /\ x.holders >= MinHolders
                              /\ IF x.jaccard # Null THEN x.jaccard >= 0 ELSE x.weight >= 0}}
\* The crowding score of a target in parts of Unit * Normalization.
CrowdingScore(paths, n) ==
    Smaller(Unit * Normalization, TotalScore({p \in paths : p.edge.dst = n}))
CrowdedPaths(paths, limit) ==
    RankedPaths({p \in paths : CrowdingScore(paths, p.edge.dst) >= Crowding * Normalization}, limit)
CoHoldingCrowdingAll(edges, limit) ==
    LET valid == CoHoldingPaths(edges)
    IN  [paths |-> CrowdedPaths(valid, limit),
         impacts |-> RankedImpacts({Impact(n, "reflexive", CrowdingScore(valid, n), 1)
                                      : n \in {p.edge.dst : p \in valid}}, limit)]
CoHoldingCrowding(edges, limit) ==
    LET valid == CoHoldingPaths(edges)
        paths == CrowdedPaths(valid, limit)
    IN  [paths |-> paths,
         impacts |-> RankedImpacts({Impact(n, "reflexive", CrowdingScore(valid, n), Cardinality(ToTarget(paths, n)))
                                      : n \in Targets(paths)}, limit)]

Magnitude(z) == IF z < 0 THEN 0 - z ELSE z
NorthboundPaths(edges) ==
    {Path(e, "event", Magnitude(e.z) * Coalesce(e.conf, 1) * Multiplier("event") * Coalesce(e.decay, 1))
       : e \in {x \in edges : /\ x.type = "NORTHBOUND_HOLD" /\ Scored(x)
                              /\ x.z # Null /\ Magnitude(x.z) >= MinZ}}
NorthboundAnomaly(edges, limit) ==
    LET paths == RankedPaths(NorthboundPaths(edges), limit)
    IN  [paths |-> paths,
         impacts |-> RankedImpacts({Impact(n, "event", Max({0} \cup {p.score : p \in ToTarget(paths, n)}),
                                           Cardinality(ToTarget(paths, n))) : n \in Targets(paths)}, limit)]
HoldingsAlgorithms(edges, limit) ==
    Merge(<<CoHoldingCrowding(edges, limit), NorthboundAnomaly(edges, limit)>>, limit)
-----------------------------------------------------------------------------
(* The traversals.  `at` is the depth reached, `next` the frontier of the  *)
(* next depth; a limit that cut something off raises its flag.             *)

Idle == [kind |-> "none"]
Touching(edges, nodes) == {e \in edges : e.src \in nodes \/ e.dst \in nodes}
HasRoom(q, nodes, n) == n \in nodes \/ Cardinality(nodes) < q.limit
Truncated(q) == q.nodeCut \/ q.relCut \/ q.frontierCut \/ q.pathCut

\* seed rows in the order of their node ids, one more than the limit
Seeds(r) == Take(Sorted(r.seeds, [n \in r.seeds |-> <<n>>]), r.limit)
Start(r) ==
    /\ query = Idle /\ answer = Idle
    /\ r.kind \in {"subgraph", "paths", "simulation"}
    /\ query' = [kind |-> r.kind, request |-> r, limit |-> r.limit, at |-> 0,
                 nodes |-> ToSet(Seeds(r)), frontier |-> ToSet(Seeds(r)), known |-> {}, next |-> {},
                 rels |-> {}, visited |-> {}, paths |-> {}, stop |-> FALSE,
                 nodeCut |-> Cardinality(r.seeds) > r.limit,
                 relCut |-> FALSE, frontierCut |-> FALSE, pathCut |-> FALSE]
    /\ UNCHANGED <<live, answer>>

\* the end of e that is not in the frontier, or its target
Neighbor(e, frontier) == IF e.src \in frontier THEN e.dst ELSE e.src

Unvisited(q) == Touching(live, q.frontier) \ q.visited
FrontierRowsExact(q) == Take(Sorted(Unvisited(q), [e \in Unvisited(q) |-> <<e.id>>]), q.limit)
FrontierRows(q) == Take(Sorted(Unvisited(q), [e \in Unvisited(q) |-> <<e.id>>]), q.limit + 1)

\* The traversal enters its next depth: the nodes it has are known.
Deeper(q) == [q EXCEPT !.at = @ + 1, !.known = q.nodes, !.next = {},
                       !.frontierCut = @ \/ Len(FrontierRows(q)) > q.limit]

\* One row of the subgraph: both ends must find room among the nodes.
SubgraphRow(q, e) ==
    LET first == IF HasRoom(q, q.nodes, e.src) THEN q.nodes \cup {e.src} ELSE q.nodes
        room  == HasRoom(q, q.nodes, e.src) /\ HasRoom(q, first, e.dst)
        full  == Cardinality(q.rels) >= q.limit
        n     == Neighbor(e, q.frontier)
    IN  IF q.stop THEN q
        ELSE IF ~room THEN [q EXCEPT !.visited = @ \cup {e}, !.nodes = first, !.nodeCut = TRUE]
        ELSE IF full  THEN [q EXCEPT !.visited = @ \cup {e}, !.nodes = first \cup {e.dst},
                                     !.relCut = TRUE, !.stop = TRUE]
        ELSE [q EXCEPT !.visited = @ \cup {e}, !.nodes = first \cup {e.dst}, !.rels = @ \cup {e},
                       !.next = @ \cup ({n} \ q.known)]

SubgraphRows(q, rows) == FoldLeft(SubgraphRow, q, rows)

ReadSubgraph ==
    /\ query.kind \in {"subgraph", "simulation"}
    /\ query.at < query.request.depth /\ query.frontier # {}
    /\ ~query.stop
    /\ LET done == SubgraphRows(Deeper(query), Take(FrontierRows(query), query.limit))
       IN  query' = [done EXCEPT !.frontier = done.next, !.stop = done.nodeCut \/ done.relCut]
    /\ UNCHANGED <<live, answer>>

\* One row of the frontier of a path query, which wants room for the neighbour only.
PathFrontierRow(q, e) ==
    LET n == Neighbor(e, q.frontier)
        room == HasRoom(q, q.nodes, n)
    IN  [q EXCEPT !.visited = @ \cup {e},
                  !.nodes = IF room THEN @ \cup {n} ELSE @,
                  !.nodeCut = @ \/ ~room,
                  !.next = IF room THEN @ \cup ({n} \ q.known) ELSE @]

Listed(e, filter) == {c \in ListedChannels(e) : filter = {} \/ c \in filter}
PathFrontierRows(q, rows) == FoldLeft(PathFrontierRow, q, rows)

PathRowKey(p) == <<0 - Coalesce(p.edge.weight, 1), p.edge.id, ChannelRank[p.channel]>>
PathRowsOf(q) ==
    UNION {{Path(e, c, Coalesce(e.weight, 1)) : c \in Listed(e, q.request.filter)} : e \in Unvisited(q)}
PathRows(q) == Take(Sorted(PathRowsOf(q), [p \in PathRowsOf(q) |-> PathRowKey(p)]), q.limit + 1)

\* A path keeps the length at which it was found first.
PathRow(q, p) ==
    IF Cardinality(q.paths) >= q.limit * q.request.depth THEN [q EXCEPT !.pathCut = TRUE]
    ELSE IF \E x \in q.paths : x.path = p THEN q
    ELSE [q EXCEPT !.paths = @ \cup {[path |-> p, length |-> q.at]}]

FoundRows(q, rows) == FoldLeft(PathRow, q, rows)

ReadPaths ==
    /\ query.kind = "paths"
    /\ query.at < query.request.depth /\ query.frontier # {}
    /\ LET moved == PathFrontierRows(Deeper(query), Take(FrontierRows(query), query.limit))
           rows  == PathRows(query)
           done  == FoundRows([moved EXCEPT !.pathCut = @ \/ Len(rows) > query.limit], Take(rows, query.limit))
       IN  query' = [done EXCEPT !.frontier = done.next]
    /\ UNCHANGED <<live, answer>>

Finished(q) == q.kind # "none" /\ (q.at = q.request.depth \/ q.frontier = {} \/ q.stop)

AnswerSubgraph ==
    /\ query.kind = "subgraph" /\ Finished(query)
    /\ answer' = [kind |-> "subgraph", request |-> query.request, truncated |-> Truncated(query),
                  nodes |-> query.nodes, rels |-> query.rels]
    /\ query' = Idle /\ UNCHANGED live

\* The best paths, shorter ones first among equal scores.
RankedFound(found, limit) ==
    Take(Sorted(found, [f \in found |-> <<0 - f.path.score, f.length, f.path.edge.id, ChannelRank[f.path.channel]>>]),
         limit)
AnswerPaths ==
    /\ query.kind = "paths" /\ Finished(query)
    /\ answer' = [kind |-> "paths", request |-> query.request,
                  truncated |-> /\ query.request.depth > 0
                                /\ (Truncated(query) \/ Cardinality(query.paths) > query.limit),
                  paths |-> ToSet(RankedFound(query.paths, query.limit))]
    /\ query' = Idle /\ UNCHANGED live

\* The propagation of a simulation sees the subgraph's relationships, each in the
\* channels the client has listed it under.
ScopedResult(rels, c, limit) == ChannelResult({e \in rels : c \in EdgeChannels(e)}, c, limit)
AnswerSimulation ==
    /\ query.kind = "simulation" /\ Finished(query)
    /\ answer' = [kind |-> "simulation", request |-> query.request, truncated |-> Truncated(query),
                  nodes |-> query.nodes, rels |-> query.rels,
                  result |-> Merge([i \in DOMAIN Channels |-> ScopedResult(query.rels, Channels[i], query.limit)],
                                   query.limit)]
    /\ query' = Idle /\ UNCHANGED live

Propagate(r) ==
    /\ query = Idle /\ answer = Idle
    /\ \/ r.kind = "propagation" /\ answer' = [kind |-> r.kind, request |-> r, result |-> FullPropagation(live, r.limit)]
       \/ r.kind = "holdings" /\ answer' = [kind |-> r.kind, request |-> r, result |-> HoldingsAlgorithms(live, r.limit)]
    /\ UNCHANGED <<live, query>>

ReadInit == live \in Graphs /\ query = Idle /\ answer = Idle
ReadNext ==
    \/ \E r \in Requests : Start(r) \/ Propagate(r)
    \/ ReadSubgraph \/ ReadPaths \/ AnswerSubgraph \/ AnswerPaths \/ AnswerSimulation

ReadSpec == ReadInit /\ [][ReadNext]_readVars

-----------------------------------------------------------------------------
\* The nodes within k steps of the seeds, by definition of distance.
Ball(edges, seeds, k) ==
    LET ball[i \in 0..k] == IF i = 0 THEN seeds
                            ELSE ball[i - 1] \cup UNION {{e.src, e.dst} : e \in Touching(edges, ball[i - 1])}
    IN  ball[k]
Reached(edges, seeds, depth) == IF depth = 0 THEN {} ELSE Touching(edges, Ball(edges, seeds, depth - 1))
Distance(edges, seeds, depth, e) == Min({k \in 1..depth : e \in Reached(edges, seeds, k)})
PathsWithin(edges, seeds, depth, filter) ==
    UNION {{[path |-> Path(e, c, Coalesce(e.weight, 1)), length |-> Distance(edges, seeds, depth, e)] : c \in Listed(e, filter)}
             : e \in Reached(edges, seeds, depth)}

\* A traversal that does not say it is truncated is exact (query/service.py): the
\* subgraph is the whole ball around the seeds, the path list is every listed
\* channel of every relationship in it, with the length of the shortest way there.
UntruncatedIsExact ==
    answer.kind \in {"subgraph", "simulation", "paths"} /\ ~answer.truncated =>
        LET r == answer.request IN
        IF answer.kind = "paths"
        THEN answer.paths = PathsWithin(live, r.seeds, r.depth, r.filter)
        ELSE answer.nodes = Ball(live, r.seeds, r.depth) /\ answer.rels = Reached(live, r.seeds, r.depth)

\* A simulation (query/simulation.py) classifies the relationships in Python, a
\* propagation (channels.py) in Cypher: over the same relationships they agree.
SimulationAgrees ==
    answer.kind = "simulation" => answer.result = FullPropagation(answer.rels, answer.request.limit)

\* A result's entities and paths are cut separately (merge.py): an entity is
\* reported without any path to it only when the list of paths is full.
ImpactsAreExplained ==
    answer.kind \in {"propagation", "holdings", "simulation"} =>
        LET r == answer.result IN
        \A i \in DOMAIN r.impacts :
            \/ \E p \in ToSet(r.paths) : EntityOf[p.edge.dst] = r.impacts[i].entity
            \/ Len(r.paths) = answer.request.limit

\* A read that was not truncated, of the graph or of a simulation over it,
\* answers for the whole graph.
ReadsAreExact == UntruncatedIsExact /\ SimulationAgrees
=============================================================================
