----------------------------- MODULE GraphBuild -----------------------------
(***************************************************************************)
(* Graph construction: from what the LLM extracts, chunk by chunk, to the  *)
(* nodes and relationships handed to storage.  Two paths share the steps:  *)
(* _build_graph_from ("single") extracts nodes, resolves them and only     *)
(* then asks for relationships; MultiPassExtractor ("multi") extracts both *)
(* and has them resolved afterwards.                                       *)
(*                                                                         *)
(* A document is what the LLM sees in it: MENTIONS of entities, numbered   *)
(* in the order they are extracted.  A mention has a chunk, the positional *)
(* id ("company_0") the LLM gives it there, a type, a natural key and a    *)
(* content (equal contents are equal property dictionaries).  Each call of *)
(* the LLM numbers anew: mentions found LATE, by a refinement pass, may    *)
(* have a positional id that their chunk has used before.  max_passes is   *)
(* its default 2, one refinement pass.  Chunks are 1, 2, ...; properties,  *)
(* prompts and scores are left out.                                        *)
(*                                                                         *)
(* This is the inside of TransformFlow's TRANSFORM stage: what both have   *)
(* carries a name of its own here, so that one module can extend both.     *)
(***************************************************************************)
EXTENDS Integers, FiniteSets, FiniteSetsExt, Sequences

CONSTANTS
    Documents,   \* what the LLM may see, see IsDocument
    Targets,     \* type -> targets of the relationship types the ontology gives it
    Modes,       \* subset of {"single", "multi"}: enable_multi_pass
    Stable,      \* values of settings.DETERMINISTIC_MODE
    MaxGroup,    \* bound: nodes of a candidate group
    SplinkMin    \* bound: records below which Splink is not run (3 in the code)

IsDocument(d) ==
    LET M == 1..Len(d.chunk) IN
    /\ d.chunks \in Nat \ {0} /\ d.chunk \in Seq(1..d.chunks)
    /\ \A f \in {"alias", "type", "key", "text"} : DOMAIN d[f] = M
    /\ d.props \subseteq M /\ d.late \subseteq M
    /\ \A m, k \in M : d.text[m] = d.text[k] => d.key[m] = d.key[k]
    \* the key is made of the properties, so equal keys have them or lack them
    /\ \A m, k \in M : d.key[m] = d.key[k] => (m \in d.props <=> k \in d.props)
    \* the first pass reads a chunk once, and numbers what it finds there
    /\ \A m, k \in M \ d.late : (m # k /\ d.chunk[m] = d.chunk[k]) => d.alias[m] # d.alias[k]

ASSUME DocumentAssumption == \A d \in Documents : IsDocument(d)
ASSUME ModeAssumption == Modes \subseteq {"single", "multi"} /\ Stable \subseteq BOOLEAN

VARIABLES
    doc, mode, stable,  \* the input and the deployment, picked in Init
    step,       \* the step of the pipeline
    chunk,      \* the chunk the step has come to
    nodes,      \* the list of nodes
    resolved,   \* final_nodes of _compare_and_merge_nodes; new_nodes of a refinement pass
    grouped,    \* nodes_in_groups: ids that were in a candidate group
    edges,      \* the relationships
    revisit,    \* chunks the orphan pass has still to ask about
    disputed,   \* pairs of ids put up for review: flagged by a blocker, kept apart by the LLM
    mixed,      \* history: a node stands for several mentions of different chunks
    overlap,    \* history: the LLM put a node into two of its groups
    chained,    \* history: a representative was itself mapped to another node
    emptied     \* history: mentions whose properties the deduplication has dropped

input     == <<doc, mode, stable>>
accidents == <<mixed, overlap, chained, emptied>>
buildVars == <<input, step, chunk, nodes, resolved, grouped, edges, revisit, disputed, accidents>>

Mentions == 1..Len(doc.chunk)
LastChunk == doc.chunks
MentionsIn(c) == {m \in Mentions : doc.chunk[m] = c}
Ids == {nodes[i].id : i \in DOMAIN nodes}

\* With stable ids, mentions of one type and key have one id: that of the first.
IdOf(m) ==
    IF ~stable THEN m
    ELSE Min({k \in Mentions : doc.key[k] = doc.key[m] /\ doc.type[k] = doc.type[m]})

\* transform_as_nodes; "of" is history: the mentions the node stands for.
NodeFor(m) ==
    [id |-> IdOf(m), type |-> doc.type[m], key |-> doc.key[m], text |-> doc.text[m],
     aliases |-> {doc.alias[m]}, chunks |-> {doc.chunk[m]},
     props |-> m \in doc.props, of |-> {m}]

BuildInit ==
    /\ doc \in Documents /\ mode \in Modes /\ stable \in Stable
    /\ mode = "single" => doc.late = {}
    /\ step = "extract" /\ chunk = 1
    /\ nodes = <<>> /\ resolved = <<>> /\ grouped = {}
    /\ edges = {} /\ revisit = {} /\ disputed = {}
    /\ mixed = FALSE /\ overlap = FALSE /\ chained = FALSE /\ emptied = {}

-----------------------------------------------------------------------------
(* Lists *)

\* The values of f, in ascending order of the weights of their arguments.
ListBy(f, weight) ==
    LET Nth(k) == CHOOSE x \in DOMAIN f :
                      Cardinality({y \in DOMAIN f : weight[y] <= weight[x]}) = k
    IN  [k \in 1..Cardinality(DOMAIN f) |-> f[Nth(k)]]

\* In ascending order of the arguments: a part of a list keeps its order.
List(f) == ListBy(f, [x \in DOMAIN f |-> x])

-----------------------------------------------------------------------------
(* Nodes *)

\* merge_nodes: the base keeps its id and takes the other's aliases, chunks and properties.
Merged(a, b) ==
    [a EXCEPT !.aliases = @ \cup b.aliases, !.chunks = @ \cup b.chunks,
              !.props = @ \/ b.props, !.of = @ \cup b.of]

\* _is_duplicate_node, of the single-pass path.
IsDuplicateNode(a, b) == a.type = b.type /\ a.text = b.text

\* _is_same_node, of the multi-pass extractor.
IsSameNode(a, b) == a.type = b.type /\ (a.id = b.id \/ a.key = b.key \/ a.text = b.text)

Same(how, a, b) ==
    CASE how = "content" -> IsDuplicateNode(a, b)
      [] how = "entity"  -> IsSameNode(a, b)
      [] how = "id"      -> a.id = b.id

\* The second of two equal nodes is dropped, its positional id with it.
Kept(how, a, b) == IF how = "content" THEN [a EXCEPT !.of = @ \cup b.of] ELSE Merged(a, b)

\* A node is appended, or merged into the first that is the same.
Insert(how, ns, n) ==
    LET same == {i \in DOMAIN ns : Same(how, ns[i], n)} IN
    IF same = {} THEN Append(ns, n) ELSE [ns EXCEPT ![Min(same)] = Kept(how, @, n)]

\* The list after the first k of the new nodes.
Inserting(how, ns, new) ==
    LET list[k \in 0..Len(new)] == IF k = 0 THEN ns ELSE Insert(how, list[k - 1], new[k])
    IN  list

Inserted(how, ns, new) == Inserting(how, ns, new)[Len(new)]

NodesFor(M) == List([m \in M |-> NodeFor(m)])

Added(ns, new) == Inserted(IF mode = "single" THEN "content" ELSE "entity", ns, new)

\* A node stands for mentions of several chunks, or has lost one's positional id.
Mixes(ns) ==
    \E i \in DOMAIN ns : \E m, k \in ns[i].of :
        doc.chunk[m] # doc.chunk[k] \/ doc.alias[m] \notin ns[i].aliases

ExtractNodes ==
    /\ step = "extract"
    /\ nodes' = Added(nodes, NodesFor(MentionsIn(chunk) \ doc.late))
    /\ IF chunk < LastChunk
       THEN chunk' = chunk + 1 /\ UNCHANGED step
       ELSE chunk' = 1 /\ step' = IF mode = "single" THEN "compare" ELSE "relate"
    /\ mixed' = (mixed \/ Mixes(nodes'))
    /\ UNCHANGED <<input, resolved, grouped, edges, revisit, disputed, overlap, chained, emptied>>

-----------------------------------------------------------------------------
(* Resolution: blockers flag candidate groups, the LLM splits each into entities *)

\* The dictionary by id; one node or none is returned as it is.
CompareById ==
    /\ step = "compare"
    /\ IF Len(nodes) <= 1 THEN step' = "resolved" /\ UNCHANGED nodes
       ELSE step' = "resolve" /\ nodes' = Inserted("id", <<>>, nodes)
    /\ resolved' = <<>> /\ grouped' = {}
    /\ mixed' = (mixed \/ Mixes(nodes'))
    /\ UNCHANGED <<input, chunk, edges, revisit, disputed, overlap, chained, emptied>>

NodeWith(id) == nodes[Max({i \in DOMAIN nodes : nodes[i].id = id})]

\* MUTATION of Candidates: groups across types.
CandidatesOfAnyType == {G \in SUBSET (Ids \ grouped) : Cardinality(G) \in 2..MaxGroup}

\* Nodes of one type that no blocker has flagged before: what shares a key, is
\* similar or is clustered is the data's and the scores' affair.
Candidates ==
    {G \in SUBSET (Ids \ grouped) :
        /\ Cardinality(G) \in 2..MaxGroup
        /\ \A a, b \in G : NodeWith(a).type = NodeWith(b).type}

\* A list of matching_ids with the node the others are merged into: ids are the
\* LLM's words, so a second list may repeat nodes of the first.  Bound: two lists.
Verdicts(G) ==
    LET groups == {[base |-> b, ids |-> S] : b \in G, S \in SUBSET G}
        real   == {g \in groups : g.base \in g.ids} IN
    {<<>>} \cup {<<g>> : g \in {x \in real : Cardinality(x.ids) > 1}}
          \cup {<<g, h>> : g \in {x \in real : Cardinality(x.ids) > 1}, h \in real}

\* The nodes of a group merged into its base.
Joined(g) ==
    [NodeWith(g.base) EXCEPT !.aliases = UNION {NodeWith(b).aliases : b \in g.ids},
                             !.chunks  = UNION {NodeWith(b).chunks : b \in g.ids},
                             !.props   = \E b \in g.ids : NodeWith(b).props,
                             !.of      = UNION {NodeWith(b).of : b \in g.ids}]

Covered(v) == UNION {v[i].ids : i \in DOMAIN v}

\* MUTATION of Missed: nodes the LLM does not mention are not added.
MissedDropped(G, v) == <<>>

\* The safeguard of resolve_entity_group; an empty or failed answer is all singletons.
Missed(G, v) == List([id \in G \ Covered(v) |-> NodeWith(id)])

Rejected(G, v) ==
    /\ Cardinality(G) = 2
    /\ Len(v) + Cardinality(G \ Covered(v)) = 2
    /\ \A i \in DOMAIN v : Cardinality(v[i].ids) = 1

ResolveGroup ==
    /\ step = "resolve"
    /\ \E G \in Candidates : \E v \in Verdicts(G) :
        /\ resolved' = resolved \o [i \in DOMAIN v |-> Joined(v[i])] \o Missed(G, v)
        /\ grouped' = grouped \cup G
        /\ disputed' = IF Rejected(G, v) THEN disputed \cup {G} ELSE disputed
        /\ overlap' = (overlap \/ (Len(v) = 2 /\ v[1].ids \cap v[2].ids # {}))
    /\ UNCHANGED <<input, step, chunk, nodes, edges, revisit, mixed, chained, emptied>>

\* MUTATION of PassedThrough: every node, also those resolved already.
PassedThroughAll == nodes

PassedThrough == List([i \in {j \in DOMAIN nodes : nodes[j].id \notin grouped} |-> nodes[i]])

\* Nothing is left to flag, or nothing that is left is alike.
ResolvedAll ==
    /\ step = "resolve"
    /\ nodes' = resolved \o PassedThrough
    /\ resolved' = <<>> /\ grouped' = {}
    /\ step' = "resolved"
    /\ mixed' = (mixed \/ Mixes(nodes'))
    /\ UNCHANGED <<input, chunk, edges, revisit, disputed, overlap, chained, emptied>>

Proceed ==
    /\ step = "resolved"
    /\ chunk' = 1
    /\ step' = IF mode = "single" THEN "relate" ELSE "dedup"
    /\ UNCHANGED <<input, nodes, resolved, grouped, edges, revisit, disputed, accidents>>

-----------------------------------------------------------------------------
(* Relationships *)

\* MUTATION of Resolve: the first node with that positional id, whatever its chunk.
ResolveUnscoped(ns, c, alias) ==
    LET carriers == {i \in DOMAIN ns : alias \in ns[i].aliases} IN
    IF carriers = {} THEN 0 ELSE ns[Min(carriers)].id

\* _find_by_original_id: a node of the chunk wins, else the first one; 0 is none.
Resolve(ns, c, alias) ==
    LET carriers == {i \in DOMAIN ns : alias \in ns[i].aliases}
        scoped   == {i \in carriers : c \in ns[i].chunks} IN
    CASE scoped # {}   -> ns[Min(scoped)].id
      [] carriers = {} -> 0
      [] OTHER         -> ns[Min(carriers)].id

\* What a chunk's text may relate, of the mentions extracted so far, resolved
\* against the list ns.  An end named by its id or canonical id needs no
\* resolving; a relationship with an end that resolves to nothing is skipped.
Related(ns, c) ==
    LET known == MentionsIn(c) \cap UNION {ns[i].of : i \in DOMAIN ns} IN
    {r \in {[src |-> Resolve(ns, c, doc.alias[m]), dst |-> Resolve(ns, c, doc.alias[k]),
             from |-> m, to |-> k, auto |-> FALSE] : m, k \in known} :
        r.from # r.to /\ r.src # 0 /\ r.dst # 0}

SameEnds(r, e) == r.src = e.src /\ r.dst = e.dst

\* At most one of them: none, or a duplicate, adds nothing.
Extended(ns, c) ==
    {edges} \cup {edges \cup {r} : r \in {x \in Related(ns, c) : ~\E e \in edges : SameEnds(x, e)}}

RelateChunk ==
    /\ step = "relate"
    /\ edges' \in Extended(nodes, chunk)
    /\ IF chunk < LastChunk
       THEN chunk' = chunk + 1 /\ UNCHANGED step
       ELSE chunk' = 1 /\ step' = IF mode = "single" THEN "dedup" ELSE "refine"
    /\ UNCHANGED <<input, nodes, resolved, grouped, revisit, disputed, accidents>>

\* A refinement pass: each chunk is looked at again, side by side, against the
\* nodes and relationships of the first pass, and a call that fails finds
\* nothing; the new nodes are merged in when all have answered.
Refine ==
    /\ step = "refine"
    /\ \E new \in {NodesFor(MentionsIn(chunk) \cap doc.late), <<>>} :
        /\ edges' \in Extended(nodes \o new, chunk)
        /\ IF chunk < LastChunk
           THEN resolved' = resolved \o new /\ UNCHANGED nodes
           ELSE resolved' = <<>> /\ nodes' = Added(nodes, resolved \o new)
    /\ mixed' = (mixed \/ Mixes(nodes'))
    /\ IF chunk < LastChunk THEN chunk' = chunk + 1 /\ UNCHANGED step
                            ELSE chunk' = 1 /\ step' = "compare"
    /\ UNCHANGED <<input, grouped, revisit, disputed, overlap, chained, emptied>>

\* The validator finds nothing to refine.
Accept ==
    /\ step = "refine" /\ chunk = 1
    /\ step' = "compare"
    /\ UNCHANGED <<input, chunk, nodes, resolved, grouped, edges, revisit, disputed, accidents>>

-----------------------------------------------------------------------------
(* Deduplication after the relationships: equal keys, then Splink *)

\* The key stands for every signature a node has: its canonical id and key and the
\* unique and index properties of its type, of which one in common is enough.
Alike(i, j) == nodes[i].type = nodes[j].type /\ nodes[i].key = nodes[j].key
FirstLike(i) == Min({j \in DOMAIN nodes : Alike(i, j)})

\* duplicate id -> id of the first node with the same key
Heuristic ==
    LET dups == {i \in DOMAIN nodes : nodes[FirstLike(i)].id # nodes[i].id} IN
    [x \in {nodes[i].id : i \in dups} |->
        nodes[FirstLike(CHOOSE i \in dups : nodes[i].id = x)].id]

Rep(map, id) == IF id \in DOMAIN map THEN map[id] ELSE id

\* Types with a node that is mapped to another.
Mapped(ns, map) == {ns[i].type : i \in {j \in DOMAIN ns : ns[j].id \in DOMAIN map}}

\* What stands for the i-th node: the last with the representative's id.  Nothing
\* of the others is kept but (history) the mentions they stood for.
Represented(ns, map, i) ==
    LET rep == Rep(map, ns[i].id)
        alike == {j \in DOMAIN ns : Rep(map, ns[j].id) = rep} IN
    [ns[Max({j \in DOMAIN ns : ns[j].id = rep})] EXCEPT !.of = UNION {ns[j].of : j \in alike}]

\* Of a mapped type one node is left for each representative, where its first
\* member stood; the others are left alone.
Reduced(ns, map) ==
    LET types == Mapped(ns, map)
        left == {i \in DOMAIN ns : ns[i].type \in types =>
                    \A j \in DOMAIN ns : Rep(map, ns[j].id) = Rep(map, ns[i].id) => i <= j}
    IN  List([i \in left |-> IF ns[i].type \in types THEN Represented(ns, map, i) ELSE ns[i]])

\* The nodes type by type, in the order in which the types appear.
ByType ==
    LET Since(t) == Min({i \in DOMAIN nodes : nodes[i].type = t}) IN
    ListBy(nodes, [i \in DOMAIN nodes |-> Since(nodes[i].type) * Len(nodes) + i])

\* Splink sees a type only if the heuristics have left enough of it, and more
\* if they had something to do.
SplinkSees(left, t) ==
    Cardinality({i \in DOMAIN left : left[i].type = t})
        >= IF t \in Mapped(nodes, Heuristic) THEN SplinkMin + 1 ELSE SplinkMin

NoMatch == [x \in {} |-> x]

\* At most one match, of two nodes with properties to compare: the one's id -> the other's.
Matches ==
    LET left == Reduced(ByType, Heuristic) IN
    {NoMatch} \cup
    {[x \in {left[p[1]].id} |-> left[p[2]].id] :
        p \in {q \in (DOMAIN left) \X (DOMAIN left) :
                /\ left[q[1]].type = left[q[2]].type /\ SplinkSees(left, left[q[1]].type)
                /\ left[q[1]].id # left[q[2]].id
                /\ left[q[1]].props /\ left[q[2]].props}}

\* MUTATION of Rewritten: relationships keep the ends they had.
RewrittenNot(map) == edges

\* all_node_mappings: of two entries for an id the later one counts.
Updated(map, new) ==
    [x \in DOMAIN map \cup DOMAIN new |-> IF x \in DOMAIN new THEN new[x] ELSE map[x]]

\* Ends are mapped once; a relationship whose ends become one node is dropped.
Rewritten(map) ==
    LET Moved(e) == [e EXCEPT !.src = Rep(map, @), !.dst = Rep(map, @)] IN
    {Moved(e) : e \in {x \in edges : Moved(x) = x \/ Moved(x).src # Moved(x).dst}}

Orphans(ns, es) == {i \in DOMAIN ns : \A e \in es : ns[i].id \notin {e.src, e.dst}}

\* An exception anywhere in it leaves both lists as they were.
Deduplicate ==
    /\ step = "dedup"
    /\ \/ \E match \in Matches :
            /\ nodes' = Reduced(Reduced(ByType, Heuristic), match)
            /\ edges' = Rewritten(Updated(Heuristic, match))
            /\ chained' = (\E x \in DOMAIN Heuristic : Heuristic[x] \in DOMAIN match)
       \/ UNCHANGED <<nodes, edges, chained>>
    /\ mixed' = (mixed \/ Mixes(nodes'))
    /\ emptied' = {m \in doc.props :
                    /\ \E i \in DOMAIN nodes : m \in nodes[i].of /\ nodes[i].props
                    /\ \E i \in DOMAIN nodes' : m \in nodes'[i].of /\ ~nodes'[i].props}
    /\ IF mode = "single"
       THEN /\ step' = "orphans"
            /\ revisit' = UNION {nodes'[i].chunks : i \in Orphans(nodes', edges')}
       ELSE step' = "prune" /\ UNCHANGED revisit
    /\ UNCHANGED <<input, chunk, resolved, grouped, disputed, overlap>>

-----------------------------------------------------------------------------
(* Orphans *)

\* A chunk with an orphan is asked again; a call that fails adds nothing.
RevisitChunk ==
    /\ step = "orphans"
    /\ \E c \in revisit :
        /\ edges' \in Extended(nodes, c)
        /\ revisit' = revisit \ {c}
    /\ UNCHANGED <<input, step, chunk, nodes, resolved, grouped, disputed, accidents>>

OrphansDone ==
    /\ step = "orphans" /\ revisit = {}
    /\ step' = "prune"
    /\ UNCHANGED <<input, chunk, nodes, resolved, grouped, edges, revisit, disputed, accidents>>

\* The nodes an orphan could be linked to, if its type has one relationship only
\* (types of relationship with the same target are one here).
Partners(i) ==
    {j \in DOMAIN nodes :
        /\ nodes[j].id # nodes[i].id
        /\ Cardinality(Targets[nodes[i].type]) = 1
        /\ nodes[j].type \in Targets[nodes[i].type]}

Prunable == {i \in Orphans(nodes, edges) : ~nodes[i].props}

\* Orphans without properties go, unless there is exactly one node to link them
\* to; a graph without relationships is left alone.
PruneOrphans ==
    LET linked == {i \in Prunable : Cardinality(Partners(i)) = 1}
        left == DOMAIN nodes \ (Prunable \ linked) IN
    /\ step = "prune"
    /\ IF edges = {} THEN UNCHANGED <<nodes, edges>>
       ELSE /\ nodes' = List([i \in left |-> nodes[i]])
            /\ edges' = edges \cup
                 {[src |-> nodes[i].id, dst |-> nodes[Min(Partners(i))].id,
                   from |-> 0, to |-> 0, auto |-> TRUE] : i \in linked}
    /\ step' = "done"
    /\ UNCHANGED <<input, chunk, resolved, grouped, revisit, disputed, accidents>>

Done == step = "done" /\ UNCHANGED buildVars

BuildNext ==
    \/ ExtractNodes \/ CompareById \/ ResolveGroup \/ ResolvedAll \/ Proceed
    \/ RelateChunk \/ Refine \/ Accept \/ Deduplicate
    \/ RevisitChunk \/ OrphansDone \/ PruneOrphans \/ Done

BuildSpec == BuildInit /\ [][BuildNext]_buildVars

-----------------------------------------------------------------------------
(* Properties *)

\* The lists stay what the steps take them for: nodes of the document's
\* mentions, relationships between two of its ids, chunks it has.
BuildTypeOK ==
    /\ step \in {"extract", "compare", "resolve", "resolved", "relate", "refine",
                 "dedup", "orphans", "prune", "done"}
    /\ chunk \in 1..LastChunk /\ revisit \subseteq 1..LastChunk
    /\ \A i \in DOMAIN nodes :
        /\ nodes[i].id \in Mentions
        /\ nodes[i].of # {} /\ nodes[i].of \subseteq Mentions
        /\ \A m \in nodes[i].of : doc.type[m] = nodes[i].type
    /\ \A e \in edges : {e.src, e.dst} \subseteq Mentions
    /\ grouped \subseteq Ids /\ (step = "resolved" => resolved = <<>>)
    /\ {mixed, overlap, chained} \subseteq BOOLEAN /\ emptied \subseteq doc.props

\* In the single-pass path every relationship joins two nodes of the list, up
\* to the pruning, unless a representative was mapped on; pruning breaks only
\* relationships it has made itself.
EndsExistUntilPruned ==
    (mode = "single" /\ ~chained) =>
        \A e \in edges : e.auto \/ {e.src, e.dst} \subseteq Ids

\* Whatever is merged, mapped, missed by the LLM or pruned: a mention that was
\* extracted has a node that stands for it, at the end if it has properties,
\* unless the deduplication preferred a node without any.
NothingExtractedIsLost ==
    step # "extract" =>
        \A m \in Mentions \ doc.late :
            (step # "done" \/ m \in doc.props \ emptied) =>
                \E i \in DOMAIN nodes : m \in nodes[i].of

\* The nodes there are, those of a refinement pass that are not merged in yet included.
Listed == IF step = "refine" THEN nodes \o resolved ELSE nodes

\* If a node of that id is in the list, one of them stands for the mention.
StandsFor(id, m) ==
    id \in Ids => \E i \in DOMAIN Listed : Listed[i].id = id /\ m \in Listed[i].of

\* A refinement pass has given m a positional id that its chunk has for another.
Renumbered(m) ==
    m \in doc.late /\ \E k \in MentionsIn(doc.chunk[m]) \ {m} : doc.alias[k] = doc.alias[m]

\* A positional id is resolved to a node that stands for the mention the text
\* means, unless some node stands for mentions of several chunks or has lost an id,
\* or a refinement pass has used the id again for the mention.
EndsAreThoseNamed ==
    ~mixed => \A e \in edges :
        \/ e.auto
        \/ /\ Renumbered(e.from) \/ StandsFor(e.src, e.from)
           /\ Renumbered(e.to) \/ StandsFor(e.dst, e.to)

\* No id is handed to storage twice, where it would become two vertices, unless
\* the LLM has put a node into two groups.
IdsAreUnique ==
    (step \notin {"extract", "compare"} /\ ~overlap) =>
        \A i, j \in DOMAIN nodes : nodes[i].id = nodes[j].id => i = j
=============================================================================
