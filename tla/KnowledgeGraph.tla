--------------------------- MODULE KnowledgeGraph ---------------------------
(***************************************************************************)
(* The kg.graph queue: GraphBuildService keeps, in Neo4j, the documents,   *)
(* their chunks, the entities the chunks mention and the relations between *)
(* entities; ExtractionService asks an LLM for the entities and relations  *)
(* of a chunk.  Every session.run is a transaction of its own, so builds,  *)
(* deletions and the three kinds of reader interleave query by query.      *)
(* Entities and relations are shared by all documents.                     *)
(***************************************************************************)
EXTENDS Naturals, Sequences, FiniteSets, Selecting

CONSTANTS
    Docs, Texts, Names, Users, Jobs,
    Chunking,       \* Chunking[t]: the chunk texts a text is cut into, in order;
                    \* none for a blank text
    Answer,         \* Answer[c]: the raw answer of the LLM about a chunk text
    Author,         \* Author[d]: who wrote d
    Tags,           \* Tags[d]: the tags of d, split
    Unrestricted,   \* the users who are ADMIN or REVIEWER
    MaxEntities, MaxRelations,      \* KG_MAX_ENTITIES, KG_MAX_RELATIONS
    Limit,          \* the limit a reader asks for
    Keywords,       \* the names and titles each keyword is found in; {} for no keyword
    MaxEvents,      \* bound on publications and withdrawals
    MaxFaults,      \* bound on the kinds of failure in one behaviour
    Null            \* a property that was never set, an empty name or filter

ASSUME GraphAssumption ==
    /\ Chunking \in [Texts -> Seq(DOMAIN Answer)]
    /\ Answer \in [DOMAIN Answer ->
                     [entities : Seq([name : Names \cup {Null}, type : STRING]),
                      relations : Seq([source : Names \cup {Null}, target : Names \cup {Null},
                                       type : STRING])]]
    /\ Author \in [Docs -> Users]
    /\ Keywords \subseteq SUBSET (Names \cup Docs)
    /\ Unrestricted \subseteq Users
    /\ {MaxEntities, MaxRelations, MaxEvents, MaxFaults, Limit} \subseteq Nat
    /\ Null \notin Names \cup Docs \cup Users

VARIABLES
    row,        \* row[d]: what Postgres and Mongo hold of d
    tasks,      \* tasks[d]: the tasks of d not yet handed over, oldest first
    job,        \* the handler runs in progress
    docNode,    \* the KnowledgeDocument nodes: a partial function to their properties
    chunks,     \* the DocumentChunk nodes, each held by the node of its document
    entity,     \* the KnowledgeEntity nodes: a partial function from names to types
    mentions,   \* the MENTIONS edges, <<chunk, name>>
    related,    \* the RELATED_TO edges, at most one per ordered pair
    ask,        \* the reader's request in progress
    events,     \* how many publications and withdrawals there were
    faults,     \* the kinds of failure that have happened
    spaced      \* whether the tasks of one document are handled one by one

graph == <<docNode, chunks, entity, mentions, related>>
world == <<row, events, spaced>>
graphVars == <<world, tasks, job, graph, ask, faults>>

-----------------------------------------------------------------------------
(* Extraction *)

EntityTypes == {"PERSON", "ORGANIZATION", "CONCEPT", "PROCESS"}
RelationTypes == {"RELATED_TO", "HAS_PART", "REQUIRES", "USES"}

\* Mutant: types are taken as they come.
NormalizeEntityType_Raw(t) == t

\* A type the model made up becomes the fallback.
NormalizeEntityType(t) == IF t \in EntityTypes THEN t ELSE "CONCEPT"
NormalizeRelationType(t) == IF t \in RelationTypes THEN t ELSE "RELATED_TO"

FirstOf(s, n) == SubSeq(s, 1, IF n < Len(s) THEN n ELSE Len(s))

\* Cut to the maximum first, unnamed ones dropped afterwards; the ends of a
\* relation are not compared with the entities.
ToExtractionResult(parsed) ==
    LET es == Only(FirstOf(parsed.entities, MaxEntities), [name : Names, type : STRING])
        rs == Only(FirstOf(parsed.relations, MaxRelations),
                   [source : Names, target : Names, type : STRING])
    IN  [entities |-> [i \in DOMAIN es |-> [es[i] EXCEPT !.type = NormalizeEntityType(@)]],
         relations |-> [i \in DOMAIN rs |-> [rs[i] EXCEPT !.type = NormalizeRelationType(@)]]]

\* A call that fails, or an empty chunk, yields no facts.
NoFacts == [entities |-> <<>>, relations |-> <<>>]

\* The queries a chunk's facts are written with: its entities, then relations.
Queries(facts) ==
    [i \in DOMAIN facts.entities |-> [op |-> "ENTITY", of |-> facts.entities[i]]]
      \o [i \in DOMAIN facts.relations |-> [op |-> "RELATION", of |-> facts.relations[i]]]

\* chunkId hashes document, position and text.
ChunksOf(d, t) == [i \in DOMAIN Chunking[t] |-> [doc |-> d, idx |-> i, text |-> Chunking[t][i]]]

-----------------------------------------------------------------------------
(* State *)

Elements(s) == {s[i] : i \in DOMAIN s}
Chunks == UNION {Elements(ChunksOf(d, t)) : d \in Docs, t \in Texts}

Free == [pc |-> "free", doc |-> Null, build |-> FALSE, chunks |-> <<>>, todo |-> <<>>]
JobPC == {"free", "row", "body", "document", "orphans", "node", "chunk", "extract", "facts"}

Idle == [pc |-> "idle", kind |-> "none", user |-> Null, kw |-> {}, type |-> Null,
         nodes |-> {}, edges |-> {}, docs |-> {}]
AskPC == {"idle", "related", "documents", "extra", "answered"}

TypeOK ==
    /\ row \in [Docs -> [text : Texts \cup {Null}, status : {"Draft", "Published", "Deleted"}]]
    /\ tasks \in [Docs -> Seq({"INDEX", "DELETE"})]
    /\ \A j \in Jobs :
        /\ job[j].pc \in JobPC /\ job[j].doc \in Docs \cup {Null}
        /\ job[j].build \in BOOLEAN
        /\ Elements(job[j].chunks) \subseteq Chunks
        /\ \A q \in Elements(job[j].todo) : q.op \in {"ENTITY", "RELATION"}
    /\ DOMAIN docNode \subseteq Docs
    /\ chunks \subseteq Chunks
    /\ DOMAIN entity \subseteq Names /\ \A n \in DOMAIN entity : entity[n] \in EntityTypes
    /\ mentions \subseteq Chunks \X Names
    /\ \A r \in related : {r.source, r.target} \subseteq Names /\ r.type \in RelationTypes
    /\ ask.pc \in AskPC /\ ask.docs \subseteq Docs
    /\ events \in 0..MaxEvents
    /\ faults \subseteq {"handler", "llm"}

Init ==
    /\ row = [d \in Docs |-> [text |-> Null, status |-> "Draft"]]
    /\ tasks = [d \in Docs |-> <<>>]
    /\ job = [j \in Jobs |-> Free]
    /\ docNode = <<>> /\ chunks = {} /\ entity = <<>> /\ mentions = {} /\ related = {}
    /\ ask = Idle
    /\ events = 0 /\ faults = {}
    /\ spaced \in BOOLEAN

Without(f, S) == [x \in DOMAIN f \ S |-> f[x]]
With(f, x, v) == [y \in DOMAIN f \cup {x} |-> IF y = x THEN v ELSE f[y]]
Prop(node, key) == IF key \in DOMAIN node THEN node[key] ELSE Null

-----------------------------------------------------------------------------
(* The document service, as far as this queue sees it: DocumentWorkflow has *)
(* the steps.                                                              *)

Announce(d, type) ==
    /\ tasks' = [tasks EXCEPT ![d] = Append(@, type)]
    /\ events < MaxEvents
    /\ events' = events + 1
    /\ UNCHANGED <<job, graph, ask, faults, spaced>>

Publish(d, t) ==
    /\ row[d].status = "Draft"
    /\ row' = [row EXCEPT ![d] = [text |-> t, status |-> "Published"]]
    /\ Announce(d, "INDEX")

Withdraw(d, status) ==
    /\ row[d].status = "Published"
    /\ row' = [row EXCEPT ![d].status = status]
    /\ Announce(d, "DELETE")

-----------------------------------------------------------------------------
(* Build and deletion *)

Working(j) == job[j].pc # "free"
Goto(j, pc) == job' = [job EXCEPT ![j].pc = pc]
Done(j) == job' = [job EXCEPT ![j] = Free]

Fault(kind) == Cardinality(faults) < MaxFaults /\ faults' = faults \cup {kind}

\* The consumer hands the next task of d to a handler.
Take(j, d) ==
    /\ ~Working(j) /\ tasks[d] # <<>>
    /\ spaced => \A k \in Jobs : Working(k) => job[k].doc # d
    /\ tasks' = [tasks EXCEPT ![d] = Tail(@)]
    /\ job' = [job EXCEPT ![j] =
                 [Free EXCEPT !.doc = d, !.build = Head(tasks[d]) = "INDEX",
                              !.pc = IF Head(tasks[d]) = "INDEX" THEN "row" ELSE "document"]]
    /\ UNCHANGED <<world, graph, ask, faults>>

\* buildByDocId looks for a live row, whatever its status ...
ReadRow(j) ==
    /\ job[j].pc = "row"
    /\ IF row[job[j].doc].status = "Deleted" THEN Done(j) ELSE Goto(j, "body")
    /\ UNCHANGED <<world, tasks, graph, ask, faults>>

Blank(t) == Chunking[t] = <<>>

\* ... and for the body it has by then.  The old graph is cleared first, but
\* not for a blank body.
ReadBody(j) ==
    /\ job[j].pc = "body"
    /\ IF row[job[j].doc].status = "Deleted" \/ Blank(row[job[j].doc].text)
       THEN Done(j)
       ELSE job' = [job EXCEPT ![j].pc = "document",
                               ![j].chunks = ChunksOf(job[j].doc, row[job[j].doc].text)]
    /\ UNCHANGED <<world, tasks, graph, ask, faults>>

\* Mutant: DETACH DELETE d only.
DropDocument_LeavesChunks(j) ==
    /\ job[j].pc = "document"
    /\ docNode' = Without(docNode, {job[j].doc})
    /\ Goto(j, "orphans")
    /\ UNCHANGED <<world, tasks, chunks, mentions, entity, related, ask, faults>>

\* First query: the document and its chunks go, with their edges.
DropDocument(j) ==
    /\ job[j].pc = "document"
    /\ docNode' = Without(docNode, {job[j].doc})
    /\ chunks' = {c \in chunks : c.doc # job[j].doc}
    /\ mentions' = {m \in mentions : m[1].doc # job[j].doc}
    /\ Goto(j, "orphans")
    /\ UNCHANGED <<world, tasks, entity, related, ask, faults>>

Orphans == {n \in DOMAIN entity : \A m \in mentions : m[2] # n}

AfterOrphans(j) == IF job[j].build THEN Goto(j, "node") ELSE Done(j)

\* Mutant: an entity with a single mention counts as an orphan.
DropOrphans_MentionedOnce(j) ==
    /\ job[j].pc = "orphans"
    /\ LET rare == {n \in DOMAIN entity : Cardinality({m \in mentions : m[2] = n}) < 2}
       IN  /\ entity' = Without(entity, rare)
           /\ mentions' = {m \in mentions : m[2] \notin rare}
           /\ related' = {r \in related : {r.source, r.target} \cap rare = {}}
    /\ AfterOrphans(j)
    /\ UNCHANGED <<world, tasks, docNode, chunks, ask, faults>>

\* Mutant: a build skips the clean-up that a deletion does.
DropOrphans_OnlyOnDelete(j) ==
    /\ job[j].pc = "orphans"
    /\ entity' = IF job[j].build THEN entity ELSE Without(entity, Orphans)
    /\ related' = {r \in related : {r.source, r.target} \subseteq DOMAIN entity'}
    /\ AfterOrphans(j)
    /\ UNCHANGED <<world, tasks, docNode, chunks, mentions, ask, faults>>

\* Second query: every entity no chunk mentions goes, whoever left it.
DropOrphans(j) ==
    /\ job[j].pc = "orphans"
    /\ entity' = Without(entity, Orphans)
    /\ related' = {r \in related : {r.source, r.target} \cap Orphans = {}}
    /\ AfterOrphans(j)
    /\ UNCHANGED <<world, tasks, docNode, chunks, mentions, ask, faults>>

\* The properties the node is given do not include isPublic and teamId.
MergeDocument(j) ==
    /\ job[j].pc = "node"
    /\ docNode' = With(docNode, job[j].doc, [authorId |-> Author[job[j].doc]])
    /\ Goto(j, "chunk")
    /\ UNCHANGED <<world, tasks, chunks, entity, mentions, related, ask, faults>>

\* MATCH d, MERGE chunk and HAS_CHUNK: nothing when the node is gone.
MergeChunk(j) ==
    /\ job[j].pc = "chunk"
    /\ IF job[j].chunks = <<>>
       THEN Done(j) /\ UNCHANGED chunks
       ELSE /\ chunks' = chunks \cup IF job[j].doc \in DOMAIN docNode
                                     THEN {Head(job[j].chunks)} ELSE {}
            /\ Goto(j, "extract")
    /\ UNCHANGED <<world, tasks, docNode, entity, mentions, related, ask, faults>>

NextChunk(run) == [run EXCEPT !.pc = "chunk", !.chunks = Tail(@), !.todo = <<>>]

WithQueries(run, todo) ==
    IF todo = <<>> THEN NextChunk(run) ELSE [run EXCEPT !.pc = "facts", !.todo = todo]

\* Seconds pass while the LLM reads the chunk; a failure is logged and the
\* chunk has no facts.
Extract(j) ==
    /\ job[j].pc = "extract"
    /\ LET answer == Answer[Head(job[j].chunks).text]
       IN  \/ /\ job' = [job EXCEPT ![j] = WithQueries(@, Queries(ToExtractionResult(answer)))]
              /\ UNCHANGED faults
           \/ /\ job' = [job EXCEPT ![j] = WithQueries(@, Queries(NoFacts))]
              /\ Fault("llm")
    /\ UNCHANGED <<world, tasks, graph, ask>>

\* MATCH chunk, MERGE entity and MENTIONS; the last writer names the type.
MergeEntity(c, e) ==
    /\ IF c \in chunks
       THEN entity' = With(entity, e.name, e.type) /\ mentions' = mentions \cup {<<c, e.name>>}
       ELSE UNCHANGED <<entity, mentions>>
    /\ UNCHANGED related

\* MATCH both ends, MERGE one edge per ordered pair, SET rel.type.
MergeRelation(r) ==
    /\ related' = IF {r.source, r.target} \subseteq DOMAIN entity
                  THEN {s \in related : s.source # r.source \/ s.target # r.target} \cup {r}
                  ELSE related
    /\ UNCHANGED <<entity, mentions>>

\* One query of the facts of a chunk; after the last comes the next chunk.
WriteFact(j) ==
    /\ job[j].pc = "facts" /\ job[j].todo # <<>>
    /\ LET q == Head(job[j].todo)
       IN  IF q.op = "ENTITY" THEN MergeEntity(Head(job[j].chunks), q.of) ELSE MergeRelation(q.of)
    /\ job' = [job EXCEPT ![j] = WithQueries(@, Tail(@.todo))]
    /\ UNCHANGED <<world, tasks, docNode, chunks, ask, faults>>

\* A query throws: the loop over the documents logs it and the task is acked.
HandlerFails(j) ==
    /\ Working(j)
    /\ Done(j)
    /\ Fault("handler")
    /\ UNCHANGED <<world, tasks, graph, ask>>

Build(j) ==
    \/ ReadRow(j) \/ ReadBody(j) \/ DropDocument(j) \/ DropOrphans(j)
    \/ MergeDocument(j) \/ MergeChunk(j) \/ Extract(j) \/ WriteFact(j)

-----------------------------------------------------------------------------
(* Readers.  A keyword stands for the names and titles it is found in; which *)
(* nodes survive a LIMIT is left open, since the order they are sorted by   *)
(* is not kept.                                                            *)

Clamp(n, low, high) == IF n < low THEN low ELSE IF n > high THEN high ELSE n

Pick(S, n) == {T \in SUBSET S : Cardinality(T) = IF Cardinality(S) < n THEN Cardinality(S) ELSE n}

DocId(d) == <<"doc", d>>
EntityId(n) == <<"entity", n>>
TagId(t) == <<"tag", t>>

NamesIn(nodes) == {x[2] : x \in {y \in nodes : y[1] = "entity"}}
DocsIn(nodes) == {x[2] : x \in {y \in nodes : y[1] = "doc"}}

MentionedBy(d) == {m[2] : m \in {x \in mentions : x[1].doc = d}}

\* RELATED_TO edges with both ends among the names, labelled by Label.
RelatedAmong(names, Label(_)) ==
    {[source |-> EntityId(r.source), target |-> EntityId(r.target), relation |-> Label(r)] :
        r \in {x \in related : {x.source, x.target} \subseteq names}}

\* coalesce(r.relation, r.type, 'RELATED_TO')
SubgraphLabel(r) == IF Prop(r, "relation") # Null THEN Prop(r, "relation") ELSE r.type

\* coalesce(nullif(r.relation, 'RELATED_TO'), '关联'); the overview's
\* r.relation || '关联' differs from it only for RELATED_TO itself.
Generic == "associated"
ChatLabel(r) == IF Prop(r, "relation") \in {Null, "RELATED_TO"} THEN Generic ELSE r.relation
OverviewLabel(r) == IF Prop(r, "relation") = Null THEN Generic ELSE r.relation

\* neo4jDocumentAccessWhere over neo4jAccessParams; teamIds is always empty.
AccessWhere(d, u) ==
    \/ u \in Unrestricted
    \/ Prop(docNode[d], "authorId") = u
    \/ Prop(docNode[d], "isPublic") = TRUE

Ready == ask.pc \in {"idle", "answered"}
Answered(a) == [a EXCEPT !.pc = "answered", !.kind = "none", !.user = Null, !.type = Null]
Reading == UNCHANGED <<world, tasks, job, graph, faults>>

\* searchGraphSubgraph, its three queries.
Subgraph(kw) ==
    /\ Ready
    /\ LET hits == {DocId(d) : d \in kw \cap DOMAIN docNode}
                     \cup {EntityId(n) : n \in kw \cap DOMAIN entity}
       IN  \E nodes \in Pick(hits, Clamp(Limit, 1, 100)) :
             ask' = IF nodes = {} THEN Answered(Idle)
                    ELSE [Idle EXCEPT !.pc = "related", !.kind = "subgraph", !.nodes = nodes]
    /\ Reading

SubgraphRelated ==
    /\ ask.pc = "related" /\ ask.kind = "subgraph"
    /\ ask' = [ask EXCEPT !.pc = "documents",
                          !.edges = IF Cardinality(NamesIn(ask.nodes)) < 2 THEN {}
                                    ELSE RelatedAmong(NamesIn(ask.nodes), SubgraphLabel)]
    /\ Reading

SubgraphMentions ==
    /\ ask.pc = "documents" /\ ask.kind = "subgraph"
    /\ ask' = [Answered(ask) EXCEPT
                          !.edges = @ \cup
                            {[source |-> DocId(m[1].doc), target |-> EntityId(m[2]),
                              relation |-> "MENTIONS"] :
                                m \in {x \in mentions : /\ x[1].doc \in DocsIn(ask.nodes)
                                                        /\ x[2] \in NamesIn(ask.nodes)}}]
    /\ Reading

\* retrieveForChat: the visible entities first ...
Chat(u, kw) ==
    /\ Ready
    /\ LET visible(n) == \/ u \in Unrestricted
                         \/ \E m \in mentions : /\ m[2] = n /\ m[1].doc \in DOMAIN docNode
                                                /\ AccessWhere(m[1].doc, u)
           hits == {EntityId(n) : n \in {x \in kw \cap DOMAIN entity : visible(x)}}
       IN  \E nodes \in Pick(hits, Clamp(Limit, 1, 20)) :
             ask' = IF nodes = {} THEN Answered(Idle)
                    ELSE [Idle EXCEPT !.pc = "related", !.kind = "chat", !.user = u,
                                      !.nodes = nodes]
    /\ Reading

\* ... then the relations among them ...
ChatRelated ==
    /\ ask.pc = "related" /\ ask.kind = "chat"
    /\ ask' = [ask EXCEPT !.pc = "documents",
                          !.edges = RelatedAmong(NamesIn(ask.nodes), ChatLabel)]
    /\ Reading

\* ... then the visible documents they come from.
ChatDocuments ==
    /\ ask.pc = "documents" /\ ask.kind = "chat"
    /\ LET from == {d \in DOMAIN docNode : /\ MentionedBy(d) \cap NamesIn(ask.nodes) # {}
                                           /\ AccessWhere(d, ask.user)}
       IN  \E docs \in Pick(from, 8) :
             ask' = [Answered(ask) EXCEPT !.docs = docs]
    /\ Reading

\* What the records of the documents S put on the overview: themselves, their
\* tags, and the entities they mention of the type asked for.
CanvasNames(d, type) == {n \in MentionedBy(d) : type = Null \/ entity[n] = type}
CanvasNodes(S, type) ==
    {DocId(d) : d \in S} \cup (UNION {{TagId(t) : t \in Tags[d]} : d \in S})
      \cup (UNION {{EntityId(n) : n \in CanvasNames(d, type)} : d \in S})
CanvasEdges(S, type) ==
    UNION {{[source |-> DocId(d), target |-> TagId(t), relation |-> "tagged"] : t \in Tags[d]}
             \cup {[source |-> DocId(d), target |-> EntityId(n), relation |-> "mentions"] :
                      n \in CanvasNames(d, type)} : d \in S}

OnCanvas(docs, pc) ==
    ask' = [ask EXCEPT !.pc = pc, !.kw = {}, !.docs = @ \cup docs,
                       !.nodes = @ \cup CanvasNodes(docs, ask.type),
                       !.edges = @ \cup CanvasEdges(docs, ask.type)]

\* getOverview: the main query takes the documents whose title, summary or
\* tags hold the keyword, all of them when there is none ...
Overview(kw, type) ==
    /\ Ready
    /\ \E docs \in Pick({d \in DOMAIN docNode : kw = {} \/ d \in kw}, Clamp(Limit, 1, 80)) :
         ask' = [Idle EXCEPT !.pc = IF kw = {} THEN "related" ELSE "extra",
                             !.kind = "overview", !.kw = kw, !.type = type,
                             !.docs = docs, !.nodes = CanvasNodes(docs, type),
                             !.edges = CanvasEdges(docs, type)]
    /\ Reading

\* ... a second adds documents mentioning an entity the keyword is found in ...
OverviewExtra ==
    /\ ask.pc = "extra"
    /\ LET found == {d \in DOMAIN docNode : MentionedBy(d) \cap ask.kw # {}}
       IN  \E docs \in Pick(found, Clamp(Limit, 1, 80)) : OnCanvas(docs \ ask.docs, "related")
    /\ Reading

\* Mutant: one end on the canvas is enough.
OverviewRelated_OneEnd ==
    /\ ask.pc = "related" /\ ask.kind = "overview"
    /\ ask' = [Answered(ask) EXCEPT
                 !.edges = @ \cup
                   {[source |-> EntityId(r.source), target |-> EntityId(r.target),
                     relation |-> OverviewLabel(r)] :
                       r \in {x \in related : {x.source, x.target} \cap NamesIn(ask.nodes) # {}}}]
    /\ Reading

\* ... and a third the relations among the entities on the canvas.
OverviewRelated ==
    /\ ask.pc = "related" /\ ask.kind = "overview"
    /\ ask' = [Answered(ask) EXCEPT
                          !.edges = @ \cup RelatedAmong(NamesIn(ask.nodes), OverviewLabel)]
    /\ Reading

\* A query throws: chat and overview answer with nothing.
AskFails ==
    /\ ~Ready /\ ask.kind \in {"chat", "overview"}
    /\ ask' = Answered(Idle)
    /\ Reading

Read ==
    \/ \E kw \in Keywords \ {{}} : Subgraph(kw) \/ \E u \in Users : Chat(u, kw)
    \/ \E kw \in Keywords, type \in {Null, "CONCEPT"} : Overview(kw, type)
    \/ SubgraphRelated \/ SubgraphMentions \/ ChatRelated \/ ChatDocuments
    \/ OverviewExtra \/ OverviewRelated \/ AskFails

Next ==
    \/ \E d \in Docs, t \in Texts : Publish(d, t)
    \/ \E d \in Docs : Withdraw(d, "Draft") \/ Withdraw(d, "Deleted")
    \/ \E j \in Jobs : Build(j) \/ HandlerFails(j) \/ \E d \in Docs : Take(j, d)
    \/ Read

Spec == Init /\ [][Next]_graphVars

-----------------------------------------------------------------------------
(* Properties *)

\* Whatever builds and deletions interleave or die, no chunk outlives its
\* document, no mention its chunk or entity, no relation one of its ends.
NothingDangles ==
    /\ \A c \in chunks : c.doc \in DOMAIN docNode
    /\ \A m \in mentions : m[1] \in chunks /\ m[2] \in DOMAIN entity
    /\ \A r \in related : {r.source, r.target} \subseteq DOMAIN entity

Quiet == (\A j \in Jobs : ~Working(j)) /\ (\A d \in Docs : tasks[d] = <<>>)

\* Cleaning up is a query of its own, run by whoever deletes; when all is done
\* and no handler died in between, every entity is still mentioned by a chunk.
OrphansCleared ==
    (Quiet /\ "handler" \notin faults) => Orphans = {}

ExpectedChunks(d) ==
    IF row[d].status = "Published" THEN Elements(ChunksOf(d, row[d].text)) ELSE {}
FactNames(c) ==
    LET es == ToExtractionResult(Answer[c.text]).entities IN {es[i].name : i \in DOMAIN es}

\* The graph holds of d what its text says, nothing if it is not published or
\* its text is blank.
Agrees(d) ==
    /\ d \in DOMAIN docNode <=> row[d].status = "Published" /\ ~Blank(row[d].text)
    /\ {c \in chunks : c.doc = d} = ExpectedChunks(d)
    /\ \A c \in ExpectedChunks(d) : {m[2] : m \in {x \in mentions : x[1] = c}} = FactNames(c)

\* With the tasks of a document handled one by one, builds and clean-ups of
\* other documents never take away what a document's own build wrote; nor does
\* a build that finds a blank body leave an earlier text in the graph, since a
\* withdrawal has been handled in between.
GraphAgrees == (spaced /\ Quiet /\ faults = {}) => \A d \in Docs : Agrees(d)

\* Every edge of an answer joins two nodes of that answer, although the graph
\* changes between the queries the answer is made of.
AnswersAreClosed ==
    \A e \in ask.edges : {e.source, e.target} \subseteq ask.nodes
=============================================================================
