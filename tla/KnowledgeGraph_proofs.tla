------------------------ MODULE KnowledgeGraph_proofs ------------------------
(***************************************************************************)
(* What builds, deletions and readers of the graph keep to, for every set of *)
(* documents, texts, names and jobs, and whatever the LLM answers.           *)
(***************************************************************************)
EXTENDS KnowledgeGraph, Selecting_proofs, SequenceTheorems

-----------------------------------------------------------------------------
(* The invariant, by parts *)

ChunksIn(d) == {c \in Chunks : c.doc = d}

EntityQuery == [op : {"ENTITY"}, of : [name : Names, type : EntityTypes]]
RelationQuery ==
    [op : {"RELATION"}, of : [source : Names, target : Names, type : RelationTypes]]
RunType == [pc : JobPC, doc : Docs \cup {Null}, build : BOOLEAN, chunks : Seq(Chunks),
            todo : Seq(EntityQuery \cup RelationQuery)]

\* A handler knows its document, whose row has had a text since it was first
\* published, and holds only chunks of that document.
Holds(r) ==
    /\ r.doc \in Docs
    /\ row[r.doc].text \in Texts
    /\ r.chunks \in Seq(ChunksIn(r.doc))
    /\ r.pc \in {"extract", "facts"} => r.chunks # <<>>
    /\ r.pc = "facts" => r.todo # <<>>

RowsTyped ==
    /\ row \in [Docs -> [text : Texts \cup {Null}, status : {"Draft", "Published", "Deleted"}]]
    /\ tasks \in [Docs -> Seq({"INDEX", "DELETE"})]
    /\ \A d \in Docs : tasks[d] # <<>> \/ row[d].status = "Published" => row[d].text \in Texts
    /\ events \in 0..MaxEvents
    /\ spaced \in BOOLEAN
    /\ faults \subseteq {"handler", "llm"}

JobsTyped ==
    /\ job \in [Jobs -> RunType]
    /\ \A j \in Jobs : Working(j) => Holds(job[j])

GraphTyped ==
    /\ DOMAIN docNode \subseteq Docs
    /\ chunks \subseteq Chunks
    /\ DOMAIN entity \subseteq Names /\ \A n \in DOMAIN entity : entity[n] \in EntityTypes
    /\ mentions \subseteq Chunks \X Names
    /\ related \subseteq [source : Names, target : Names, type : RelationTypes]

Typed == RowsTyped /\ JobsTyped /\ GraphTyped

-----------------------------------------------------------------------------
(* Facts about the operators *)

\* A text gives chunks of the document it is the text of.
LEMMA ChunksOfAre ==
    ASSUME NEW d \in Docs, NEW t \in Texts
    PROVE  /\ ChunksOf(d, t) \in Seq(ChunksIn(d))
           /\ Elements(ChunksOf(d, t)) \subseteq ChunksIn(d)
<1>1. Chunking[t] \in Seq(DOMAIN Answer)
  BY GraphAssumption
<1>2. ASSUME NEW i \in DOMAIN Chunking[t]
      PROVE  ChunksOf(d, t)[i] \in ChunksIn(d)
  <2>1. ChunksOf(d, t)[i] \in Elements(ChunksOf(d, t))
    BY DEF Elements, ChunksOf
  <2>2. ChunksOf(d, t)[i] \in Chunks
    BY <2>1 DEF Chunks
  <2>3. ChunksOf(d, t)[i].doc = d
    BY DEF ChunksOf
  <2> QED
    BY <2>2, <2>3 DEF ChunksIn
<1>3. DOMAIN Chunking[t] = 1..Len(Chunking[t]) /\ Len(Chunking[t]) \in Nat
  BY <1>1
<1>4. ChunksOf(d, t) = [i \in 1..Len(Chunking[t]) |-> ChunksOf(d, t)[i]]
  BY <1>3 DEF ChunksOf
<1>5. ChunksOf(d, t) \in Seq(ChunksIn(d))
  <2> DEFINE f == ChunksOf(d, t)
             n == Len(Chunking[t])
  <2>1. n \in Nat /\ f = [i \in 1..n |-> f[i]] /\ \A i \in 1..n : f[i] \in ChunksIn(d)
    BY <1>2, <1>3, <1>4
  <2> HIDE DEF f, n
  <2>2. f \in Seq(ChunksIn(d))
    BY <2>1
  <2> QED
    BY <2>2 DEF f
<1>6. DOMAIN ChunksOf(d, t) = DOMAIN Chunking[t]
  BY DEF ChunksOf
<1> QED
  BY <1>2, <1>5, <1>6 DEF Elements

\* A chunk is of a document, and the LLM has an answer about its text.
LEMMA ChunksAre ==
    ASSUME NEW c \in Chunks
    PROVE  c.doc \in Docs /\ c.text \in DOMAIN Answer
<1>1. PICK d \in Docs, t \in Texts : c \in Elements(ChunksOf(d, t))
  BY DEF Chunks
<1>2. PICK i \in DOMAIN Chunking[t] : c = [doc |-> d, idx |-> i, text |-> Chunking[t][i]]
  BY <1>1 DEF Elements, ChunksOf
<1>3. Chunking[t] \in Seq(DOMAIN Answer)
  BY GraphAssumption
<1> QED
  BY <1>2, <1>3

\* The maximum cuts a sequence to a shorter one.
LEMMA FirstOfIsASeq ==
    ASSUME NEW T, NEW s \in Seq(T), NEW n \in Nat
    PROVE  FirstOf(s, n) \in Seq(T) /\ Len(FirstOf(s, n)) <= n
<1>1. CASE n < Len(s)
  BY <1>1, SubSeqProperties DEF FirstOf
<1>2. CASE ~(n < Len(s))
  BY <1>2, SubSeqProperties DEF FirstOf
<1> QED
  BY <1>1, <1>2

\* What is kept of an answer is two sequences.
LEMMA ExtractedAre ==
    ASSUME NEW t \in DOMAIN Answer
    PROVE  \E n \in Nat, m \in Nat :
              /\ DOMAIN ToExtractionResult(Answer[t]).entities = 1..n
              /\ DOMAIN ToExtractionResult(Answer[t]).relations = 1..m
<1> DEFINE EN == [name : Names, type : STRING]
           RN == [source : Names, target : Names, type : STRING]
           es == Only(FirstOf(Answer[t].entities, MaxEntities), EN)
           rs == Only(FirstOf(Answer[t].relations, MaxRelations), RN)
<1>1. FirstOf(Answer[t].entities, MaxEntities) \in Seq([name : Names \cup {Null}, type : STRING])
  BY GraphAssumption, FirstOfIsASeq
<1>2. FirstOf(Answer[t].relations, MaxRelations)
        \in Seq([source : Names \cup {Null}, target : Names \cup {Null}, type : STRING])
  BY GraphAssumption, FirstOfIsASeq
<1>3. es \in Seq([name : Names \cup {Null}, type : STRING] \cap EN)
  BY <1>1, OnlyIsASeq
<1>4. rs \in Seq([source : Names \cup {Null}, target : Names \cup {Null}, type : STRING] \cap RN)
  BY <1>2, OnlyIsASeq
<1>5. /\ DOMAIN ToExtractionResult(Answer[t]).entities = DOMAIN es
      /\ DOMAIN ToExtractionResult(Answer[t]).relations = DOMAIN rs
  BY DEF ToExtractionResult
<1> HIDE DEF es, rs
<1>6. DOMAIN es = 1..Len(es) /\ Len(es) \in Nat /\ DOMAIN rs = 1..Len(rs) /\ Len(rs) \in Nat
  BY <1>3, <1>4
<1> QED
  BY <1>5, <1>6

\* Every query the facts of an answer are written with names what it writes and
\* has one of the known types.
LEMMA FactsAreTyped ==
    ASSUME NEW t \in DOMAIN Answer
    PROVE  Queries(ToExtractionResult(Answer[t])) \in Seq(EntityQuery \cup RelationQuery)
<1> DEFINE EN == [name : Names, type : STRING]
           RN == [source : Names, target : Names, type : STRING]
           p == Answer[t]
           fe == FirstOf(p.entities, MaxEntities)
           fr == FirstOf(p.relations, MaxRelations)
           es == Only(fe, EN)
           rs == Only(fr, RN)
           ees == [i \in DOMAIN es |-> [es[i] EXCEPT !.type = NormalizeEntityType(@)]]
           rrs == [i \in DOMAIN rs |-> [rs[i] EXCEPT !.type = NormalizeRelationType(@)]]
           qe == [i \in DOMAIN ees |-> [op |-> "ENTITY", of |-> ees[i]]]
           qr == [i \in DOMAIN rrs |-> [op |-> "RELATION", of |-> rrs[i]]]
<1>1. fe \in Seq([name : Names \cup {Null}, type : STRING])
  BY GraphAssumption, FirstOfIsASeq
<1>2. fr \in Seq([source : Names \cup {Null}, target : Names \cup {Null}, type : STRING])
  BY GraphAssumption, FirstOfIsASeq
<1>3. es \in Seq([name : Names \cup {Null}, type : STRING] \cap EN)
  BY <1>1, OnlyIsASeq
<1>4. rs \in Seq([source : Names \cup {Null}, target : Names \cup {Null}, type : STRING] \cap RN)
  BY <1>2, OnlyIsASeq
<1> HIDE DEF es, rs, fe, fr
<1>5. \A i \in DOMAIN es : es[i] \in EN
  BY <1>3
<1>6. \A i \in DOMAIN rs : rs[i] \in RN
  BY <1>4
<1>7. \A i \in DOMAIN es : [es[i] EXCEPT !.type = NormalizeEntityType(@)]
                              \in [name : Names, type : EntityTypes]
  BY <1>5 DEF NormalizeEntityType, EntityTypes
<1>8. \A i \in DOMAIN rs : [rs[i] EXCEPT !.type = NormalizeRelationType(@)]
                              \in [source : Names, target : Names, type : RelationTypes]
  BY <1>6 DEF NormalizeRelationType, RelationTypes
<1>9. \A i \in DOMAIN es : qe[i] \in EntityQuery
  BY <1>7 DEF EntityQuery
<1>10. \A i \in DOMAIN rs : qr[i] \in RelationQuery
  BY <1>8 DEF RelationQuery
<1>11. qe = [i \in 1..Len(es) |-> qe[i]] /\ Len(es) \in Nat /\ DOMAIN es = 1..Len(es)
  BY <1>3
<1>12. qr = [i \in 1..Len(rs) |-> qr[i]] /\ Len(rs) \in Nat /\ DOMAIN rs = 1..Len(rs)
  BY <1>4
<1>13. qe \in Seq(EntityQuery)
  BY <1>9, <1>11, IsASeq
<1>14. qr \in Seq(RelationQuery)
  BY <1>10, <1>12, IsASeq
<1>15. qe \in Seq(EntityQuery \cup RelationQuery) /\ qr \in Seq(EntityQuery \cup RelationQuery)
  BY <1>13, <1>14
<1>16. qe \o qr \in Seq(EntityQuery \cup RelationQuery)
  <2> HIDE DEF qe, qr
  <2> QED
    BY <1>15, ConcatProperties
<1>17. Queries(ToExtractionResult(Answer[t])) = qe \o qr
  BY DEF Queries, ToExtractionResult, es, rs, fe, fr
<1> QED
  BY <1>16, <1>17

\* No facts, no queries.
LEMMA NoQueries == Queries(NoFacts) = <<>>
<1>1. [i \in DOMAIN NoFacts.entities |-> [op |-> "ENTITY", of |-> NoFacts.entities[i]]] = <<>>
  BY DEF NoFacts
<1>2. [i \in DOMAIN NoFacts.relations |-> [op |-> "RELATION", of |-> NoFacts.relations[i]]] = <<>>
  BY DEF NoFacts
<1> QED
  BY <1>1, <1>2 DEF Queries
\* Adding to a partial function and taking away from one.
LEMMA WithIs ==
    ASSUME NEW f, NEW x, NEW v
    PROVE  /\ DOMAIN With(f, x, v) = DOMAIN f \cup {x}
           /\ With(f, x, v)[x] = v
           /\ \A y \in DOMAIN f : y # x => With(f, x, v)[y] = f[y]
  BY DEF With

\* Taking a set of elements away from a partial function.
LEMMA WithoutIs ==
    ASSUME NEW f, NEW S
    PROVE  /\ DOMAIN Without(f, S) = DOMAIN f \ S
           /\ \A y \in DOMAIN f \ S : Without(f, S)[y] = f[y]
  BY DEF Without

-----------------------------------------------------------------------------
(* Types *)

\* The types hold initially.
LEMMA TypedInit == Init => Typed
<1> SUFFICES ASSUME Init PROVE Typed
  OBVIOUS
<1>1. RowsTyped
  BY GraphAssumption DEF Init, RowsTyped
<1>2. JobsTyped
  BY DEF Init, JobsTyped, RunType, Free, JobPC, Working
<1>3. GraphTyped
  BY DEF Init, GraphTyped
<1> QED
  BY <1>1, <1>2, <1>3 DEF Typed

\* A run that moves on with the same document, and chunks of it, is still sound.
LEMMA RunMoves ==
    ASSUME Typed, NEW j \in Jobs, NEW r \in RunType, UNCHANGED row,
           job' = [job EXCEPT ![j] = r],
           r.pc # "free" => Holds(r)
    PROVE  JobsTyped'
<1>1. job' \in [Jobs -> RunType]
  BY DEF Typed, JobsTyped
<1>2. ASSUME NEW k \in Jobs, Working(k)'
      PROVE  Holds(job[k])'
  <2>1. CASE k = j
    BY <1>2, <2>1 DEF Typed, JobsTyped, Working, Holds
  <2>2. CASE k # j
    BY <1>2, <2>2 DEF Typed, JobsTyped, Working, Holds
  <2> QED
    BY <2>1, <2>2
<1> QED
  BY <1>1, <1>2 DEF JobsTyped

\* A job that does nothing.
LEMMA FreeIsARun == Free \in RunType /\ Free.pc = "free"
  BY DEF Free, RunType, JobPC

\* A job that is done is sound.
LEMMA DoneMoves ==
    ASSUME Typed, NEW j \in Jobs, UNCHANGED row, Done(j)
    PROVE  JobsTyped'
  BY RunMoves, FreeIsARun DEF Done

\* A job that goes on to another query is sound.
LEMMA GotoMoves ==
    ASSUME Typed, NEW j \in Jobs, UNCHANGED row, Working(j),
           NEW pc \in JobPC \ {"free", "facts"}, Goto(j, pc),
           pc = "extract" => job[j].chunks # <<>>
    PROVE  JobsTyped'
<1>1. job[j] \in RunType /\ Holds(job[j])
  BY DEF Typed, JobsTyped
<1> DEFINE r == [job[j] EXCEPT !.pc = pc]
<1>2. r \in RunType
  BY <1>1 DEF RunType
<1>3. Holds(r)
  BY <1>1 DEF Holds, RunType
<1>4. job' = [job EXCEPT ![j] = r]
  BY DEF Goto
<1> QED
  BY <1>2, <1>3, <1>4, RunMoves

\* A publication keeps the types; the row has a text from now on.
LEMMA TypedPublish ==
    ASSUME Typed, NEW d \in Docs, NEW t \in Texts, Publish(d, t)
    PROVE  Typed'
<1>1. RowsTyped'
  BY GraphAssumption DEF Publish, Announce, Typed, RowsTyped
<1>2. JobsTyped'
  <2>1. job' = job
    BY DEF Publish, Announce
  <2>2. \A e \in Docs : row[e].text \in Texts => row'[e].text \in Texts
    BY DEF Publish, Typed, RowsTyped
  <2> QED
    BY <2>1, <2>2 DEF Typed, JobsTyped, Working, Holds
<1>3. GraphTyped'
  BY DEF Publish, Announce, Typed, GraphTyped, graph
<1> QED
  BY <1>1, <1>2, <1>3 DEF Typed

\* So does taking a document down, which leaves its text.
LEMMA TypedWithdraw ==
    ASSUME Typed, NEW d \in Docs, NEW status \in {"Draft", "Deleted"}, Withdraw(d, status)
    PROVE  Typed'
<1>1. RowsTyped'
  <2>1. row' = [row EXCEPT ![d].status = status] /\ row[d].status = "Published"
        /\ tasks' = [tasks EXCEPT ![d] = Append(tasks[d], "DELETE")]
        /\ events' \in 0..MaxEvents /\ UNCHANGED <<faults, spaced>>
    BY GraphAssumption DEF Withdraw, Announce, Typed, RowsTyped
  <2>2. row' \in [Docs -> [text : Texts \cup {Null}, status : {"Draft", "Published", "Deleted"}]]
        /\ tasks' \in [Docs -> Seq({"INDEX", "DELETE"})]
    BY <2>1 DEF Typed, RowsTyped
  <2>3. \A e \in Docs : /\ row'[e].text = row[e].text
                        /\ e # d => row'[e].status = row[e].status /\ tasks'[e] = tasks[e]
    BY <2>1 DEF Typed, RowsTyped
  <2> QED
    BY <2>1, <2>2, <2>3 DEF Typed, RowsTyped
<1>2. JobsTyped'
  <2>1. job' = job
    BY DEF Withdraw, Announce
  <2>2. \A e \in Docs : row[e].text \in Texts => row'[e].text \in Texts
    BY DEF Withdraw, Typed, RowsTyped
  <2> QED
    BY <2>1, <2>2 DEF Typed, JobsTyped, Working, Holds
<1>3. GraphTyped'
  BY DEF Withdraw, Announce, Typed, GraphTyped, graph
<1> QED
  BY <1>1, <1>2, <1>3 DEF Typed

TakenRun(d, b) ==
    [Free EXCEPT !.doc = d, !.build = b, !.pc = IF b THEN "row" ELSE "document"]

\* The fields of a task just taken.
LEMMA TakenRunIs ==
    ASSUME NEW d \in Docs, NEW b \in BOOLEAN
    PROVE  /\ TakenRun(d, b) \in RunType
           /\ TakenRun(d, b).doc = d /\ TakenRun(d, b).build = b
           /\ TakenRun(d, b).pc = IF b THEN "row" ELSE "document"
           /\ TakenRun(d, b).chunks = <<>> /\ TakenRun(d, b).todo = <<>>
<1> DEFINE r1 == [Free EXCEPT !.doc = d]
           r2 == [r1 EXCEPT !.build = b]
           r3 == [r2 EXCEPT !.pc = IF b THEN "row" ELSE "document"]
<1>0. Free \in RunType /\ Free.chunks = <<>> /\ Free.todo = <<>>
  BY DEF Free, RunType, JobPC
<1>1. r1 \in RunType /\ r1.doc = d /\ r1.chunks = <<>> /\ r1.todo = <<>>
  BY <1>0 DEF RunType
<1>2. TakenRun(d, b) = r3
  BY DEF TakenRun
<1> HIDE DEF r1
<1>3. /\ r2 \in RunType /\ r2.doc = d /\ r2.chunks = <<>> /\ r2.todo = <<>>
      /\ r2.build = b
  BY <1>1 DEF RunType
<1> HIDE DEF r2
<1>4. /\ r3 \in RunType /\ r3.doc = d /\ r3.chunks = <<>> /\ r3.todo = <<>>
      /\ r3.build = b /\ r3.pc = IF b THEN "row" ELSE "document"
  BY <1>3 DEF RunType, JobPC
<1> QED
  BY <1>2, <1>4

\* Handing over a task keeps the types.
LEMMA TypedTake ==
    ASSUME Typed, NEW j \in Jobs, NEW d \in Docs, Take(j, d)
    PROVE  Typed'
<1>1. RowsTyped'
  BY DEF Take, world, Typed, RowsTyped
<1>2. PICK b \in BOOLEAN : b = (Head(tasks[d]) = "INDEX")
  OBVIOUS
<1>3. job' = [job EXCEPT ![j] = TakenRun(d, b)]
  BY <1>2 DEF Take, TakenRun
<1>4. TakenRun(d, b) \in RunType /\ Holds(TakenRun(d, b))
  <2>1. row[d].text \in Texts
    BY DEF Take, Typed, RowsTyped
  <2>2. <<>> \in Seq(ChunksIn(d))
    OBVIOUS
  <2> QED
    BY <2>1, <2>2, TakenRunIs DEF Holds
<1>5. JobsTyped'
  BY <1>3, <1>4, RunMoves DEF Take, world
<1>6. GraphTyped'
  BY DEF Take, Typed, GraphTyped, graph
<1> QED
  BY <1>1, <1>5, <1>6 DEF Typed

\* Finding the row keeps the types.
LEMMA TypedReadRow ==
    ASSUME Typed, NEW j \in Jobs, ReadRow(j)
    PROVE  Typed'
<1>1. RowsTyped' /\ GraphTyped'
  BY DEF ReadRow, world, graph, Typed, RowsTyped, GraphTyped
<1>2. UNCHANGED row /\ Working(j) /\ (Done(j) \/ Goto(j, "body"))
  BY DEF ReadRow, world, Working
<1>3. JobsTyped'
  BY <1>2, DoneMoves, GotoMoves DEF JobPC
<1> QED
  BY <1>1, <1>3 DEF Typed

\* Reading the body gives the job the chunks of its own document.
LEMMA TypedReadBody ==
    ASSUME Typed, NEW j \in Jobs, ReadBody(j)
    PROVE  Typed'
<1>1. RowsTyped' /\ GraphTyped'
  BY DEF ReadBody, world, graph, Typed, RowsTyped, GraphTyped
<1>2. UNCHANGED row /\ Working(j) /\ job[j] \in RunType /\ Holds(job[j])
  BY DEF ReadBody, world, Working, Typed, JobsTyped
<1> DEFINE d == job[j].doc
           r == [job[j] EXCEPT !.pc = "document", !.chunks = ChunksOf(d, row[d].text)]
<1>3. ChunksOf(d, row[d].text) \in Seq(ChunksIn(d))
  BY <1>2, ChunksOfAre DEF Holds
<1>4. ChunksOf(d, row[d].text) \in Seq(Chunks)
  BY <1>3 DEF ChunksIn
<1>5. r \in RunType /\ Holds(r)
  BY <1>2, <1>3, <1>4 DEF RunType, Holds, JobPC
<1>6. CASE Done(j)
  BY <1>6, <1>2, DoneMoves, <1>1 DEF Typed
<1>7. CASE job' = [job EXCEPT ![j].pc = "document", ![j].chunks = ChunksOf(d, row[d].text)]
  <2>1. job' = [job EXCEPT ![j] = r]
    BY <1>7, <1>2 DEF Typed, JobsTyped, RunType
  <2>2. JobsTyped'
    BY <2>1, <1>2, <1>5, RunMoves
  <2> QED
    BY <2>2, <1>1 DEF Typed
<1> QED
  BY <1>6, <1>7 DEF ReadBody

\* Deleting the document keeps the types.
LEMMA TypedDropDocument ==
    ASSUME Typed, NEW j \in Jobs, DropDocument(j)
    PROVE  Typed'
<1>1. RowsTyped'
  BY DEF DropDocument, world, Typed, RowsTyped
<1>2. JobsTyped'
  BY GotoMoves DEF DropDocument, world, Working, JobPC
<1>3. GraphTyped'
  BY WithoutIs DEF DropDocument, Typed, GraphTyped
<1> QED
  BY <1>1, <1>2, <1>3 DEF Typed

\* Clearing the orphans keeps the types.
LEMMA TypedDropOrphans ==
    ASSUME Typed, NEW j \in Jobs, DropOrphans(j)
    PROVE  Typed'
<1>1. RowsTyped'
  BY DEF DropOrphans, world, Typed, RowsTyped
<1>2. JobsTyped'
  BY GotoMoves, DoneMoves DEF DropOrphans, AfterOrphans, world, Working, JobPC
<1>3. GraphTyped'
  <2>1. DOMAIN entity' \subseteq DOMAIN entity /\ \A n \in DOMAIN entity' : entity'[n] = entity[n]
    BY DEF DropOrphans, Without
  <2>2. related' \subseteq related /\ UNCHANGED <<docNode, chunks, mentions>>
    BY DEF DropOrphans
  <2> QED
    BY <2>1, <2>2 DEF Typed, GraphTyped
<1> QED
  BY <1>1, <1>2, <1>3 DEF Typed

\* Writing the document keeps the types.
LEMMA TypedMergeDocument ==
    ASSUME Typed, NEW j \in Jobs, MergeDocument(j)
    PROVE  Typed'
<1>1. RowsTyped'
  BY DEF MergeDocument, world, Typed, RowsTyped
<1>2. JobsTyped'
  BY GotoMoves DEF MergeDocument, world, Working, JobPC
<1>3. job[j].doc \in Docs
  BY DEF MergeDocument, Working, Typed, JobsTyped, Holds
<1>4. GraphTyped'
  <2>1. DOMAIN docNode' = DOMAIN docNode \cup {job[j].doc}
    BY DEF MergeDocument, With
  <2>2. UNCHANGED <<chunks, entity, mentions, related>>
    BY DEF MergeDocument
  <2> QED
    BY <1>3, <2>1, <2>2 DEF Typed, GraphTyped
<1> QED
  BY <1>1, <1>2, <1>4 DEF Typed

\* Writing a chunk keeps the types: it is one of the document.
LEMMA TypedMergeChunk ==
    ASSUME Typed, NEW j \in Jobs, MergeChunk(j)
    PROVE  Typed'
<1>1. RowsTyped'
  BY DEF MergeChunk, world, Typed, RowsTyped
<1>2. Working(j) /\ job[j] \in RunType /\ Holds(job[j]) /\ UNCHANGED row
  BY DEF MergeChunk, Working, Typed, JobsTyped, world
<1>3. CASE job[j].chunks = <<>>
  BY <1>1, <1>2, <1>3, DoneMoves DEF MergeChunk, Typed, GraphTyped
<1>4. CASE job[j].chunks # <<>>
  <2>1. Goto(j, "extract")
    BY <1>4 DEF MergeChunk
  <2>2. JobsTyped'
    BY <2>1, <1>2, <1>4, GotoMoves DEF JobPC
  <2>3. Head(job[j].chunks) \in Chunks
    BY <1>2, <1>4 DEF RunType
  <2>4. GraphTyped'
    BY <2>3, <1>4 DEF MergeChunk, Typed, GraphTyped
  <2> QED
    BY <1>1, <2>2, <2>4 DEF Typed
<1> QED
  BY <1>3, <1>4

\* A job that goes on to its next chunk is sound.
LEMMA NextChunkHolds ==
    ASSUME Typed, NEW r \in RunType, Holds(r), r.chunks # <<>>
    PROVE  /\ NextChunk(r) \in RunType /\ Holds(NextChunk(r))
           /\ NextChunk(r).pc = "chunk" /\ NextChunk(r).doc = r.doc
           /\ NextChunk(r).build = r.build
           /\ NextChunk(r).chunks = Tail(r.chunks) /\ NextChunk(r).todo = <<>>
<1>1. Tail(r.chunks) \in Seq(ChunksIn(r.doc)) /\ Tail(r.chunks) \in Seq(Chunks)
  BY DEF Holds, RunType
<1> DEFINE r1 == [r EXCEPT !.pc = "chunk"]
           r2 == [r1 EXCEPT !.chunks = Tail(r.chunks)]
           r3 == [r2 EXCEPT !.todo = <<>>]
<1>2. /\ r1 \in RunType /\ r1.pc = "chunk" /\ r1.doc = r.doc /\ r1.build = r.build
      /\ r1.chunks = r.chunks
  BY DEF RunType, JobPC
<1>3. NextChunk(r) = r3
  BY DEF NextChunk
<1> HIDE DEF r1
<1>4. /\ r2 \in RunType /\ r2.pc = "chunk" /\ r2.doc = r.doc /\ r2.build = r.build
      /\ r2.chunks = Tail(r.chunks)
  BY <1>1, <1>2 DEF RunType
<1> HIDE DEF r2
<1>5. /\ r3 \in RunType /\ r3.pc = "chunk" /\ r3.doc = r.doc /\ r3.build = r.build
      /\ r3.chunks = Tail(r.chunks) /\ r3.todo = <<>>
  <2>1. <<>> \in Seq(EntityQuery \cup RelationQuery)
    OBVIOUS
  <2> QED
    BY <1>4, <2>1 DEF RunType
<1> HIDE DEF r3
<1>6. Holds(r3)
  BY <1>1, <1>5 DEF Holds
<1> QED
  BY <1>3, <1>5, <1>6

\* A job that goes on with the queries of a chunk is sound.
LEMMA WithQueriesHolds ==
    ASSUME Typed, NEW r \in RunType, Holds(r), r.chunks # <<>>,
           NEW todo \in Seq(EntityQuery \cup RelationQuery)
    PROVE  /\ WithQueries(r, todo) \in RunType /\ Holds(WithQueries(r, todo))
           /\ WithQueries(r, todo).doc = r.doc /\ WithQueries(r, todo).build = r.build
           /\ WithQueries(r, todo).todo = todo
           /\ IF todo = <<>>
              THEN WithQueries(r, todo).pc = "chunk" /\ WithQueries(r, todo).chunks = Tail(r.chunks)
              ELSE WithQueries(r, todo).pc = "facts" /\ WithQueries(r, todo).chunks = r.chunks
<1>1. CASE todo = <<>>
  BY <1>1, NextChunkHolds DEF WithQueries
<1>2. CASE todo # <<>>
  <2> DEFINE r1 == [r EXCEPT !.pc = "facts"]
             r2 == [r1 EXCEPT !.todo = todo]
  <2>1. WithQueries(r, todo) = r2
    BY <1>2 DEF WithQueries
  <2>2. /\ r1 \in RunType /\ r1.pc = "facts" /\ r1.doc = r.doc /\ r1.build = r.build
        /\ r1.chunks = r.chunks
    BY DEF RunType, JobPC
  <2> HIDE DEF r1
  <2>3. /\ r2 \in RunType /\ r2.pc = "facts" /\ r2.doc = r.doc /\ r2.build = r.build
        /\ r2.chunks = r.chunks /\ r2.todo = todo
    BY <2>2 DEF RunType
  <2> HIDE DEF r2
  <2>4. Holds(r2)
    BY <1>2, <2>3 DEF Holds
  <2> QED
    BY <1>2, <2>1, <2>3, <2>4
<1> QED
  BY <1>1, <1>2

\* Asking the LLM keeps the types, whatever it answers.
LEMMA TypedExtract ==
    ASSUME Typed, NEW j \in Jobs, Extract(j)
    PROVE  Typed'
<1>1. RowsTyped' /\ GraphTyped'
  BY DEF Extract, Fault, world, graph, Typed, RowsTyped, GraphTyped
<1>2. Working(j) /\ job[j] \in RunType /\ Holds(job[j]) /\ UNCHANGED row /\ job[j].chunks # <<>>
  BY DEF Extract, Working, Typed, JobsTyped, world, Holds
<1>3. Head(job[j].chunks) \in Chunks
  BY <1>2 DEF RunType
<1> DEFINE found == Queries(ToExtractionResult(Answer[Head(job[j].chunks).text]))
<1>4. found \in Seq(EntityQuery \cup RelationQuery)
  BY <1>3, ChunksAre, FactsAreTyped
<1>5. Queries(NoFacts) \in Seq(EntityQuery \cup RelationQuery)
  BY NoQueries
<1>6. PICK r \in {WithQueries(job[j], found), WithQueries(job[j], Queries(NoFacts))} :
        job' = [job EXCEPT ![j] = r]
  BY DEF Extract
<1>7. r \in RunType /\ Holds(r)
  <2> HIDE DEF found
  <2> QED
    BY <1>2, <1>4, <1>5, <1>6, WithQueriesHolds
<1>8. JobsTyped'
  BY <1>2, <1>6, <1>7, RunMoves
<1> QED
  BY <1>1, <1>8 DEF Typed

\* Writing a fact keeps the types.
LEMMA TypedWriteFact ==
    ASSUME Typed, NEW j \in Jobs, WriteFact(j)
    PROVE  Typed'
<1>1. RowsTyped'
  BY DEF WriteFact, world, Typed, RowsTyped
<1>2. Working(j) /\ job[j] \in RunType /\ Holds(job[j]) /\ UNCHANGED row /\ job[j].chunks # <<>>
  BY DEF WriteFact, Working, Typed, JobsTyped, world, Holds
<1> DEFINE todo == job[j].todo
           q == Head(todo)
           c == Head(job[j].chunks)
           r == WithQueries(job[j], Tail(todo))
<1>3. todo # <<>> /\ todo \in Seq(EntityQuery \cup RelationQuery) /\ c \in Chunks
  BY <1>2 DEF WriteFact, RunType
<1>4. q \in EntityQuery \cup RelationQuery /\ Tail(todo) \in Seq(EntityQuery \cup RelationQuery)
  BY <1>3
<1>5. r \in RunType /\ Holds(r)
  BY <1>2, <1>4, WithQueriesHolds
<1>6. JobsTyped'
  <2>1. job' = [job EXCEPT ![j] = r]
    BY DEF WriteFact
  <2> HIDE DEF r
  <2> QED
    BY <2>1, <1>2, <1>5, RunMoves
<1>7. CASE q \in EntityQuery
  <2>1. MergeEntity(c, q.of) /\ q.of.name \in Names /\ q.of.type \in EntityTypes
    BY <1>7 DEF WriteFact, EntityQuery
  <2>2. GraphTyped'
    <3>1. CASE c \in chunks
      <4>1. /\ DOMAIN entity' = DOMAIN entity \cup {q.of.name}
            /\ entity'[q.of.name] = q.of.type
            /\ \A n \in DOMAIN entity : n # q.of.name => entity'[n] = entity[n]
        BY <2>1, <3>1 DEF MergeEntity, With
      <4>2. mentions' = mentions \cup {<<c, q.of.name>>} /\ UNCHANGED <<docNode, chunks, related>>
        BY <2>1, <3>1 DEF MergeEntity, WriteFact
      <4>3. DOMAIN entity' \subseteq Names /\ \A n \in DOMAIN entity' : entity'[n] \in EntityTypes
        BY <2>1, <4>1 DEF Typed, GraphTyped
      <4>4. mentions' \subseteq Chunks \X Names
        BY <1>3, <2>1, <4>2 DEF Typed, GraphTyped
      <4> QED
        BY <4>2, <4>3, <4>4 DEF Typed, GraphTyped
    <3>2. CASE c \notin chunks
      BY <2>1, <3>2 DEF MergeEntity, WriteFact, Typed, GraphTyped
    <3> QED
      BY <3>1, <3>2
  <2> QED
    BY <1>1, <1>6, <2>2 DEF Typed
<1>8. CASE q \in RelationQuery
  <2>1. MergeRelation(q.of) /\ q.of \in [source : Names, target : Names, type : RelationTypes]
    BY <1>8 DEF WriteFact, RelationQuery
  <2>2. GraphTyped'
    BY <2>1 DEF MergeRelation, WriteFact, Typed, GraphTyped
  <2> QED
    BY <1>1, <1>6, <2>2 DEF Typed
<1> QED
  BY <1>4, <1>7, <1>8

\* A query that throws keeps the types.
LEMMA TypedHandlerFails ==
    ASSUME Typed, NEW j \in Jobs, HandlerFails(j)
    PROVE  Typed'
<1>1. RowsTyped' /\ GraphTyped'
  BY DEF HandlerFails, Fault, world, graph, Typed, RowsTyped, GraphTyped
<1>2. JobsTyped'
  BY DoneMoves DEF HandlerFails, world
<1> QED
  BY <1>1, <1>2 DEF Typed

\* A reader changes nothing but its request.
LEMMA ReadersRead == Read => Reading
  BY DEF Read, Subgraph, Chat, Overview, SubgraphRelated, SubgraphMentions, ChatRelated,
         ChatDocuments, OverviewExtra, OverviewRelated, AskFails

\* A step of a reader keeps the types.
LEMMA TypedReading ==
    ASSUME Typed, Reading
    PROVE  Typed'
  BY DEF Reading, world, graph, Typed, RowsTyped, JobsTyped, GraphTyped, Working, Holds

-----------------------------------------------------------------------------
(* Nothing dangles *)

\* A document goes with its chunks and their mentions.
LEMMA DanglesDropDocument ==
    ASSUME Typed, NothingDangles, NEW j \in Jobs, DropDocument(j)
    PROVE  NothingDangles'
<1> DEFINE d == job[j].doc
<1>1. /\ DOMAIN docNode' = DOMAIN docNode \ {d}
      /\ chunks' = {c \in chunks : c.doc # d}
      /\ mentions' = {m \in mentions : m[1].doc # d}
      /\ UNCHANGED <<entity, related>>
  BY DEF DropDocument, Without
<1> QED
  BY <1>1 DEF NothingDangles

\* An orphan goes with its relations; no mention names it.
LEMMA DanglesDropOrphans ==
    ASSUME Typed, NothingDangles, NEW j \in Jobs, DropOrphans(j)
    PROVE  NothingDangles'
<1>1. /\ DOMAIN entity' = DOMAIN entity \ Orphans
      /\ related' = {r \in related : {r.source, r.target} \cap Orphans = {}}
      /\ UNCHANGED <<docNode, chunks, mentions>>
  BY DEF DropOrphans, Without
<1>2. \A m \in mentions : m[2] \notin Orphans
  BY DEF Orphans
<1> QED
  BY <1>1, <1>2 DEF NothingDangles

\* Another document leaves nothing hanging.
LEMMA DanglesMergeDocument ==
    ASSUME Typed, NothingDangles, NEW j \in Jobs, MergeDocument(j)
    PROVE  NothingDangles'
<1>1. DOMAIN docNode' = DOMAIN docNode \cup {job[j].doc} /\ UNCHANGED <<chunks, entity, mentions, related>>
  BY DEF MergeDocument, With
<1> QED
  BY <1>1 DEF NothingDangles

\* A chunk is written only below its document.
LEMMA DanglesMergeChunk ==
    ASSUME Typed, NothingDangles, NEW j \in Jobs, MergeChunk(j)
    PROVE  NothingDangles'
<1>1. CASE job[j].chunks = <<>>
  BY <1>1 DEF MergeChunk, NothingDangles
<1>2. CASE job[j].chunks # <<>>
  <2>1. Holds(job[j])
    BY DEF MergeChunk, Working, Typed, JobsTyped
  <2>2. Head(job[j].chunks) \in ChunksIn(job[j].doc)
    BY <1>2, <2>1 DEF Holds
  <2>3. Head(job[j].chunks).doc = job[j].doc
    BY <2>2 DEF ChunksIn
  <2>4. chunks' = chunks \cup IF job[j].doc \in DOMAIN docNode THEN {Head(job[j].chunks)} ELSE {}
    BY <1>2 DEF MergeChunk
  <2>5. UNCHANGED <<docNode, entity, mentions, related>>
    BY DEF MergeChunk
  <2> QED
    BY <2>3, <2>4, <2>5 DEF NothingDangles
<1> QED
  BY <1>1, <1>2

\* A mention is written with its entity, a relation between two entities.
LEMMA DanglesWriteFact ==
    ASSUME Typed, NothingDangles, NEW j \in Jobs, WriteFact(j)
    PROVE  NothingDangles'
<1> DEFINE q == Head(job[j].todo)
           c == Head(job[j].chunks)
<1>1. UNCHANGED <<docNode, chunks>>
  BY DEF WriteFact
<1>2. CASE MergeEntity(c, q.of)
  <2>1. CASE c \in chunks
    <3>1. DOMAIN entity' = DOMAIN entity \cup {q.of.name} /\ UNCHANGED related
          /\ mentions' = mentions \cup {<<c, q.of.name>>}
      BY <1>2, <2>1 DEF MergeEntity, With
    <3> QED
      BY <1>1, <2>1, <3>1 DEF NothingDangles
  <2>2. CASE c \notin chunks
    BY <1>1, <1>2, <2>2 DEF MergeEntity, NothingDangles
  <2> QED
    BY <2>1, <2>2
<1>3. CASE MergeRelation(q.of)
  BY <1>1, <1>3 DEF MergeRelation, NothingDangles
<1> QED
  BY <1>2, <1>3 DEF WriteFact

-----------------------------------------------------------------------------
(* Orphans *)

\* While no handler has died, an entity nobody mentions waits for a job that
\* is about to clear them all.
OrphansAwaited ==
    "handler" \notin faults => Orphans = {} \/ \E j \in Jobs : job[j].pc = "orphans"

\* Only the first query of a deletion takes mentions away, and its job goes on
\* to the second.
LEMMA OrphansKept ==
    ASSUME Typed, OrphansAwaited, NEW j \in Jobs, job[j].pc # "orphans",
           \A k \in Jobs : k # j => job'[k] = job[k],
           Orphans' \subseteq Orphans, faults \subseteq faults'
    PROVE  OrphansAwaited'
  BY DEF OrphansAwaited

\* A query that leaves an orphan is followed by the one that clears orphans.
LEMMA OrphansNext ==
    ASSUME Typed, OrphansAwaited, NEW j \in Jobs, Build(j) \/ HandlerFails(j)
    PROVE  OrphansAwaited'
<1>1. \A k \in Jobs : k # j => job'[k] = job[k]
  BY DEF Build, HandlerFails, ReadRow, ReadBody, DropDocument, DropOrphans, MergeDocument,
         MergeChunk, Extract, WriteFact, Done, Goto, AfterOrphans, Typed, JobsTyped
<1>2. CASE HandlerFails(j)
  BY <1>2 DEF HandlerFails, Fault, OrphansAwaited
<1>3. CASE DropDocument(j)
  <2>1. job'[j].pc = "orphans"
    BY <1>3 DEF DropDocument, Goto, Typed, JobsTyped, RunType
  <2> QED
    BY <2>1 DEF OrphansAwaited
<1>4. CASE DropOrphans(j)
  <2>1. DOMAIN entity' = DOMAIN entity \ Orphans /\ UNCHANGED mentions
    BY <1>4 DEF DropOrphans, Without
  <2>2. Orphans' = {}
    BY <2>1 DEF Orphans
  <2> QED
    BY <2>2 DEF OrphansAwaited
<1>5. CASE ReadRow(j) \/ ReadBody(j) \/ MergeDocument(j) \/ MergeChunk(j) \/ Extract(j)
  <2>1. job[j].pc # "orphans" /\ UNCHANGED <<entity, mentions>> /\ faults \subseteq faults'
    BY <1>5 DEF ReadRow, ReadBody, MergeDocument, MergeChunk, Extract, graph, Fault
  <2>2. Orphans' = Orphans
    BY <2>1 DEF Orphans
  <2> QED
    BY <1>1, <2>1, <2>2, OrphansKept
<1>6. CASE WriteFact(j)
  <2> DEFINE q == Head(job[j].todo)
             c == Head(job[j].chunks)
  <2>1. job[j].pc # "orphans" /\ faults \subseteq faults'
    BY <1>6 DEF WriteFact
  <2>2. CASE UNCHANGED <<entity, mentions>>
    <3>1. Orphans' = Orphans
      BY <2>2 DEF Orphans
    <3> QED
      BY <1>1, <2>1, <3>1, OrphansKept
  <2>3. CASE ~UNCHANGED <<entity, mentions>>
    <3>1. DOMAIN entity' = DOMAIN entity \cup {q.of.name} /\ mentions' = mentions \cup {<<c, q.of.name>>}
      BY <1>6, <2>3 DEF WriteFact, MergeEntity, MergeRelation, With
    <3>2. Orphans' \subseteq Orphans
      BY <3>1 DEF Orphans
    <3> QED
      BY <1>1, <2>1, <3>2, OrphansKept
  <2> QED
    BY <2>2, <2>3
<1> QED
  BY <1>2, <1>3, <1>4, <1>5, <1>6 DEF Build

-----------------------------------------------------------------------------
(* Answers *)

AllTags == UNION {Tags[d] : d \in Docs}
NodeIds == ({"doc"} \X Docs) \cup ({"entity"} \X Names) \cup ({"tag"} \X AllTags)
Labels == RelationTypes \cup {Generic, "MENTIONS", "tagged", "mentions"}
EdgeType == [source : NodeIds, target : NodeIds, relation : Labels]
AskType == [pc : AskPC, kind : {"none", "subgraph", "chat", "overview"}, user : Users \cup {Null},
            kw : SUBSET (Names \cup Docs), type : {Null, "CONCEPT"}, nodes : SUBSET NodeIds,
            edges : SUBSET EdgeType, docs : SUBSET Docs]

Closed(edges, nodes) == \A e \in edges : {e.source, e.target} \subseteq nodes

AskInv == ask \in AskType /\ Closed(ask.edges, ask.nodes)

\* No request.
LEMMA IdleIsAnAsk == Idle \in AskType /\ Idle.nodes = {} /\ Idle.edges = {} /\ Idle.docs = {}
  BY DEF Idle, AskType, AskPC

\* An answered request keeps what it found.
LEMMA AnsweredIs ==
    ASSUME NEW a \in AskType
    PROVE  /\ Answered(a) \in AskType
           /\ Answered(a).nodes = a.nodes /\ Answered(a).edges = a.edges /\ Answered(a).docs = a.docs
<1> DEFINE a1 == [a EXCEPT !.pc = "answered"]
           a2 == [a1 EXCEPT !.kind = "none"]
           a3 == [a2 EXCEPT !.user = Null]
           a4 == [a3 EXCEPT !.type = Null]
<1>1. a1 \in AskType /\ a1.nodes = a.nodes /\ a1.edges = a.edges /\ a1.docs = a.docs
  BY DEF AskType, AskPC
<1>5. Answered(a) = a4
  BY DEF Answered
<1> HIDE DEF a1
<1>2. a2 \in AskType /\ a2.nodes = a.nodes /\ a2.edges = a.edges /\ a2.docs = a.docs
  BY <1>1 DEF AskType
<1> HIDE DEF a2
<1>3. a3 \in AskType /\ a3.nodes = a.nodes /\ a3.edges = a.edges /\ a3.docs = a.docs
  BY <1>2 DEF AskType
<1> HIDE DEF a3
<1>4. a4 \in AskType /\ a4.nodes = a.nodes /\ a4.edges = a.edges /\ a4.docs = a.docs
  BY <1>3 DEF AskType
<1> QED
  BY <1>4, <1>5

\* The names among the nodes of an answer are those of its entities.
LEMMA NamesAreNodes ==
    ASSUME NEW nodes \in SUBSET NodeIds, NEW n \in NamesIn(nodes)
    PROVE  n \in Names /\ EntityId(n) \in nodes
<1>1. PICK x \in nodes : x[1] = "entity" /\ n = x[2]
  BY DEF NamesIn
<1>2. x \in {"entity"} \X Names
  BY <1>1 DEF NodeIds
<1>3. x = <<"entity", n>> /\ n \in Names
  BY <1>1, <1>2
<1> QED
  BY <1>1, <1>3 DEF EntityId

\* The documents of some nodes.
LEMMA DocsAreNodes ==
    ASSUME NEW nodes \in SUBSET NodeIds, NEW d \in DocsIn(nodes)
    PROVE  d \in Docs /\ DocId(d) \in nodes
<1>1. PICK x \in nodes : x[1] = "doc" /\ d = x[2]
  BY DEF DocsIn
<1>2. x \in {"doc"} \X Docs
  BY <1>1 DEF NodeIds
<1>3. x = <<"doc", d>> /\ d \in Docs
  BY <1>1, <1>2
<1> QED
  BY <1>1, <1>3 DEF DocId

\* What the identifiers stand for.
LEMMA IdsAreNodes ==
    /\ \A d \in Docs : DocId(d) \in NodeIds
    /\ \A n \in Names : EntityId(n) \in NodeIds
    /\ \A d \in Docs : \A t \in Tags[d] : TagId(t) \in NodeIds
  BY DEF DocId, EntityId, TagId, NodeIds, AllTags

\* MERGE writes rel.type: no relation has the property relation.
LEMMA LabelsAre ==
    ASSUME NEW r \in [source : Names, target : Names, type : RelationTypes]
    PROVE  SubgraphLabel(r) \in Labels /\ ChatLabel(r) \in Labels /\ OverviewLabel(r) \in Labels
<1>1. Prop(r, "relation") = Null
  BY DEF Prop
<1> QED
  BY <1>1 DEF SubgraphLabel, ChatLabel, OverviewLabel, Labels

\* The relations among the names of some nodes join two of these nodes.
LEMMA RelatedClosed ==
    ASSUME Typed, NEW nodes \in SUBSET NodeIds
    PROVE  /\ RelatedAmong(NamesIn(nodes), SubgraphLabel) \subseteq EdgeType
           /\ RelatedAmong(NamesIn(nodes), ChatLabel) \subseteq EdgeType
           /\ RelatedAmong(NamesIn(nodes), OverviewLabel) \subseteq EdgeType
           /\ Closed(RelatedAmong(NamesIn(nodes), SubgraphLabel), nodes)
           /\ Closed(RelatedAmong(NamesIn(nodes), ChatLabel), nodes)
           /\ Closed(RelatedAmong(NamesIn(nodes), OverviewLabel), nodes)
<1> DEFINE Edge(r, l) == [source |-> EntityId(r.source), target |-> EntityId(r.target), relation |-> l]
<1>1. ASSUME NEW r \in related, {r.source, r.target} \subseteq NamesIn(nodes), NEW l \in Labels
      PROVE  Edge(r, l) \in EdgeType /\ {Edge(r, l).source, Edge(r, l).target} \subseteq nodes
  <2>1. EntityId(r.source) \in nodes /\ EntityId(r.target) \in nodes
    BY <1>1, NamesAreNodes
  <2> QED
    BY <2>1 DEF EdgeType
<1>2. \A r \in related : SubgraphLabel(r) \in Labels /\ ChatLabel(r) \in Labels /\ OverviewLabel(r) \in Labels
  BY LabelsAre DEF Typed, GraphTyped
<1>3. ASSUME NEW e \in RelatedAmong(NamesIn(nodes), SubgraphLabel)
      PROVE  e \in EdgeType /\ {e.source, e.target} \subseteq nodes
  <2>1. PICK r \in related : {r.source, r.target} \subseteq NamesIn(nodes) /\ e = Edge(r, SubgraphLabel(r))
    BY DEF RelatedAmong
  <2> QED
    BY <2>1, <1>1, <1>2
<1>4. ASSUME NEW e \in RelatedAmong(NamesIn(nodes), ChatLabel)
      PROVE  e \in EdgeType /\ {e.source, e.target} \subseteq nodes
  <2>1. PICK r \in related : {r.source, r.target} \subseteq NamesIn(nodes) /\ e = Edge(r, ChatLabel(r))
    BY DEF RelatedAmong
  <2> QED
    BY <2>1, <1>1, <1>2
<1>5. ASSUME NEW e \in RelatedAmong(NamesIn(nodes), OverviewLabel)
      PROVE  e \in EdgeType /\ {e.source, e.target} \subseteq nodes
  <2>1. PICK r \in related : {r.source, r.target} \subseteq NamesIn(nodes) /\ e = Edge(r, OverviewLabel(r))
    BY DEF RelatedAmong
  <2> QED
    BY <2>1, <1>1, <1>2
<1> QED
  BY <1>3, <1>4, <1>5 DEF Closed

\* What documents put on the overview: edges between nodes they put there.
LEMMA CanvasClosed ==
    ASSUME Typed, NEW S \in SUBSET Docs, NEW type
    PROVE  /\ CanvasNodes(S, type) \in SUBSET NodeIds
           /\ CanvasEdges(S, type) \in SUBSET EdgeType
           /\ Closed(CanvasEdges(S, type), CanvasNodes(S, type))
<1>1. ASSUME NEW d \in Docs, NEW n \in CanvasNames(d, type)
      PROVE  n \in Names
  BY DEF CanvasNames, MentionedBy, Typed, GraphTyped
<1> DEFINE TD(d) == {TagId(t) : t \in Tags[d]}
           ED(d) == {EntityId(n) : n \in CanvasNames(d, type)}
           D == {DocId(d) : d \in S}
           T == UNION {TD(d) : d \in S}
           E == UNION {ED(d) : d \in S}
<1>a. CanvasNodes(S, type) = D \cup T \cup E
  BY DEF CanvasNodes
<1>b. \A d \in S : TD(d) \subseteq T /\ ED(d) \subseteq E /\ DocId(d) \in D
  <2> HIDE DEF TD, ED
  <2> QED
    OBVIOUS
<1>c. T \subseteq NodeIds
  <2>1. \A d \in S : TD(d) \subseteq NodeIds
    BY IdsAreNodes
  <2> HIDE DEF TD
  <2> QED
    BY <2>1
<1>d. E \subseteq NodeIds
  <2>1. \A d \in S : ED(d) \subseteq NodeIds
    BY <1>1, IdsAreNodes
  <2> HIDE DEF ED
  <2> QED
    BY <2>1
<1>e. D \subseteq NodeIds
  BY IdsAreNodes
<1>f. /\ \A d \in S : \A t \in Tags[d] : TagId(t) \in TD(d)
      /\ \A d \in S : \A n \in CanvasNames(d, type) : EntityId(n) \in ED(d)
  OBVIOUS
<1> HIDE DEF D, T, E, TD, ED
<1>2. CanvasNodes(S, type) \in SUBSET NodeIds
  BY <1>a, <1>c, <1>d, <1>e
<1>g. /\ \A d \in S : DocId(d) \in CanvasNodes(S, type)
      /\ \A d \in S : \A t \in Tags[d] : TagId(t) \in CanvasNodes(S, type)
      /\ \A d \in S : \A n \in CanvasNames(d, type) : EntityId(n) \in CanvasNodes(S, type)
  BY <1>a, <1>b, <1>f
<1>3. ASSUME NEW e \in CanvasEdges(S, type)
      PROVE  e \in EdgeType /\ e.source \in CanvasNodes(S, type) /\ e.target \in CanvasNodes(S, type)
  <2>1. PICK d \in S : \/ \E t \in Tags[d] : e = [source |-> DocId(d), target |-> TagId(t), relation |-> "tagged"]
                       \/ \E n \in CanvasNames(d, type) :
                            e = [source |-> DocId(d), target |-> EntityId(n), relation |-> "mentions"]
    BY DEF CanvasEdges
  <2>2. CASE \E t \in Tags[d] : e = [source |-> DocId(d), target |-> TagId(t), relation |-> "tagged"]
    BY <2>2, <1>g, IdsAreNodes DEF EdgeType, Labels
  <2>3. CASE \E n \in CanvasNames(d, type) :
                e = [source |-> DocId(d), target |-> EntityId(n), relation |-> "mentions"]
    BY <2>3, <1>1, <1>g, IdsAreNodes DEF EdgeType, Labels
  <2> QED
    BY <2>1, <2>2, <2>3
<1> QED
  BY <1>2, <1>3 DEF Closed

\* A LIMIT takes a part of what was found.
LEMMA PickIs ==
    ASSUME NEW S, NEW n, NEW T \in Pick(S, n)
    PROVE  T \subseteq S
  BY DEF Pick

\* A request that has no edges yet, or keeps them, is closed.
LEMMA AnsweredCloses ==
    ASSUME NEW a \in AskType, Closed(a.edges, a.nodes), ask' = Answered(a)
    PROVE  AskInv'
  BY AnsweredIs DEF AskInv

\* The answer with nothing in it is closed.
LEMMA NothingFound ==
    ASSUME ask' = Answered(Idle)
    PROVE  AskInv'
  BY IdleIsAnAsk, AnsweredCloses DEF Closed

\* The first query of the subgraph search finds nodes, no edges.
LEMMA AskSubgraph ==
    ASSUME Typed, AskInv, NEW kw \in Keywords, Subgraph(kw)
    PROVE  AskInv'
<1> DEFINE hits == {DocId(d) : d \in kw \cap DOMAIN docNode}
                     \cup {EntityId(n) : n \in kw \cap DOMAIN entity}
<1>1. hits \subseteq NodeIds
  BY IdsAreNodes DEF Typed, GraphTyped
<1>2. PICK nodes \in Pick(hits, Clamp(Limit, 1, 100)) :
          ask' = IF nodes = {} THEN Answered(Idle)
                 ELSE [Idle EXCEPT !.pc = "related", !.kind = "subgraph", !.nodes = nodes]
  BY DEF Subgraph
<1>3. nodes \subseteq NodeIds
  BY <1>1, PickIs
<1>4. CASE nodes = {}
  BY <1>2, <1>4, NothingFound
<1>5. CASE nodes # {}
  <2>1. ask' = [Idle EXCEPT !.pc = "related", !.kind = "subgraph", !.nodes = nodes]
    BY <1>2, <1>5
  <2>2. ask' \in AskType /\ ask'.edges = {}
    BY <2>1, <1>3, IdleIsAnAsk DEF AskType, AskPC
  <2> QED
    BY <2>2 DEF AskInv, Closed
<1> QED
  BY <1>4, <1>5

\* So does the first of the chat's search.
LEMMA AskChat ==
    ASSUME Typed, AskInv, NEW kw \in Keywords, NEW u \in Users, Chat(u, kw)
    PROVE  AskInv'
<1> DEFINE visible(n) == \/ u \in Unrestricted
                         \/ \E m \in mentions : /\ m[2] = n /\ m[1].doc \in DOMAIN docNode
                                                /\ AccessWhere(m[1].doc, u)
           hits == {EntityId(n) : n \in {x \in kw \cap DOMAIN entity : visible(x)}}
<1> HIDE DEF visible
<1>1. hits \subseteq NodeIds
  BY IdsAreNodes DEF Typed, GraphTyped
<1>2. PICK nodes \in Pick(hits, Clamp(Limit, 1, 20)) :
          ask' = IF nodes = {} THEN Answered(Idle)
                 ELSE [Idle EXCEPT !.pc = "related", !.kind = "chat", !.user = u, !.nodes = nodes]
  BY DEF Chat, visible
<1>3. nodes \subseteq NodeIds
  BY <1>1, PickIs
<1>4. CASE nodes = {}
  BY <1>2, <1>4, NothingFound
<1>5. CASE nodes # {}
  <2>1. ask' = [Idle EXCEPT !.pc = "related", !.kind = "chat", !.user = u, !.nodes = nodes]
    BY <1>2, <1>5
  <2>2. ask' \in AskType /\ ask'.edges = {}
    BY <2>1, <1>3, IdleIsAnAsk DEF AskType, AskPC
  <2> QED
    BY <2>2 DEF AskInv, Closed
<1> QED
  BY <1>4, <1>5

\* The overview starts with documents, tags and entities it shows itself.
LEMMA AskOverview ==
    ASSUME Typed, AskInv, NEW kw \in Keywords, NEW type \in {Null, "CONCEPT"}, Overview(kw, type)
    PROVE  AskInv'
<1> DEFINE from == {d \in DOMAIN docNode : kw = {} \/ d \in kw}
           next == IF kw = {} THEN "related" ELSE "extra"
<1>1. PICK docs \in Pick(from, Clamp(Limit, 1, 80)) :
         ask' = [Idle EXCEPT !.pc = next,
                             !.kind = "overview", !.kw = kw, !.type = type,
                             !.docs = docs, !.nodes = CanvasNodes(docs, type),
                             !.edges = CanvasEdges(docs, type)]
  BY DEF Overview
<1>2. docs \subseteq Docs
  BY PickIs DEF Typed, GraphTyped
<1>3. /\ CanvasNodes(docs, type) \in SUBSET NodeIds /\ CanvasEdges(docs, type) \in SUBSET EdgeType
      /\ Closed(CanvasEdges(docs, type), CanvasNodes(docs, type))
  BY <1>2, CanvasClosed
<1>4. kw \in SUBSET (Names \cup Docs) /\ next \in AskPC
  BY GraphAssumption DEF AskPC
<1> DEFINE a1 == [Idle EXCEPT !.pc = next]
           a2 == [a1 EXCEPT !.kind = "overview"]
           a3 == [a2 EXCEPT !.kw = kw]
           a4 == [a3 EXCEPT !.type = type]
           a5 == [a4 EXCEPT !.docs = docs]
           a6 == [a5 EXCEPT !.nodes = CanvasNodes(docs, type)]
           a7 == [a6 EXCEPT !.edges = CanvasEdges(docs, type)]
<1>5. ask' = a7
  BY <1>1
<1>6. a1 \in AskType
  BY <1>4, IdleIsAnAsk DEF AskType
<1> HIDE DEF a1, next
<1>7. a2 \in AskType
  BY <1>6 DEF AskType
<1> HIDE DEF a2
<1>8. a3 \in AskType
  BY <1>4, <1>7 DEF AskType
<1> HIDE DEF a3
<1>9. a4 \in AskType
  BY <1>8 DEF AskType
<1> HIDE DEF a4
<1>10. a5 \in AskType
  BY <1>2, <1>9 DEF AskType
<1> HIDE DEF a5
<1>11. a6 \in AskType /\ a6.nodes = CanvasNodes(docs, type)
  BY <1>3, <1>10 DEF AskType
<1> HIDE DEF a6
<1>12. a7 \in AskType /\ a7.nodes = CanvasNodes(docs, type) /\ a7.edges = CanvasEdges(docs, type)
  BY <1>3, <1>11 DEF AskType
<1> HIDE DEF a7
<1> QED
  BY <1>3, <1>5, <1>12 DEF AskInv

\* A query that adds edges between the nodes there are.
LEMMA EdgesAdded ==
    ASSUME NEW a \in AskType, Closed(a.edges, a.nodes),
           NEW more \in SUBSET EdgeType, Closed(more, a.nodes),
           NEW b \in AskType, b.nodes = a.nodes, b.edges \subseteq a.edges \cup more,
           ask' = b
    PROVE  AskInv'
  BY DEF AskInv, Closed

\* The relations added next join nodes found before.
LEMMA AskRelated ==
    ASSUME Typed, AskInv, SubgraphRelated \/ ChatRelated \/ OverviewRelated
    PROVE  AskInv'
<1> DEFINE names == NamesIn(ask.nodes)
           sub == RelatedAmong(names, SubgraphLabel)
           chat == RelatedAmong(names, ChatLabel)
           over == RelatedAmong(names, OverviewLabel)
<1>1. /\ sub \in SUBSET EdgeType /\ Closed(sub, ask.nodes)
      /\ chat \in SUBSET EdgeType /\ Closed(chat, ask.nodes)
      /\ over \in SUBSET EdgeType /\ Closed(over, ask.nodes)
  BY RelatedClosed DEF AskInv, AskType
<1> HIDE DEF sub, chat, over
<1>2. CASE SubgraphRelated
  <2> DEFINE edges == IF Cardinality(names) < 2 THEN {} ELSE sub
  <2>1. ask' = [ask EXCEPT !.pc = "documents", !.edges = edges]
    BY <1>2 DEF SubgraphRelated, sub
  <2>2. edges \in SUBSET EdgeType /\ Closed(edges, ask.nodes)
    BY <1>1 DEF Closed
  <2> HIDE DEF edges
  <2>3. ask' \in AskType /\ ask'.nodes = ask.nodes /\ ask'.edges = edges
    BY <2>1, <2>2 DEF AskInv, AskType, AskPC
  <2> QED
    BY <2>2, <2>3 DEF AskInv
<1>3. CASE ChatRelated
  <2>1. ask' = [ask EXCEPT !.pc = "documents", !.edges = chat]
    BY <1>3 DEF ChatRelated, chat
  <2>2. ask' \in AskType /\ ask'.nodes = ask.nodes /\ ask'.edges = chat
    BY <2>1, <1>1 DEF AskInv, AskType, AskPC
  <2> QED
    BY <1>1, <2>2 DEF AskInv
<1>4. CASE OverviewRelated
  <2> DEFINE a == Answered(ask)
             b == [a EXCEPT !.edges = a.edges \cup over]
  <2>1. ask' = b
    BY <1>4 DEF OverviewRelated, over
  <2>2. a \in AskType /\ a.nodes = ask.nodes /\ a.edges = ask.edges
    BY AnsweredIs DEF AskInv
  <2> HIDE DEF a
  <2>3. b \in AskType /\ b.nodes = a.nodes /\ b.edges = a.edges \cup over
    BY <2>2, <1>1 DEF AskType
  <2> HIDE DEF b
  <2> QED
    BY <1>1, <2>1, <2>2, <2>3, EdgesAdded DEF AskInv
<1> QED
  BY <1>2, <1>3, <1>4

\* So do the mentions the subgraph search adds.
LEMMA AskMentions ==
    ASSUME Typed, AskInv, SubgraphMentions
    PROVE  AskInv'
<1> DEFINE found == {x \in mentions : /\ x[1].doc \in DocsIn(ask.nodes)
                                      /\ x[2] \in NamesIn(ask.nodes)}
           Edge(m) == [source |-> DocId(m[1].doc), target |-> EntityId(m[2]), relation |-> "MENTIONS"]
           more == {Edge(m) : m \in found}
           a == Answered(ask)
           b == [a EXCEPT !.edges = a.edges \cup more]
<1>1. ask' = b
  BY DEF SubgraphMentions
<1>2. ask.nodes \in SUBSET NodeIds
  BY DEF AskInv, AskType
<1>3. ASSUME NEW m \in found
      PROVE  Edge(m) \in EdgeType /\ {Edge(m).source, Edge(m).target} \subseteq ask.nodes
  <2>1. DocId(m[1].doc) \in ask.nodes /\ EntityId(m[2]) \in ask.nodes
    BY <1>2, DocsAreNodes, NamesAreNodes
  <2> QED
    BY <1>2, <2>1 DEF EdgeType, Labels
<1>4. more \in SUBSET EdgeType /\ Closed(more, ask.nodes)
  <2> HIDE DEF found, Edge
  <2> QED
    BY <1>3 DEF Closed
<1> HIDE DEF more
<1>5. a \in AskType /\ a.nodes = ask.nodes /\ a.edges = ask.edges
  BY AnsweredIs DEF AskInv
<1> HIDE DEF a
<1>6. b \in AskType /\ b.nodes = a.nodes /\ b.edges = a.edges \cup more
  BY <1>4, <1>5 DEF AskType
<1> HIDE DEF b
<1> QED
  BY <1>1, <1>4, <1>5, <1>6, EdgesAdded DEF AskInv

\* The documents of the chat's search add no edges.
LEMMA AskChatDocuments ==
    ASSUME Typed, AskInv, ChatDocuments
    PROVE  AskInv'
<1> DEFINE from == {d \in DOMAIN docNode : /\ MentionedBy(d) \cap NamesIn(ask.nodes) # {}
                                           /\ AccessWhere(d, ask.user)}
           a == Answered(ask)
<1>1. PICK docs \in Pick(from, 8) : ask' = [a EXCEPT !.docs = docs]
  BY DEF ChatDocuments
<1>2. docs \subseteq Docs
  BY PickIs DEF Typed, GraphTyped
<1>3. a \in AskType /\ a.nodes = ask.nodes /\ a.edges = ask.edges
  BY AnsweredIs DEF AskInv
<1> HIDE DEF a
<1>4. ask' \in AskType /\ ask'.nodes = a.nodes /\ ask'.edges = a.edges
  BY <1>1, <1>2, <1>3 DEF AskType
<1> QED
  BY <1>3, <1>4 DEF AskInv

\* The documents a keyword adds to the overview come with their nodes.
LEMMA AskExtra ==
    ASSUME Typed, AskInv, OverviewExtra
    PROVE  AskInv'
<1>1. PICK docs \in SUBSET Docs : OnCanvas(docs, "related")
  <2> DEFINE found == {d \in DOMAIN docNode : MentionedBy(d) \cap ask.kw # {}}
  <2>1. PICK S \in Pick(found, Clamp(Limit, 1, 80)) : OnCanvas(S \ ask.docs, "related")
    BY DEF OverviewExtra
  <2>2. S \ ask.docs \in SUBSET Docs
    BY PickIs DEF Typed, GraphTyped
  <2> QED
    BY <2>1, <2>2
<1> DEFINE N == CanvasNodes(docs, ask.type)
           E == CanvasEdges(docs, ask.type)
<1>2. N \in SUBSET NodeIds /\ E \in SUBSET EdgeType /\ Closed(E, N)
  BY CanvasClosed
<1> DEFINE a1 == [ask EXCEPT !.pc = "related"]
           a2 == [a1 EXCEPT !.kw = {}]
           a3 == [a2 EXCEPT !.docs = ask.docs \cup docs]
           a4 == [a3 EXCEPT !.nodes = ask.nodes \cup N]
           a5 == [a4 EXCEPT !.edges = ask.edges \cup E]
<1>3. a1 \in AskType /\ a1.docs = ask.docs /\ a1.nodes = ask.nodes /\ a1.edges = ask.edges
  BY DEF AskInv, AskType, AskPC
<1>4. a2 \in AskType /\ a2.docs = ask.docs /\ a2.nodes = ask.nodes /\ a2.edges = ask.edges
  <2> HIDE DEF a1
  <2> QED
    BY <1>3 DEF AskType
<1>5. a3 \in AskType /\ a3.nodes = ask.nodes /\ a3.edges = ask.edges
  <2> HIDE DEF a2
  <2> QED
    BY <1>4 DEF AskInv, AskType
<1>6. a4 \in AskType /\ a4.nodes = ask.nodes \cup N /\ a4.edges = ask.edges
  <2> HIDE DEF a3, N
  <2> QED
    BY <1>2, <1>5 DEF AskInv, AskType
<1>7. a5 \in AskType /\ a5.nodes = ask.nodes \cup N /\ a5.edges = ask.edges \cup E
  <2> HIDE DEF a4, N, E
  <2> QED
    BY <1>2, <1>6 DEF AskInv, AskType
<1>8. ask' = a5
  BY <1>1 DEF OnCanvas
<1> HIDE DEF a5, N, E
<1>9. Closed(ask.edges \cup E, ask.nodes \cup N)
  BY <1>2 DEF AskInv, Closed
<1> QED
  BY <1>7, <1>8, <1>9 DEF AskInv

\* Every step of a reader keeps its answer closed.
LEMMA AskRead ==
    ASSUME Typed, AskInv, Read
    PROVE  AskInv'
<1>1. CASE \E kw \in Keywords \ {{}} : Subgraph(kw) \/ \E u \in Users : Chat(u, kw)
  BY <1>1, AskSubgraph, AskChat
<1>2. CASE \E kw \in Keywords, type \in {Null, "CONCEPT"} : Overview(kw, type)
  BY <1>2, AskOverview
<1>3. CASE AskFails
  BY <1>3, NothingFound DEF AskFails
<1> QED
  BY <1>1, <1>2, <1>3, AskRelated, AskMentions, AskChatDocuments, AskExtra DEF Read

-----------------------------------------------------------------------------
(* The invariant *)

IInv == Typed /\ NothingDangles /\ OrphansAwaited /\ AskInv

\* The publications, withdrawals and hand-overs leave the graph and its readers
\* alone.
LEMMA WorldKeeps ==
    ASSUME IInv, UNCHANGED <<graph, ask, faults>>, Typed',
           \A j \in Jobs : job[j].pc = "orphans" => job'[j] = job[j]
    PROVE  IInv'
<1>1. NothingDangles'
  BY DEF IInv, NothingDangles, graph
<1>2. OrphansAwaited'
  BY DEF IInv, OrphansAwaited, Orphans, graph
<1>3. AskInv'
  BY DEF IInv, AskInv
<1> QED
  BY <1>1, <1>2, <1>3 DEF IInv

\* A step of a build or deletion leaves the readers alone.
LEMMA BuildKeeps ==
    ASSUME IInv, NEW j \in Jobs, Build(j) \/ HandlerFails(j)
    PROVE  IInv'
<1>1. Typed'
  BY TypedReadRow, TypedReadBody, TypedDropDocument, TypedDropOrphans, TypedMergeDocument,
     TypedMergeChunk, TypedExtract, TypedWriteFact, TypedHandlerFails DEF IInv, Build
<1>2. NothingDangles'
  <2>1. CASE ReadRow(j) \/ ReadBody(j) \/ Extract(j) \/ HandlerFails(j)
    BY <2>1 DEF IInv, NothingDangles, ReadRow, ReadBody, Extract, HandlerFails, graph
  <2> QED
    BY <2>1, DanglesDropDocument, DanglesDropOrphans, DanglesMergeDocument, DanglesMergeChunk,
       DanglesWriteFact DEF IInv, Build
<1>3. OrphansAwaited'
  BY OrphansNext DEF IInv
<1>4. AskInv'
  <2>1. ask' = ask
    BY DEF Build, HandlerFails, ReadRow, ReadBody, DropDocument, DropOrphans, MergeDocument,
           MergeChunk, Extract, WriteFact
  <2> QED
    BY <2>1 DEF IInv, AskInv
<1> QED
  BY <1>1, <1>2, <1>3, <1>4 DEF IInv

\* The invariant holds initially ...
LEMMA InitHolds == Init => IInv
<1> SUFFICES ASSUME Init PROVE IInv
  OBVIOUS
<1>1. Typed
  BY TypedInit
<1>2. NothingDangles /\ OrphansAwaited
  BY DEF Init, NothingDangles, OrphansAwaited, Orphans
<1>3. AskInv
  BY IdleIsAnAsk DEF Init, AskInv, Closed
<1> QED
  BY <1>1, <1>2, <1>3 DEF IInv

\* ... and every step keeps it.
LEMMA StepKeeps == IInv /\ [Next]_graphVars => IInv'
<1> SUFFICES ASSUME IInv, [Next]_graphVars PROVE IInv'
  OBVIOUS
<1>1. ASSUME NEW d \in Docs, NEW t \in Texts, Publish(d, t)
      PROVE  IInv'
  <2>1. Typed'
    BY <1>1, TypedPublish DEF IInv
  <2> QED
    BY <1>1, <2>1, WorldKeeps DEF Publish, Announce
<1>2. ASSUME NEW d \in Docs, NEW status \in {"Draft", "Deleted"}, Withdraw(d, status)
      PROVE  IInv'
  <2>1. Typed'
    BY <1>2, TypedWithdraw DEF IInv
  <2> QED
    BY <1>2, <2>1, WorldKeeps DEF Withdraw, Announce
<1>3. ASSUME NEW j \in Jobs, NEW d \in Docs, Take(j, d)
      PROVE  IInv'
  <2>1. Typed'
    BY <1>3, TypedTake DEF IInv
  <2>2. \A k \in Jobs : job[k].pc = "orphans" => job'[k] = job[k]
    BY <1>3 DEF Take, Working, IInv, Typed, JobsTyped
  <2> QED
    BY <1>3, <2>1, <2>2, WorldKeeps DEF Take
<1>4. ASSUME Read
      PROVE  IInv'
  <2>1. Reading
    BY <1>4, ReadersRead
  <2>2. Typed' /\ AskInv'
    BY <1>4, <2>1, TypedReading, AskRead DEF IInv
  <2>3. NothingDangles' /\ OrphansAwaited'
    BY <2>1 DEF IInv, NothingDangles, OrphansAwaited, Orphans, Reading, graph
  <2> QED
    BY <2>2, <2>3 DEF IInv
<1>5. CASE UNCHANGED graphVars
  <2>1. Reading /\ ask' = ask
    BY <1>5 DEF graphVars, Reading
  <2>2. Typed'
    BY <2>1, TypedReading DEF IInv
  <2> QED
    BY <2>1, <2>2, WorldKeeps DEF Reading
<1> QED
  BY <1>1, <1>2, <1>3, <1>4, <1>5, BuildKeeps DEF Next

\* Every reachable state satisfies it.
LEMMA AlwaysIInv == Spec => []IInv
  BY InitHolds, StepKeeps, PTL DEF Spec

\* Whatever the LLM answers and however builds, deletions and readers
\* interleave, only known kinds of things are written to the graph.
THEOREM AlwaysTyped == Spec => []TypeOK
<1>1. IInv => TypeOK
  <2> SUFFICES ASSUME IInv PROVE TypeOK
    OBVIOUS
  <2>1. ASSUME NEW j \in Jobs
        PROVE  /\ job[j].pc \in JobPC /\ job[j].doc \in Docs \cup {Null}
               /\ job[j].build \in BOOLEAN
               /\ Elements(job[j].chunks) \subseteq Chunks
               /\ \A q \in Elements(job[j].todo) : q.op \in {"ENTITY", "RELATION"}
    <3>1. job[j] \in RunType
      BY DEF IInv, Typed, JobsTyped
    <3>2. \A i \in DOMAIN job[j].todo : job[j].todo[i] \in EntityQuery \cup RelationQuery
      BY <3>1 DEF RunType
    <3> QED
      BY <3>1, <3>2 DEF RunType, Elements, EntityQuery, RelationQuery
  <2>2. \A r \in related : {r.source, r.target} \subseteq Names /\ r.type \in RelationTypes
    BY DEF IInv, Typed, GraphTyped
  <2> QED
    BY <2>1, <2>2 DEF IInv, Typed, RowsTyped, GraphTyped, AskInv, AskType, TypeOK
<1> QED
  BY <1>1, AlwaysIInv, PTL

\* No chunk outlives its document, no mention its chunk or entity and no
\* relation its ends, in whatever order the queries of several handlers run and
\* whichever of them die.
THEOREM NeverDangles == Spec => []NothingDangles
<1>1. IInv => NothingDangles
  BY DEF IInv
<1> QED
  BY <1>1, AlwaysIInv, PTL

\* When all handlers have finished and none died, no entity is without a
\* mention: the deletion that took the last one is followed by a clean-up.
THEOREM NoOrphansInTheEnd == Spec => []OrphansCleared
<1>1. IInv => OrphansCleared
  BY DEF IInv, OrphansAwaited, OrphansCleared, Quiet, Working
<1> QED
  BY <1>1, AlwaysIInv, PTL

\* The queries of one answer may see different graphs, yet its edges join only
\* nodes of the answer.
THEOREM AnswersClose == Spec => []AnswersAreClosed
<1>1. IInv => AnswersAreClosed
  BY DEF IInv, AskInv, Closed, AnswersAreClosed
<1> QED
  BY <1>1, AlwaysIInv, PTL
-----------------------------------------------------------------------------
(* The graph agrees with the store: the invariant *)

\* The names that the ENTITY queries still to be run give.
Named(todo) == {q.of.name : q \in {x \in Elements(todo) : x.op = "ENTITY"}}

\* What the LLM says about c is in the graph.
Told(c) == c \in chunks /\ \A n \in FactNames(c) : <<c, n>> \in mentions

\* Nothing else is: a mention is of a name that the answer about its chunk gave.
MentionsAreFacts ==
    /\ \A m \in mentions : m[2] \in FactNames(m[1])
    /\ \A j \in Jobs : job[j].pc = "facts" =>
          Named(job[j].todo) \subseteq FactNames(Head(job[j].chunks))

\* A document that nothing is left to be done about.
Settled(d) ==
    /\ d \in DOMAIN docNode <=> row[d].status = "Published" /\ ~Blank(row[d].text)
    /\ \A c \in chunks : c.doc = d => c \in ExpectedChunks(d)
    /\ \A c \in ExpectedChunks(d) : Told(c)

\* How far the last handler of a document has come.
OnCourse(r) ==
    /\ r.build <=> row[r.doc].status = "Published"
    /\ r.pc \in {"row", "body", "node", "chunk", "extract", "facts"} => r.build
    /\ r.pc \in {"document", "orphans", "node"} /\ r.build =>
          r.chunks = ChunksOf(r.doc, row[r.doc].text)
    /\ r.pc \notin {"row", "body"} /\ r.build => ~Blank(row[r.doc].text)
    /\ r.pc \in {"row", "body", "orphans", "node"} => r.doc \notin DOMAIN docNode
    /\ r.pc \in {"chunk", "extract", "facts"} =>
          /\ r.doc \in DOMAIN docNode
          /\ \A c \in chunks : c.doc = r.doc => c \in ExpectedChunks(r.doc)
          /\ Elements(r.chunks) \subseteq ExpectedChunks(r.doc)
          /\ \A c \in ExpectedChunks(r.doc) : c \in Elements(r.chunks) \/ Told(c)
    /\ r.pc \in {"extract", "facts"} => Head(r.chunks) \in chunks
    /\ r.pc = "facts" =>
          \A n \in FactNames(Head(r.chunks)) :
             <<Head(r.chunks), n>> \in mentions \/ n \in Named(r.todo)

\* One handler at a time for each document.
OneByOne ==
    \A j, k \in Jobs : Working(j) /\ Working(k) /\ job[j].doc = job[k].doc => j = k

\* The last task handed out is the one the status calls for.
LastTaskFits ==
    \A d \in Docs : tasks[d] # <<>> =>
       (tasks[d][Len(tasks[d])] = "INDEX" <=> row[d].status = "Published")

AllOnCourse == \A j \in Jobs : Working(j) /\ tasks[job[j].doc] = <<>> => OnCourse(job[j])

AllSettled ==
    \A d \in Docs : tasks[d] = <<>> /\ (\A j \in Jobs : Working(j) => job[j].doc # d) => Settled(d)

InStep ==
    spaced /\ faults = {} => OneByOne /\ LastTaskFits /\ AllOnCourse /\ AllSettled

\* Publications and withdrawals of a document take turns, among the tasks that
\* wait and from the task being handled to the first of them.
Alternate ==
    \A d \in Docs : \A i \in 1..Len(tasks[d]) - 1 : tasks[d][i] # tasks[d][i + 1]

TakesTurns(r) == tasks[r.doc] # <<>> => (Head(tasks[r.doc]) = "INDEX" <=> ~r.build)

\* A build finds nothing of its document: it was never built, or has been
\* withdrawn since.
Bare(r) == r.pc \in {"row", "body", "orphans"} => r.doc \notin DOMAIN docNode

Builds(r) == r.pc \in {"row", "body", "node", "chunk", "extract", "facts"} => r.build

Cleared(d) ==
    tasks[d] # <<>> /\ Head(tasks[d]) = "INDEX" /\ (\A j \in Jobs : Working(j) => job[j].doc # d)
       => d \notin DOMAIN docNode

InTurns ==
    spaced /\ faults = {} =>
       /\ Alternate
       /\ \A j \in Jobs : Working(j) => TakesTurns(job[j]) /\ Bare(job[j]) /\ Builds(job[j])
       /\ \A d \in Docs : Cleared(d)

-----------------------------------------------------------------------------
(* The graph agrees with the store: names *)

\* The elements of a sequence are its first and those of the rest.
LEMMA HeadOrTail ==
    ASSUME NEW T, NEW s \in Seq(T), s # <<>>
    PROVE  /\ Elements(s) = {Head(s)} \cup Elements(Tail(s))
           /\ Head(s) \in T /\ Tail(s) \in Seq(T)
<1>1. Head(s) = s[1] /\ Tail(s) \in Seq(T) /\ Len(s) \in Nat \ {0} /\ Len(Tail(s)) = Len(s) - 1
      /\ \A i \in 1..(Len(s) - 1) : Tail(s)[i] = s[i + 1]
  OBVIOUS
<1>2. DOMAIN s = 1..Len(s) /\ DOMAIN Tail(s) = 1..(Len(s) - 1)
  BY <1>1
<1>3. ASSUME NEW i \in DOMAIN s
      PROVE  s[i] \in {Head(s)} \cup Elements(Tail(s))
  <2>1. CASE i = 1
    BY <1>1, <2>1
  <2>2. CASE i # 1
    <3>1. i - 1 \in 1..(Len(s) - 1) /\ s[i] = Tail(s)[i - 1]
      BY <1>1, <1>2, <2>2
    <3> QED
      BY <1>2, <3>1 DEF Elements
  <2> QED
    BY <2>1, <2>2
<1>4. ASSUME NEW i \in DOMAIN Tail(s)
      PROVE  Tail(s)[i] \in Elements(s)
  <2>1. i + 1 \in DOMAIN s /\ Tail(s)[i] = s[i + 1]
    BY <1>1, <1>2
  <2> QED
    BY <2>1 DEF Elements
<1>5. s[1] \in Elements(s) /\ s[1] \in T
  BY <1>1, <1>2 DEF Elements
<1>6. Elements(s) \subseteq {Head(s)} \cup Elements(Tail(s))
  BY <1>3 DEF Elements
<1>7. Elements(Tail(s)) \subseteq Elements(s)
  BY <1>4 DEF Elements
<1> QED
  BY <1>1, <1>5, <1>6, <1>7

\* Running a query takes its name off the list.
LEMMA NamedStep ==
    ASSUME NEW todo \in Seq(EntityQuery \cup RelationQuery), todo # <<>>
    PROVE  Named(todo) = Named(Tail(todo))
                           \cup IF Head(todo).op = "ENTITY" THEN {Head(todo).of.name} ELSE {}
<1>1. Elements(todo) = {Head(todo)} \cup Elements(Tail(todo))
  BY HeadOrTail
<1> QED
  BY <1>1 DEF Named

\* No queries, no names.
LEMMA NamedNothing == Named(<<>>) = {}
  BY DEF Named, Elements

\* The ENTITY queries of an answer give the names the answer gives.
LEMMA NamedAreFacts ==
    ASSUME NEW c \in Chunks
    PROVE  Named(Queries(ToExtractionResult(Answer[c.text]))) = FactNames(c)
<1> DEFINE facts == ToExtractionResult(Answer[c.text])
           es == facts.entities
           rs == facts.relations
           qe == [i \in DOMAIN es |-> [op |-> "ENTITY", of |-> es[i]]]
           qr == [i \in DOMAIN rs |-> [op |-> "RELATION", of |-> rs[i]]]
<1>1. PICK n \in Nat, m \in Nat : DOMAIN es = 1..n /\ DOMAIN rs = 1..m
  BY ChunksAre, ExtractedAre
<1>2. FactNames(c) = {es[i].name : i \in DOMAIN es}
  BY DEF FactNames
<1>3. Queries(facts) = qe \o qr
  BY DEF Queries
<1> HIDE DEF es, rs, facts
<1> DEFINE S == {qe[i] : i \in 1..n} \cup {qr[i] : i \in 1..m}
<1>4. qe \in Seq(S) /\ qr \in Seq(S) /\ Len(qe) = n /\ Len(qr) = m
  <2>1. (\A i \in 1..n : qe[i] \in S) /\ (\A i \in 1..m : qr[i] \in S)
    OBVIOUS
  <2>2. qe = [i \in 1..n |-> qe[i]] /\ qr = [i \in 1..m |-> qr[i]]
    BY <1>1
  <2>3. DOMAIN qe = 1..n /\ DOMAIN qr = 1..m
    BY <1>1
  <2> HIDE DEF qe, qr, S
  <2>4. qe \in Seq(S) /\ qr \in Seq(S)
    BY <2>1, <2>2, IsASeq
  <2> QED
    BY <2>3, <2>4, LenProperties
<1>5. \A i \in 1..n : qe[i].op = "ENTITY" /\ qe[i].of.name = es[i].name
  BY <1>1
<1>6. \A i \in 1..m : qr[i].op = "RELATION"
  BY <1>1
<1> HIDE DEF qe, qr, S
<1>7. /\ Len(qe \o qr) = n + m
      /\ DOMAIN (qe \o qr) = 1..(n + m)
      /\ \A i \in 1..(n + m) : (qe \o qr)[i] = IF i <= n THEN qe[i] ELSE qr[i - n]
  BY <1>4
<1>8. \A i \in 1..n : (qe \o qr)[i] = qe[i] /\ i \in 1..(n + m)
  BY <1>7
<1>9. \A i \in 1..(n + m) : i \notin 1..n => (qe \o qr)[i].op = "RELATION"
  BY <1>6, <1>7
<1>10. Elements(Queries(facts)) = {(qe \o qr)[i] : i \in 1..(n + m)}
  BY <1>3, <1>7 DEF Elements
<1>11. ASSUME NEW x \in Named(Queries(facts))
       PROVE  x \in FactNames(c)
  <2>1. PICK i \in 1..(n + m) : (qe \o qr)[i].op = "ENTITY" /\ (qe \o qr)[i].of.name = x
    BY <1>10 DEF Named
  <2>2. i \in 1..n
    BY <1>9, <2>1
  <2> QED
    BY <1>1, <1>2, <1>5, <1>8, <2>1, <2>2
<1>12. ASSUME NEW x \in FactNames(c)
       PROVE  x \in Named(Queries(facts))
  <2>1. PICK i \in 1..n : x = es[i].name
    BY <1>1, <1>2
  <2>2. (qe \o qr)[i] \in Elements(Queries(facts)) /\ (qe \o qr)[i] = qe[i]
    BY <1>8, <1>10
  <2> QED
    BY <1>5, <2>1, <2>2 DEF Named
<1> QED
  BY <1>11, <1>12 DEF facts

-----------------------------------------------------------------------------
(* The graph agrees with the store: steps *)

\* Nothing to be done is a list of queries.
LEMMA NothingToDo == <<>> \in Seq(EntityQuery \cup RelationQuery)
  OBVIOUS

\* A job that goes on to another query keeps what it holds.
LEMMA GotoIs ==
    ASSUME Typed, NEW j \in Jobs, NEW pc, Goto(j, pc)
    PROVE  /\ job'[j].pc = pc /\ job'[j].doc = job[j].doc /\ job'[j].build = job[j].build
           /\ job'[j].chunks = job[j].chunks /\ job'[j].todo = job[j].todo
  BY DEF Goto, Typed, JobsTyped, RunType

\* A job that is done is free.
LEMMA DoneIs ==
    ASSUME Typed, NEW j \in Jobs, Done(j)
    PROVE  job'[j].pc = "free" /\ ~Working(j)'
  BY DEF Done, Free, Working, Typed, JobsTyped

\* What the queries of a chunk leave of a job.
LEMMA WithQueriesIs ==
    ASSUME Typed, NEW j \in Jobs, Working(j), job[j].chunks # <<>>,
           NEW todo \in Seq(EntityQuery \cup RelationQuery),
           job' = [job EXCEPT ![j] = WithQueries(@, todo)]
    PROVE  /\ job'[j].doc = job[j].doc /\ job'[j].build = job[j].build /\ job'[j].todo = todo
           /\ IF todo = <<>>
              THEN job'[j].pc = "chunk" /\ job'[j].chunks = Tail(job[j].chunks)
              ELSE job'[j].pc = "facts" /\ job'[j].chunks = job[j].chunks
<1>1. job[j] \in RunType /\ Holds(job[j])
  BY DEF Typed, JobsTyped
<1>2. job'[j] = WithQueries(job[j], todo)
  BY DEF Typed, JobsTyped
<1> QED
  BY <1>1, <1>2, WithQueriesHolds

\* The two ways a chunk that has been read goes on.
LEMMA ExtractIs ==
    ASSUME Typed, NEW j \in Jobs, Extract(j)
    PROVE  /\ Working(j) /\ job[j].chunks # <<>> /\ Head(job[j].chunks) \in Chunks
           /\ Head(job[j].chunks).doc = job[j].doc
           /\ Queries(ToExtractionResult(Answer[Head(job[j].chunks).text]))
                \in Seq(EntityQuery \cup RelationQuery)
           /\ \E todo \in {Queries(ToExtractionResult(Answer[Head(job[j].chunks).text])), <<>>} :
                 /\ job' = [job EXCEPT ![j] = WithQueries(@, todo)]
                 /\ faults' = {} =>
                      todo = Queries(ToExtractionResult(Answer[Head(job[j].chunks).text]))
<1> DEFINE c == Head(job[j].chunks)
           found == Queries(ToExtractionResult(Answer[c.text]))
<1>1. Working(j) /\ job[j].pc = "extract"
  BY DEF Extract, Working
<1>2. job[j] \in RunType /\ Holds(job[j])
  BY <1>1 DEF Typed, JobsTyped
<1>3. job[j].chunks # <<>> /\ job[j].chunks \in Seq(ChunksIn(job[j].doc))
  BY <1>1, <1>2 DEF Holds
<1>4. c \in ChunksIn(job[j].doc)
  BY <1>3
<1>5. c \in Chunks /\ c.doc = job[j].doc
  BY <1>4 DEF ChunksIn
<1>6. found \in Seq(EntityQuery \cup RelationQuery)
  BY <1>5, ChunksAre, FactsAreTyped
<1>7. \/ job' = [job EXCEPT ![j] = WithQueries(@, found)]
      \/ job' = [job EXCEPT ![j] = WithQueries(@, Queries(NoFacts))] /\ faults' # {}
  BY DEF Extract, Fault
<1> HIDE DEF found, c
<1>8. \E todo \in {found, <<>>} :
         /\ job' = [job EXCEPT ![j] = WithQueries(@, todo)]
         /\ faults' = {} => todo = found
  BY <1>7, NoQueries
<1> QED
  BY <1>1, <1>3, <1>5, <1>6, <1>8 DEF found, c

\* What a query that writes a fact finds.
LEMMA WriteFactIs ==
    ASSUME Typed, NEW j \in Jobs, WriteFact(j)
    PROVE  /\ Working(j) /\ job[j].chunks # <<>> /\ Head(job[j].chunks) \in Chunks
           /\ Head(job[j].chunks).doc = job[j].doc
           /\ job[j].todo \in Seq(EntityQuery \cup RelationQuery) /\ job[j].todo # <<>>
           /\ Tail(job[j].todo) \in Seq(EntityQuery \cup RelationQuery)
           /\ job' = [job EXCEPT ![j] = WithQueries(@, Tail(job[j].todo))]
           /\ UNCHANGED <<docNode, chunks>>
           /\ IF Head(job[j].todo).op = "ENTITY" /\ Head(job[j].chunks) \in chunks
              THEN mentions' = mentions \cup {<<Head(job[j].chunks), Head(job[j].todo).of.name>>}
              ELSE mentions' = mentions
<1>1. Working(j) /\ job[j].pc = "facts"
  BY DEF WriteFact, Working
<1>2. job[j] \in RunType /\ Holds(job[j])
  BY <1>1 DEF Typed, JobsTyped
<1>3. job[j].chunks # <<>> /\ job[j].chunks \in Seq(ChunksIn(job[j].doc))
      /\ job[j].todo # <<>> /\ job[j].todo \in Seq(EntityQuery \cup RelationQuery)
  BY <1>1, <1>2 DEF Holds, RunType
<1>4. Head(job[j].chunks) \in ChunksIn(job[j].doc)
  BY <1>3
<1>5. Head(job[j].chunks) \in Chunks /\ Head(job[j].chunks).doc = job[j].doc
  BY <1>4 DEF ChunksIn
<1>6. Tail(job[j].todo) \in Seq(EntityQuery \cup RelationQuery)
  BY <1>3
<1>7. job' = [job EXCEPT ![j] = WithQueries(@, Tail(job[j].todo))] /\ UNCHANGED <<docNode, chunks>>
  BY DEF WriteFact
<1>8. IF Head(job[j].todo).op = "ENTITY" /\ Head(job[j].chunks) \in chunks
      THEN mentions' = mentions \cup {<<Head(job[j].chunks), Head(job[j].todo).of.name>>}
      ELSE mentions' = mentions
  BY DEF WriteFact, MergeEntity, MergeRelation
<1> QED
  BY <1>1, <1>3, <1>5, <1>6, <1>7, <1>8

\* A step of a build concerns one job, which is done or goes on with its document.
LEMMA BuildMoves ==
    ASSUME Typed, NEW j \in Jobs, Build(j) \/ HandlerFails(j)
    PROVE  /\ Working(j) /\ job[j].doc \in Docs
           /\ UNCHANGED <<world, tasks>> /\ faults \subseteq faults'
           /\ \A k \in Jobs : k # j => job'[k] = job[k]
           /\ Working(j)' => job'[j].doc = job[j].doc
<1>1. Working(j)
  BY DEF Build, HandlerFails, ReadRow, ReadBody, DropDocument, DropOrphans, MergeDocument,
         MergeChunk, Extract, WriteFact, Working
<1>2. UNCHANGED <<world, tasks>> /\ faults \subseteq faults'
  BY DEF Build, HandlerFails, ReadRow, ReadBody, DropDocument, DropOrphans, MergeDocument,
         MergeChunk, Extract, WriteFact, Fault
<1>3. \A k \in Jobs : k # j => job'[k] = job[k]
  BY DEF Build, HandlerFails, ReadRow, ReadBody, DropDocument, DropOrphans, MergeDocument,
         MergeChunk, Extract, WriteFact, Done, Goto, AfterOrphans, Typed, JobsTyped
<1>4. Working(j)' => job'[j].doc = job[j].doc
  <2>1. CASE Done(j)
    BY <2>1, DoneIs
  <2>2. CASE \E pc \in JobPC : Goto(j, pc)
    BY <2>2, GotoIs
  <2>3. CASE ReadBody(j)
    <3>1. CASE ~Done(j)
      <4> DEFINE cs == ChunksOf(job[j].doc, row[job[j].doc].text)
      <4>1. job' = [job EXCEPT ![j].pc = "document", ![j].chunks = cs]
        BY <2>3, <3>1 DEF ReadBody
      <4> HIDE DEF cs
      <4> QED
        BY <4>1 DEF Typed, JobsTyped, RunType
    <3> QED
      BY <2>1, <3>1
  <2>4. CASE Extract(j)
    <3> DEFINE found == Queries(ToExtractionResult(Answer[Head(job[j].chunks).text]))
    <3>1. PICK todo \in {found, <<>>} : job' = [job EXCEPT ![j] = WithQueries(@, todo)]
      BY <2>4, ExtractIs
    <3>2. found \in Seq(EntityQuery \cup RelationQuery) /\ job[j].chunks # <<>>
      BY <2>4, ExtractIs
    <3>3. todo \in Seq(EntityQuery \cup RelationQuery)
      <4> HIDE DEF found
      <4> QED
        BY <3>2, NothingToDo
    <3> QED
      BY <1>1, <3>1, <3>2, <3>3, WithQueriesIs
  <2>5. CASE WriteFact(j)
    BY <2>5, WriteFactIs, WithQueriesIs
  <2>6. ReadBody(j) \/ Extract(j) \/ WriteFact(j) \/ Done(j) \/ \E pc \in JobPC : Goto(j, pc)
    BY DEF Build, HandlerFails, ReadRow, DropDocument, DropOrphans, MergeDocument, MergeChunk,
           AfterOrphans, JobPC
  <2> QED
    BY <2>1, <2>2, <2>3, <2>4, <2>5, <2>6
<1>5. job[j].doc \in Docs
  BY <1>1 DEF Typed, JobsTyped, Holds
<1> QED
  BY <1>1, <1>2, <1>3, <1>4, <1>5

\* A step that adds no mention, and after which the job has no facts to write.
LEMMA FactsStay ==
    ASSUME Typed, MentionsAreFacts, NEW j \in Jobs, mentions' \subseteq mentions,
           \A k \in Jobs : k # j => job'[k] = job[k], job'[j].pc # "facts"
    PROVE  MentionsAreFacts'
<1>1. \A m \in mentions' : m[2] \in FactNames(m[1])
  BY DEF MentionsAreFacts
<1>2. \A k \in Jobs : job'[k].pc = "facts" =>
         Named(job'[k].todo) \subseteq FactNames(Head(job'[k].chunks))
  BY DEF MentionsAreFacts
<1> QED
  BY <1>1, <1>2 DEF MentionsAreFacts

\* The mentions stay within the facts.
LEMMA FactsNext ==
    ASSUME Typed, MentionsAreFacts, NEW j \in Jobs, Build(j) \/ HandlerFails(j)
    PROVE  MentionsAreFacts'
<1>0. \A k \in Jobs : k # j => job'[k] = job[k]
  BY BuildMoves
<1> DEFINE c == Head(job[j].chunks)
<1>1. CASE Extract(j)
  <2> DEFINE found == Queries(ToExtractionResult(Answer[c.text]))
  <2>1. PICK todo \in {found, <<>>} : job' = [job EXCEPT ![j] = WithQueries(@, todo)]
    BY <1>1, ExtractIs
  <2>a. c \in Chunks /\ found \in Seq(EntityQuery \cup RelationQuery) /\ mentions' = mentions
        /\ Working(j) /\ job[j].chunks # <<>>
    BY <1>1, ExtractIs DEF Extract, graph
  <2>b. todo \in Seq(EntityQuery \cup RelationQuery)
    <3> HIDE DEF found
    <3> QED
      BY <2>a, NothingToDo
  <2>2. c \in Chunks /\ todo \in Seq(EntityQuery \cup RelationQuery) /\ mentions' = mentions
        /\ Working(j) /\ job[j].chunks # <<>>
    BY <2>a, <2>b
  <2>3. /\ job'[j].todo = todo
        /\ IF todo = <<>> THEN job'[j].pc = "chunk"
           ELSE job'[j].pc = "facts" /\ job'[j].chunks = job[j].chunks
    BY <2>1, <2>2, WithQueriesIs
  <2>4. CASE todo = <<>>
    BY <1>0, <2>2, <2>3, <2>4, FactsStay
  <2>5. CASE todo # <<>>
    <3>1. Named(job'[j].todo) \subseteq FactNames(Head(job'[j].chunks))
      BY <2>2, <2>3, <2>5, NamedAreFacts
    <3> QED
      BY <1>0, <2>2, <3>1 DEF MentionsAreFacts
  <2> QED
    BY <2>4, <2>5
<1>2. CASE WriteFact(j)
  <2> DEFINE todo == job[j].todo
  <2>1. /\ Working(j) /\ job[j].chunks # <<>> /\ job[j].pc = "facts"
        /\ todo \in Seq(EntityQuery \cup RelationQuery) /\ todo # <<>>
        /\ Tail(todo) \in Seq(EntityQuery \cup RelationQuery)
        /\ job' = [job EXCEPT ![j] = WithQueries(@, Tail(todo))]
        /\ \/ mentions' = mentions
           \/ Head(todo).op = "ENTITY" /\ mentions' = mentions \cup {<<c, Head(todo).of.name>>}
    BY <1>2, WriteFactIs DEF WriteFact
  <2>2. Named(todo) \subseteq FactNames(c)
    BY <2>1 DEF MentionsAreFacts
  <2>3. Named(Tail(todo)) \subseteq FactNames(c)
        /\ (Head(todo).op = "ENTITY" => Head(todo).of.name \in FactNames(c))
    BY <2>1, <2>2, NamedStep
  <2>4. \A m \in mentions' : m[2] \in FactNames(m[1])
    BY <2>1, <2>3 DEF MentionsAreFacts
  <2>5. job'[j].pc = "facts" => Named(job'[j].todo) \subseteq FactNames(Head(job'[j].chunks))
    BY <2>1, <2>3, WithQueriesIs
  <2> QED
    BY <1>0, <2>4, <2>5 DEF MentionsAreFacts
<1>3. CASE HandlerFails(j) \/ ReadRow(j) \/ DropDocument(j) \/ DropOrphans(j)
           \/ MergeDocument(j) \/ MergeChunk(j)
  <2>1. mentions' \subseteq mentions
    BY <1>3 DEF HandlerFails, ReadRow, DropDocument, DropOrphans, MergeDocument, MergeChunk, graph
  <2>2. Done(j) \/ \E pc \in JobPC \ {"facts"} : Goto(j, pc)
    BY <1>3 DEF HandlerFails, ReadRow, DropDocument, DropOrphans, MergeDocument, MergeChunk,
                AfterOrphans, JobPC
  <2>3. job'[j].pc # "facts"
    BY <2>2, DoneIs, GotoIs
  <2> QED
    BY <1>0, <2>1, <2>3, FactsStay
<1>4. CASE ReadBody(j)
  <2>1. job'[j].pc # "facts"
    <3>1. CASE Done(j)
      BY <3>1, DoneIs
    <3>2. CASE ~Done(j)
      <4> DEFINE cs == ChunksOf(job[j].doc, row[job[j].doc].text)
      <4>1. job' = [job EXCEPT ![j].pc = "document", ![j].chunks = cs]
        BY <1>4, <3>2 DEF ReadBody
      <4> HIDE DEF cs
      <4> QED
        BY <4>1 DEF Typed, JobsTyped, RunType
    <3> QED
      BY <3>1, <3>2
  <2> QED
    BY <1>0, <1>4, <2>1, FactsStay DEF ReadBody, graph
<1> QED
  BY <1>1, <1>2, <1>3, <1>4 DEF Build

\* A step leaves what the graph holds of a document alone.
Untouched(e) ==
    /\ e \in DOMAIN docNode' <=> e \in DOMAIN docNode
    /\ \A c \in chunks : c.doc = e => c \in chunks'
    /\ \A c \in chunks' : c.doc = e => c \in chunks
    /\ \A m \in mentions : m[1].doc = e => m \in mentions'

\* The queries of a handler are about its own document.
LEMMA Elsewhere ==
    ASSUME Typed, NEW j \in Jobs, Build(j) \/ HandlerFails(j), NEW e \in Docs, e # job[j].doc
    PROVE  Untouched(e)
<1>1. CASE HandlerFails(j) \/ ReadRow(j) \/ ReadBody(j) \/ Extract(j) \/ DropOrphans(j)
  BY <1>1 DEF HandlerFails, ReadRow, ReadBody, Extract, DropOrphans, graph, Untouched
<1>2. CASE DropDocument(j)
  BY <1>2 DEF DropDocument, Without, Untouched
<1>3. CASE MergeDocument(j)
  BY <1>3 DEF MergeDocument, With, Untouched
<1>4. CASE MergeChunk(j)
  <2>1. CASE job[j].chunks = <<>>
    BY <1>4, <2>1 DEF MergeChunk, Untouched
  <2>2. CASE job[j].chunks # <<>>
    <3>1. job[j].chunks \in Seq(ChunksIn(job[j].doc))
      BY <1>4 DEF MergeChunk, Working, Typed, JobsTyped, Holds
    <3>2. Head(job[j].chunks) \in ChunksIn(job[j].doc)
      BY <2>2, <3>1
    <3>3. Head(job[j].chunks).doc # e
      BY <3>2 DEF ChunksIn
    <3>4. UNCHANGED <<docNode, mentions>>
          /\ chunks' = chunks \cup IF job[j].doc \in DOMAIN docNode THEN {Head(job[j].chunks)} ELSE {}
      BY <1>4, <2>2 DEF MergeChunk
    <3> QED
      BY <3>3, <3>4 DEF Untouched
  <2> QED
    BY <2>1, <2>2
<1>5. CASE WriteFact(j)
  <2>1. UNCHANGED <<docNode, chunks>> /\ mentions \subseteq mentions'
    BY <1>5, WriteFactIs
  <2> QED
    BY <2>1 DEF Untouched
<1> QED
  BY <1>1, <1>2, <1>3, <1>4, <1>5 DEF Build

\* What is untouched stays settled ...
LEMMA SettledStays ==
    ASSUME NEW e \in Docs, Untouched(e), row'[e] = row[e], Settled(e),
           \A c \in ExpectedChunks(e) : c.doc = e
    PROVE  Settled(e)'
<1>1. ExpectedChunks(e)' = ExpectedChunks(e)
  BY DEF ExpectedChunks
<1>2. ASSUME NEW c, Told(c), c.doc = e
      PROVE  Told(c)'
  BY <1>2 DEF Told, Untouched
<1> QED
  BY <1>1, <1>2 DEF Settled, Untouched

\* The chunks expected of a document are chunks of it.
LEMMA ExpectedAre ==
    ASSUME Typed, NEW d \in Docs
    PROVE  ExpectedChunks(d) \subseteq Chunks /\ \A c \in ExpectedChunks(d) : c.doc = d
<1>1. CASE row[d].status = "Published"
  <2>1. row[d].text \in Texts
    BY <1>1 DEF Typed, RowsTyped
  <2> QED
    BY <1>1, <2>1, ChunksOfAre DEF ExpectedChunks, ChunksIn
<1>2. CASE row[d].status # "Published"
  BY <1>2 DEF ExpectedChunks
<1> QED
  BY <1>1, <1>2

\* ... and a handler of it on its course.
LEMMA CourseStays ==
    ASSUME Typed, NEW r \in RunType, Holds(r), Untouched(r.doc), row'[r.doc] = row[r.doc],
           OnCourse(r)
    PROVE  OnCourse(r)'
<1>1. ExpectedChunks(r.doc)' = ExpectedChunks(r.doc)
  BY DEF ExpectedChunks
<1>2. ASSUME NEW c, Told(c), c.doc = r.doc
      PROVE  Told(c)'
  BY <1>2 DEF Told, Untouched
<1>3. ASSUME r.chunks # <<>>
      PROVE  Head(r.chunks).doc = r.doc
  <2>1. Head(r.chunks) \in ChunksIn(r.doc)
    BY <1>3 DEF Holds
  <2> QED
    BY <2>1 DEF ChunksIn
<1>4. \A c \in ExpectedChunks(r.doc) : c.doc = r.doc
  BY ExpectedAre DEF Holds
<1>5. r.pc \in {"chunk", "extract", "facts"} =>
          (/\ r.doc \in DOMAIN docNode
           /\ \A c \in chunks : c.doc = r.doc => c \in ExpectedChunks(r.doc)
           /\ Elements(r.chunks) \subseteq ExpectedChunks(r.doc)
           /\ \A c \in ExpectedChunks(r.doc) : c \in Elements(r.chunks) \/ Told(c))'
  BY <1>1, <1>2, <1>4 DEF OnCourse, Untouched
<1>6. r.pc \in {"extract", "facts"} => Head(r.chunks) \in chunks'
  BY <1>3 DEF OnCourse, Untouched, Holds
<1>7. r.pc = "facts" => \A n \in FactNames(Head(r.chunks)) :
             <<Head(r.chunks), n>> \in mentions' \/ n \in Named(r.todo)
  BY <1>3 DEF OnCourse, Untouched, Holds
<1>8. /\ r.build <=> row'[r.doc].status = "Published"
      /\ r.pc \in {"row", "body", "node", "chunk", "extract", "facts"} => r.build
      /\ r.pc \in {"document", "orphans", "node"} /\ r.build =>
            r.chunks = ChunksOf(r.doc, row'[r.doc].text)
      /\ r.pc \notin {"row", "body"} /\ r.build => ~Blank(row'[r.doc].text)
      /\ r.pc \in {"row", "body", "orphans", "node"} => r.doc \notin DOMAIN docNode'
  BY DEF OnCourse, Untouched
<1> QED
  BY <1>5, <1>6, <1>7, <1>8 DEF OnCourse, Blank

-----------------------------------------------------------------------------
(* The graph agrees with the store: a build, query by query *)

\* What the last handler of a document comes to.
Progress(j) ==
    \A d \in Docs : d = job[j].doc =>
       IF Working(j)' THEN OnCourse(job[j])' ELSE Settled(d)'

\* The row of a document to be built is there ...
LEMMA CourseReadRow ==
    ASSUME Typed, NEW j \in Jobs, ReadRow(j), OnCourse(job[j])
    PROVE  Working(j)' /\ OnCourse(job[j])'
<1>1. row[job[j].doc].status = "Published"
  BY DEF ReadRow, OnCourse
<1>2. Goto(j, "body") /\ UNCHANGED <<world, graph>>
  BY <1>1 DEF ReadRow
<1>3. /\ job'[j].pc = "body" /\ job'[j].doc = job[j].doc /\ job'[j].build = job[j].build
  BY <1>2, GotoIs
<1>4. job[j].pc = "row" /\ row' = row /\ docNode' = docNode
  BY <1>2 DEF ReadRow, world, graph
<1>5. OnCourse(job[j])'
  BY <1>3, <1>4 DEF OnCourse
<1> QED
  BY <1>3, <1>5 DEF Working

\* ... and so is its body, whose chunks are those expected; if it is blank the
\* handler ends, with nothing of the document in the graph.
LEMMA CourseReadBody ==
    ASSUME Typed, NothingDangles, NEW j \in Jobs, ReadBody(j), OnCourse(job[j])
    PROVE  Progress(j)
<1> SUFFICES ASSUME NEW d \in Docs, d = job[j].doc
             PROVE  IF Working(j)' THEN OnCourse(job[j])' ELSE Settled(d)'
  BY DEF Progress
<1> DEFINE cs == ChunksOf(d, row[d].text)
<1>1. /\ job[j].pc = "body" /\ job[j].build /\ row[d].status = "Published"
      /\ d \notin DOMAIN docNode /\ UNCHANGED <<row, docNode, chunks, mentions>>
  BY DEF ReadBody, OnCourse, world, graph
<1>2. CASE Blank(row[d].text)
  <2>1. ~Working(j)'
    BY <1>2, DoneIs DEF ReadBody
  <2>2. ExpectedChunks(d) = {}
    BY <1>1, <1>2 DEF ExpectedChunks, ChunksOf, Elements, Blank
  <2>3. \A c \in chunks : c.doc # d
    BY <1>1 DEF NothingDangles
  <2>4. Settled(d)'
    BY <1>1, <1>2, <2>2, <2>3 DEF Settled, ExpectedChunks, Blank
  <2> QED
    BY <2>1, <2>4
<1>3. CASE ~Blank(row[d].text)
  <2>1. job' = [job EXCEPT ![j].pc = "document", ![j].chunks = cs]
    BY <1>1, <1>3 DEF ReadBody
  <2>2. /\ job'[j].pc = "document" /\ job'[j].doc = d /\ job'[j].build = job[j].build
        /\ job'[j].chunks = cs
    <3> HIDE DEF cs
    <3> QED
      BY <2>1 DEF Typed, JobsTyped, RunType
  <2>3. OnCourse(job[j])'
    BY <1>1, <1>3, <2>2 DEF OnCourse, Blank
  <2> QED
    BY <2>2, <2>3 DEF Working
<1> QED
  BY <1>2, <1>3

\* Nothing of the document is left ...
LEMMA CourseDropDocument ==
    ASSUME Typed, NEW j \in Jobs, DropDocument(j), OnCourse(job[j])
    PROVE  Working(j)' /\ OnCourse(job[j])'
<1>1. /\ job'[j].pc = "orphans" /\ job'[j].doc = job[j].doc /\ job'[j].build = job[j].build
      /\ job'[j].chunks = job[j].chunks /\ job[j].pc = "document"
  BY GotoIs DEF DropDocument
<1>2. UNCHANGED world /\ job[j].doc \notin DOMAIN docNode'
  BY DEF DropDocument, Without
<1>3. OnCourse(job[j])'
  BY <1>1, <1>2 DEF OnCourse, world
<1> QED
  BY <1>1, <1>3 DEF Working

\* ... and a deletion ends there, with the document settled.
LEMMA CourseDropOrphans ==
    ASSUME Typed, NothingDangles, NEW j \in Jobs, DropOrphans(j), OnCourse(job[j])
    PROVE  Progress(j)
<1> SUFFICES ASSUME NEW d \in Docs, d = job[j].doc
             PROVE  IF Working(j)' THEN OnCourse(job[j])' ELSE Settled(d)'
  BY DEF Progress
<1>1. job[j].pc = "orphans" /\ UNCHANGED <<world, docNode, chunks, mentions>> /\ AfterOrphans(j)
  BY DEF DropOrphans
<1>2. d \notin DOMAIN docNode /\ \A c \in chunks : c.doc # d
  BY <1>1 DEF OnCourse, NothingDangles
<1>3. CASE job[j].build
  <2>1. /\ job'[j].pc = "node" /\ job'[j].doc = d /\ job'[j].build = job[j].build
        /\ job'[j].chunks = job[j].chunks
    BY <1>1, <1>3, GotoIs DEF AfterOrphans
  <2>2. OnCourse(job[j])'
    BY <1>1, <1>2, <1>3, <2>1 DEF OnCourse, world
  <2> QED
    BY <2>1, <2>2 DEF Working
<1>4. CASE ~job[j].build
  <2>1. row'[d].status # "Published" /\ row'[d] = row[d]
    BY <1>1, <1>4 DEF OnCourse, world
  <2>2. Settled(d)'
    BY <1>1, <1>2, <2>1 DEF Settled, ExpectedChunks
  <2>3. ~Working(j)'
    BY <1>1, <1>4, DoneIs DEF AfterOrphans
  <2> QED
    BY <2>2, <2>3
<1> QED
  BY <1>3, <1>4

\* The document is back, with all of its chunks to come.
LEMMA CourseMergeDocument ==
    ASSUME Typed, NothingDangles, NEW j \in Jobs, MergeDocument(j), OnCourse(job[j])
    PROVE  Working(j)' /\ OnCourse(job[j])'
<1>0. PICK d \in Docs : d = job[j].doc
  BY DEF Working, Typed, JobsTyped, Holds, MergeDocument
<1>1. job[j].pc = "node" /\ UNCHANGED <<world, chunks, mentions>> /\ DOMAIN docNode' = DOMAIN docNode \cup {d}
  BY <1>0 DEF MergeDocument, With
<1>2. d \notin DOMAIN docNode /\ \A c \in chunks : c.doc # d
  BY <1>0, <1>1 DEF OnCourse, NothingDangles
<1>3. job[j].build /\ row[d].status = "Published" /\ job[j].chunks = ChunksOf(d, row[d].text)
  BY <1>0, <1>1 DEF OnCourse
<1>4. /\ job'[j].pc = "chunk" /\ job'[j].doc = d /\ job'[j].build = job[j].build
      /\ job'[j].chunks = job[j].chunks
  BY <1>0, GotoIs DEF MergeDocument
<1>5. ExpectedChunks(d)' = Elements(job[j].chunks) /\ row'[d] = row[d]
  BY <1>0, <1>1, <1>3 DEF ExpectedChunks, world
<1>6. OnCourse(job[j])'
  BY <1>0, <1>1, <1>2, <1>3, <1>4, <1>5 DEF OnCourse
<1> QED
  BY <1>4, <1>6 DEF Working

\* Chunk by chunk, until none is left and the document is settled.
LEMMA CourseMergeChunk ==
    ASSUME Typed, NEW j \in Jobs, MergeChunk(j), OnCourse(job[j])
    PROVE  Progress(j)
<1> SUFFICES ASSUME NEW d \in Docs, d = job[j].doc
             PROVE  IF Working(j)' THEN OnCourse(job[j])' ELSE Settled(d)'
  BY DEF Progress
<1>1. job[j].pc = "chunk" /\ UNCHANGED <<world, docNode, mentions>>
  BY DEF MergeChunk
<1>2. /\ job[j].build /\ row[d].status = "Published" /\ d \in DOMAIN docNode
      /\ ~Blank(row[d].text)
      /\ \A c \in chunks : c.doc = d => c \in ExpectedChunks(d)
      /\ Elements(job[j].chunks) \subseteq ExpectedChunks(d)
      /\ \A c \in ExpectedChunks(d) : c \in Elements(job[j].chunks) \/ Told(c)
  BY <1>1 DEF OnCourse
<1>3. ExpectedChunks(d)' = ExpectedChunks(d) /\ row'[d] = row[d]
  BY <1>1 DEF ExpectedChunks, world
<1>4. CASE job[j].chunks = <<>>
  <2>1. Done(j) /\ UNCHANGED chunks
    BY <1>4 DEF MergeChunk
  <2>2. \A c \in ExpectedChunks(d) : Told(c)'
    BY <1>1, <1>2, <1>4, <2>1 DEF Told, Elements
  <2>3. Settled(d)'
    BY <1>1, <1>2, <1>3, <2>1, <2>2 DEF Settled, Blank
  <2> QED
    BY <2>1, <2>3, DoneIs
<1>5. CASE job[j].chunks # <<>>
  <2>1. chunks' = chunks \cup {Head(job[j].chunks)} /\ Goto(j, "extract")
    BY <1>2, <1>5 DEF MergeChunk
  <2>2. /\ job'[j].pc = "extract" /\ job'[j].doc = d /\ job'[j].build = job[j].build
        /\ job'[j].chunks = job[j].chunks
    BY <2>1, GotoIs
  <2>3. Head(job[j].chunks) \in Elements(job[j].chunks)
    <3>1. job[j].chunks \in Seq(Chunks)
      BY DEF Typed, JobsTyped, RunType
    <3> QED
      BY <1>5, <3>1, HeadOrTail
  <2>4. \A c : Told(c) => Told(c)'
    BY <1>1, <2>1 DEF Told
  <2>5. OnCourse(job[j])'
    BY <1>1, <1>2, <1>3, <2>1, <2>2, <2>3, <2>4 DEF OnCourse
  <2> QED
    BY <2>2, <2>5 DEF Working
<1> QED
  BY <1>4, <1>5

\* The queries of a chunk, and what they have told so far: either there are more
\* of them, or the chunk is told and its turn is over.
LEMMA CourseQueries ==
    ASSUME Typed, NEW j \in Jobs, job[j].pc \in {"extract", "facts"}, OnCourse(job[j]),
           NEW todo \in Seq(EntityQuery \cup RelationQuery),
           job' = [job EXCEPT ![j] = WithQueries(@, todo)],
           UNCHANGED <<world, docNode, chunks>>, mentions \subseteq mentions',
           \A n \in FactNames(Head(job[j].chunks)) :
              <<Head(job[j].chunks), n>> \in mentions' \/ n \in Named(todo)
    PROVE  Progress(j)
<1> SUFFICES ASSUME NEW d \in Docs, d = job[j].doc
             PROVE  IF Working(j)' THEN OnCourse(job[j])' ELSE Settled(d)'
  BY DEF Progress
<1>0. PICK c : c = Head(job[j].chunks)
  OBVIOUS
<1>1. /\ job[j].build /\ row[d].status = "Published" /\ d \in DOMAIN docNode
      /\ \A x \in chunks : x.doc = d => x \in ExpectedChunks(d)
      /\ Elements(job[j].chunks) \subseteq ExpectedChunks(d)
      /\ \A x \in ExpectedChunks(d) : x \in Elements(job[j].chunks) \/ Told(x)
      /\ c \in chunks
  BY <1>0 DEF OnCourse
<1>2. ExpectedChunks(d)' = ExpectedChunks(d) /\ row'[d] = row[d]
  BY DEF ExpectedChunks, world
<1>3. \A x : Told(x) => Told(x)'
  BY DEF Told
<1>4. Working(j) /\ job[j].chunks # <<>> /\ job[j].chunks \in Seq(Chunks)
  BY DEF Working, Typed, JobsTyped, Holds, RunType
<1>5. /\ job'[j].doc = d /\ job'[j].build = job[j].build /\ job'[j].todo = todo
      /\ IF todo = <<>>
         THEN job'[j].pc = "chunk" /\ job'[j].chunks = Tail(job[j].chunks)
         ELSE job'[j].pc = "facts" /\ job'[j].chunks = job[j].chunks
  BY <1>4, WithQueriesIs
<1>6. CASE todo = <<>>
  <2>1. Told(c)'
    BY <1>0, <1>1, <1>6, NamedNothing DEF Told
  <2>2. Elements(job[j].chunks) = {c} \cup Elements(Tail(job[j].chunks))
    BY <1>0, <1>4, HeadOrTail
  <2>3. \A x \in ExpectedChunks(d) : x \in Elements(Tail(job[j].chunks)) \/ Told(x)'
    BY <1>1, <1>3, <2>1, <2>2
  <2>4. OnCourse(job[j])'
    BY <1>1, <1>2, <1>5, <1>6, <2>2, <2>3 DEF OnCourse
  <2> QED
    BY <1>5, <1>6, <2>4 DEF Working
<1>7. CASE todo # <<>>
  <2>1. /\ job'[j].pc = "facts" /\ job'[j].chunks = job[j].chunks /\ job'[j].todo = todo
        /\ job'[j].doc = d /\ job'[j].build
    BY <1>1, <1>5, <1>7
  <2>2. \A x \in ExpectedChunks(d) : x \in Elements(job[j].chunks) \/ Told(x)'
    BY <1>1, <1>3
  <2>3. \A n \in FactNames(Head(job'[j].chunks)) :
           <<Head(job'[j].chunks), n>> \in mentions' \/ n \in Named(job'[j].todo)
    BY <2>1
  <2>4. OnCourse(job[j])'
    BY <1>0, <1>1, <1>2, <2>1, <2>2, <2>3 DEF OnCourse
  <2> QED
    BY <2>1, <2>4 DEF Working
<1> QED
  BY <1>6, <1>7

\* Every name of the answer is to be written ...
LEMMA CourseExtract ==
    ASSUME Typed, NEW j \in Jobs, Extract(j), faults' = {}, OnCourse(job[j])
    PROVE  Progress(j)
<1> DEFINE c == Head(job[j].chunks)
           todo == Queries(ToExtractionResult(Answer[c.text]))
<1>1. /\ c \in Chunks /\ todo \in Seq(EntityQuery \cup RelationQuery)
      /\ job' = [job EXCEPT ![j] = WithQueries(@, todo)]
  BY ExtractIs
<1>2. job[j].pc = "extract" /\ UNCHANGED <<world, docNode, chunks, mentions>>
  BY DEF Extract, graph
<1>3. FactNames(c) = Named(todo)
  BY <1>1, NamedAreFacts
<1> HIDE DEF todo
<1> QED
  BY <1>1, <1>2, <1>3, CourseQueries

\* ... and is written when its query runs.
LEMMA CourseWriteFact ==
    ASSUME Typed, NEW j \in Jobs, WriteFact(j), OnCourse(job[j])
    PROVE  Progress(j)
<1> DEFINE c == Head(job[j].chunks)
           todo == job[j].todo
<1>1. job[j].pc = "facts" /\ UNCHANGED world
  BY DEF WriteFact
<1>2. /\ todo \in Seq(EntityQuery \cup RelationQuery) /\ todo # <<>>
      /\ Tail(todo) \in Seq(EntityQuery \cup RelationQuery)
      /\ job' = [job EXCEPT ![j] = WithQueries(@, Tail(todo))]
      /\ UNCHANGED <<docNode, chunks>>
      /\ IF Head(todo).op = "ENTITY" /\ c \in chunks
         THEN mentions' = mentions \cup {<<c, Head(todo).of.name>>}
         ELSE mentions' = mentions
  BY WriteFactIs
<1>3. c \in chunks /\ \A n \in FactNames(c) : <<c, n>> \in mentions \/ n \in Named(todo)
  BY <1>1 DEF OnCourse
<1>4. Named(todo) = Named(Tail(todo)) \cup IF Head(todo).op = "ENTITY" THEN {Head(todo).of.name} ELSE {}
  BY <1>2, NamedStep
<1>5. \A n \in FactNames(c) : <<c, n>> \in mentions' \/ n \in Named(Tail(todo))
  BY <1>2, <1>3, <1>4
<1>6. mentions \subseteq mentions'
  BY <1>2
<1> QED
  BY <1>1, <1>2, <1>5, <1>6, CourseQueries

\* In a behaviour without failures every query of a build brings it forward.
LEMMA CourseNext ==
    ASSUME Typed, NothingDangles, NEW j \in Jobs, Build(j), faults' = {}, OnCourse(job[j])
    PROVE  Progress(j)
  BY CourseReadRow, CourseReadBody, CourseDropDocument, CourseDropOrphans, CourseMergeDocument,
     CourseMergeChunk, CourseExtract, CourseWriteFact DEF Build, Progress

-----------------------------------------------------------------------------
(* The graph agrees with the store: every step *)

\* A step of a build keeps every document in step.
LEMMA InStepBuild ==
    ASSUME Typed, NothingDangles, InStep, NEW j \in Jobs, Build(j) \/ HandlerFails(j)
    PROVE  InStep'
<1> SUFFICES ASSUME spaced', faults' = {}
             PROVE  OneByOne' /\ LastTaskFits' /\ AllOnCourse' /\ AllSettled'
  BY DEF InStep
<1>1. /\ Working(j) /\ job[j].doc \in Docs /\ UNCHANGED <<row, tasks, spaced>> /\ faults = {}
      /\ \A k \in Jobs : k # j => job'[k] = job[k]
      /\ Working(j)' => job'[j].doc = job[j].doc
  BY BuildMoves DEF world
<1>2. PICK d \in Docs : d = job[j].doc
  BY <1>1
<1>3. OneByOne /\ LastTaskFits /\ AllOnCourse /\ AllSettled
  BY <1>1 DEF InStep
<1>4. Build(j)
  BY DEF HandlerFails, Fault
<1>5. tasks[d] = <<>> => IF Working(j)' THEN OnCourse(job[j])' ELSE Settled(d)'
  BY <1>1, <1>2, <1>3, <1>4, CourseNext DEF AllOnCourse, Progress
<1>6. \A e \in Docs : e # d => Untouched(e)
  BY <1>2, Elsewhere
<1>7. OneByOne'
  BY <1>1, <1>3 DEF OneByOne, Working
<1>8. LastTaskFits'
  BY <1>1, <1>3 DEF LastTaskFits
<1>9. AllOnCourse'
  <2> SUFFICES ASSUME NEW k \in Jobs, Working(k)', tasks'[job'[k].doc] = <<>>
               PROVE  OnCourse(job[k])'
    BY DEF AllOnCourse
  <2>1. CASE k = j
    BY <1>1, <1>2, <1>5, <2>1
  <2>2. CASE k # j
    <3>1. job'[k] = job[k] /\ Working(k) /\ job[k] \in RunType /\ Holds(job[k])
      BY <1>1, <2>2 DEF Working, Typed, JobsTyped
    <3>2. PICK r \in RunType : r = job[k]
      BY <3>1
    <3>3. Holds(r) /\ r.doc # d /\ OnCourse(r)
      BY <1>1, <1>2, <1>3, <2>2, <3>1, <3>2 DEF OneByOne, AllOnCourse
    <3>4. Untouched(r.doc) /\ row'[r.doc] = row[r.doc]
      BY <1>1, <1>6, <3>3 DEF Holds
    <3>5. OnCourse(r)'
      BY <3>3, <3>4, CourseStays
    <3>6. job'[k] = r
      BY <3>1, <3>2
    <3> QED
      BY <3>5, <3>6
  <2> QED
    BY <2>1, <2>2
<1>10. AllSettled'
  <2> SUFFICES ASSUME NEW e \in Docs, tasks'[e] = <<>>,
                      \A k \in Jobs : Working(k)' => job'[k].doc # e
               PROVE  Settled(e)'
    BY DEF AllSettled
  <2>1. CASE e = d
    <3>1. ~Working(j)'
      BY <1>1, <1>2, <2>1
    <3> QED
      BY <1>1, <1>5, <2>1, <3>1
  <2>2. CASE e # d
    <3>1. \A k \in Jobs : Working(k) => job[k].doc # e
      BY <1>1, <1>2, <2>2 DEF Working
    <3>2. Settled(e) /\ row'[e] = row[e]
      BY <1>1, <1>3, <3>1 DEF AllSettled
    <3> QED
      BY <1>6, <2>2, <3>2, SettledStays, ExpectedAre
  <2> QED
    BY <2>1, <2>2
<1> QED
  BY <1>7, <1>8, <1>9, <1>10

\* Nothing that happens to one document in the store bears on another.
LEMMA InStepAnnounce ==
    ASSUME Typed, InStep, NEW d \in Docs, NEW type \in {"INDEX", "DELETE"}, Announce(d, type),
           \A e \in Docs : e # d => row'[e] = row[e],
           row'[d].status = "Published" <=> type = "INDEX"
    PROVE  InStep'
<1> SUFFICES ASSUME spaced', faults' = {}
             PROVE  OneByOne' /\ LastTaskFits' /\ AllOnCourse' /\ AllSettled'
  BY DEF InStep
<1>1. /\ UNCHANGED <<job, docNode, chunks, mentions, spaced, faults>>
      /\ tasks' = [tasks EXCEPT ![d] = Append(tasks[d], type)]
  BY DEF Announce, graph, Typed, RowsTyped
<1>2. OneByOne /\ LastTaskFits /\ AllOnCourse /\ AllSettled
  BY <1>1 DEF InStep
<1>3. tasks[d] \in Seq({"INDEX", "DELETE"}) /\ \A e \in Docs : e # d => tasks'[e] = tasks[e]
  BY <1>1 DEF Typed, RowsTyped
<1>4. tasks'[d] # <<>> /\ tasks'[d][Len(tasks'[d])] = type
  <2>1. tasks'[d] = Append(tasks[d], type)
    BY <1>1 DEF Typed, RowsTyped
  <2> QED
    BY <1>3, <2>1, AppendProperties
<1>5. \A e \in Docs : Untouched(e)
  BY <1>1 DEF Untouched
<1>6. OneByOne'
  BY <1>1, <1>2 DEF OneByOne, Working
<1>7. LastTaskFits'
  BY <1>2, <1>3, <1>4 DEF LastTaskFits
<1>8. AllOnCourse'
  <2> SUFFICES ASSUME NEW k \in Jobs, Working(k)', tasks'[job'[k].doc] = <<>>
               PROVE  OnCourse(job[k])'
    BY DEF AllOnCourse
  <2>1. PICK r \in RunType : r = job[k] /\ job'[k] = r
    BY <1>1 DEF Typed, JobsTyped
  <2>2. Working(k) /\ Holds(r) /\ r.doc # d
    BY <1>1, <1>4, <2>1 DEF Working, Typed, JobsTyped
  <2>3. OnCourse(r)
    BY <1>2, <1>3, <2>1, <2>2 DEF AllOnCourse, Holds
  <2>4. OnCourse(r)'
    BY <1>5, <2>2, <2>3, CourseStays DEF Holds
  <2> QED
    BY <2>1, <2>4
<1>9. AllSettled'
  <2> SUFFICES ASSUME NEW e \in Docs, tasks'[e] = <<>>,
                      \A k \in Jobs : Working(k)' => job'[k].doc # e
               PROVE  Settled(e)'
    BY DEF AllSettled
  <2>1. e # d
    BY <1>4
  <2>2. Settled(e)
    BY <1>1, <1>2, <1>3, <2>1 DEF AllSettled, Working
  <2> QED
    BY <1>5, <2>1, <2>2, SettledStays, ExpectedAre
<1> QED
  BY <1>6, <1>7, <1>8, <1>9

\* A handler that takes the last task of a document is on its course.
LEMMA InStepTake ==
    ASSUME Typed, InStep, InTurns, NEW j \in Jobs, NEW d \in Docs, Take(j, d)
    PROVE  InStep'
<1> SUFFICES ASSUME spaced', faults' = {}
             PROVE  OneByOne' /\ LastTaskFits' /\ AllOnCourse' /\ AllSettled'
  BY DEF InStep
<1>1. /\ UNCHANGED <<row, docNode, chunks, mentions, spaced, faults>>
      /\ tasks' = [tasks EXCEPT ![d] = Tail(tasks[d])] /\ tasks[d] # <<>>
      /\ ~Working(j) /\ \A k \in Jobs : Working(k) => job[k].doc # d
  BY DEF Take, graph, world, Typed, RowsTyped
<1>2. OneByOne /\ LastTaskFits /\ AllOnCourse /\ AllSettled
  BY <1>1 DEF InStep
<1>3. PICK b \in BOOLEAN : b = (Head(tasks[d]) = "INDEX")
  OBVIOUS
<1>4. job' = [job EXCEPT ![j] = TakenRun(d, b)]
  BY <1>3 DEF Take, TakenRun
<1>5. /\ job'[j].doc = d /\ job'[j].build = b
      /\ job'[j].pc = IF b THEN "row" ELSE "document"
      /\ \A k \in Jobs : k # j => job'[k] = job[k]
  <2>1. job'[j] = TakenRun(d, b) /\ \A k \in Jobs : k # j => job'[k] = job[k]
    BY <1>4 DEF Typed, JobsTyped
  <2> QED
    BY <2>1, TakenRunIs
<1>6. /\ tasks[d] \in Seq({"INDEX", "DELETE"}) /\ tasks'[d] = Tail(tasks[d])
      /\ \A e \in Docs : e # d => tasks'[e] = tasks[e]
  BY <1>1 DEF Typed, RowsTyped
<1>7. tasks'[d] # <<>> => tasks'[d][Len(tasks'[d])] = tasks[d][Len(tasks[d])]
  <2>1. tasks[d] \in Seq({"INDEX", "DELETE"}) /\ tasks[d] # <<>>
    BY <1>1, <1>6
  <2> QED
    BY <1>6, <2>1
<1>8. tasks'[d] = <<>> => (b <=> row[d].status = "Published")
  <2>1. tasks'[d] = <<>> => Head(tasks[d]) = tasks[d][Len(tasks[d])]
    <3>1. Len(Tail(tasks[d])) = Len(tasks[d]) - 1 /\ Head(tasks[d]) = tasks[d][1]
          /\ Len(tasks[d]) \in Nat /\ Len(<<>>) = 0
      BY <1>1, <1>6
    <3>2. tasks'[d] = <<>> => Len(tasks[d]) = 1
      <4> SUFFICES ASSUME tasks'[d] = <<>> PROVE Len(tasks[d]) = 1
        OBVIOUS
      <4>1. Len(Tail(tasks[d])) = 0
        BY <1>6, <3>1
      <4> QED
        BY <3>1, <4>1
    <3> QED
      BY <3>1, <3>2
  <2> QED
    BY <1>1, <1>2, <1>3, <2>1 DEF LastTaskFits
<1>9. \A e \in Docs : Untouched(e) /\ row'[e] = row[e]
  BY <1>1 DEF Untouched
<1>10. OneByOne'
  BY <1>1, <1>2, <1>5 DEF OneByOne, Working
<1>11. LastTaskFits'
  BY <1>1, <1>2, <1>6, <1>7 DEF LastTaskFits
<1>12. AllOnCourse'
  <2> SUFFICES ASSUME NEW k \in Jobs, Working(k)', tasks'[job'[k].doc] = <<>>
               PROVE  OnCourse(job[k])'
    BY DEF AllOnCourse
  <2>1. CASE k = j
    <3>1. b <=> row'[d].status = "Published"
      BY <1>1, <1>5, <1>8, <2>1
    <3>2. b => d \notin DOMAIN docNode'
      BY <1>1, <1>3 DEF InTurns, Cleared
    <3>3. OnCourse(job[j])'
      BY <1>5, <3>1, <3>2 DEF OnCourse
    <3> QED
      BY <2>1, <3>3
  <2>2. CASE k # j
    <3>1. PICK r \in RunType : r = job[k] /\ job'[k] = r
      BY <1>5, <2>2 DEF Typed, JobsTyped
    <3>2. Working(k) /\ Holds(r) /\ r.doc # d
      BY <1>1, <3>1 DEF Working, Typed, JobsTyped
    <3>3. OnCourse(r)
      BY <1>2, <1>6, <3>1, <3>2 DEF AllOnCourse, Holds
    <3>4. OnCourse(r)'
      BY <1>9, <3>2, <3>3, CourseStays DEF Holds
    <3> QED
      BY <3>1, <3>4
  <2> QED
    BY <2>1, <2>2
<1>13. AllSettled'
  <2> SUFFICES ASSUME NEW e \in Docs, tasks'[e] = <<>>,
                      \A k \in Jobs : Working(k)' => job'[k].doc # e
               PROVE  Settled(e)'
    BY DEF AllSettled
  <2>1. Working(j)' /\ e # d
    BY <1>5 DEF Working
  <2>2. \A k \in Jobs : Working(k) => job[k].doc # e
    BY <1>1, <1>5 DEF Working
  <2>3. Settled(e)
    BY <1>2, <1>6, <2>1, <2>2 DEF AllSettled
  <2> QED
    BY <1>9, <2>1, <2>3, SettledStays, ExpectedAre
<1> QED
  BY <1>10, <1>11, <1>12, <1>13

-----------------------------------------------------------------------------
(* The graph agrees with the store: builds and deletions take turns *)

\* A build goes on with an empty place for its document; a deletion leaves one.
LEMMA TurnMoves ==
    ASSUME Typed, NEW j \in Jobs, Build(j), Bare(job[j]), Builds(job[j])
    PROVE  /\ Working(j)' => job'[j].build = job[j].build /\ Bare(job[j])' /\ Builds(job[j])'
           /\ ~Working(j)' /\ ~job[j].build => job[j].doc \notin DOMAIN docNode'
<1>1. CASE ReadRow(j)
  <2>1. docNode' = docNode /\ job[j].pc = "row" /\ (Done(j) \/ Goto(j, "body"))
    BY <1>1 DEF ReadRow, graph
  <2> QED
    BY <2>1, DoneIs, GotoIs DEF Bare, Builds
<1>2. CASE ReadBody(j)
  <2> DEFINE cs == ChunksOf(job[j].doc, row[job[j].doc].text)
  <2>1. job[j].pc = "body"
        /\ (Done(j) \/ job' = [job EXCEPT ![j].pc = "document", ![j].chunks = cs])
    BY <1>2 DEF ReadBody
  <2> HIDE DEF cs
  <2>2. ASSUME job' = [job EXCEPT ![j].pc = "document", ![j].chunks = cs]
        PROVE  job'[j].pc = "document" /\ job'[j].build = job[j].build
    BY <2>2 DEF Typed, JobsTyped, RunType
  <2> QED
    BY <2>1, <2>2, DoneIs DEF Bare, Builds
<1>3. CASE DropDocument(j)
  <2>1. Goto(j, "orphans") /\ job[j].doc \notin DOMAIN docNode'
    BY <1>3 DEF DropDocument, Without
  <2> QED
    BY <2>1, GotoIs DEF Bare, Builds, Working
<1>4. CASE DropOrphans(j)
  <2>1. job[j].pc = "orphans" /\ docNode' = docNode /\ AfterOrphans(j)
    BY <1>4 DEF DropOrphans
  <2> QED
    BY <2>1, DoneIs, GotoIs DEF AfterOrphans, Bare, Builds
<1>5. CASE MergeDocument(j)
  <2>1. job[j].pc = "node" /\ Goto(j, "chunk")
    BY <1>5 DEF MergeDocument
  <2> QED
    BY <2>1, GotoIs DEF Bare, Builds
<1>6. CASE MergeChunk(j)
  <2>1. job[j].pc = "chunk" /\ (Done(j) \/ Goto(j, "extract"))
    BY <1>6 DEF MergeChunk
  <2> QED
    BY <2>1, DoneIs, GotoIs DEF Bare, Builds
<1>7. ASSUME job[j].pc \in {"extract", "facts"},
             NEW todo \in Seq(EntityQuery \cup RelationQuery),
             job' = [job EXCEPT ![j] = WithQueries(@, todo)]
      PROVE  job[j].build /\ job'[j].build = job[j].build /\ job'[j].pc \in {"chunk", "facts"}
  <2>1. Working(j) /\ job[j].chunks # <<>>
    BY <1>7 DEF Working, Typed, JobsTyped, Holds
  <2> QED
    BY <1>7, <2>1, WithQueriesIs DEF Builds
<1>8. CASE Extract(j)
  <2> DEFINE found == Queries(ToExtractionResult(Answer[Head(job[j].chunks).text]))
  <2>1. PICK todo \in {found, <<>>} : job' = [job EXCEPT ![j] = WithQueries(@, todo)]
    BY <1>8, ExtractIs
  <2>2. found \in Seq(EntityQuery \cup RelationQuery) /\ job[j].pc = "extract"
    BY <1>8, ExtractIs DEF Extract
  <2>3. todo \in Seq(EntityQuery \cup RelationQuery)
    <3> HIDE DEF found
    <3> QED
      BY <2>2, NothingToDo
  <2> QED
    BY <1>7, <2>1, <2>2, <2>3 DEF Bare, Builds
<1>9. CASE WriteFact(j)
  <2>1. /\ job[j].pc = "facts" /\ Tail(job[j].todo) \in Seq(EntityQuery \cup RelationQuery)
        /\ job' = [job EXCEPT ![j] = WithQueries(@, Tail(job[j].todo))]
    BY <1>9, WriteFactIs DEF WriteFact
  <2> QED
    BY <1>7, <2>1 DEF Bare, Builds
<1> QED
  BY <1>1, <1>2, <1>3, <1>4, <1>5, <1>6, <1>8, <1>9 DEF Build

\* The turns of a document are not disturbed by the handler of another.
LEMMA InTurnsBuild ==
    ASSUME Typed, InStep, InTurns, NEW j \in Jobs, Build(j) \/ HandlerFails(j)
    PROVE  InTurns'
<1> SUFFICES ASSUME spaced', faults' = {}
             PROVE  /\ Alternate'
                    /\ \A k \in Jobs : Working(k)' =>
                          TakesTurns(job[k])' /\ Bare(job[k])' /\ Builds(job[k])'
                    /\ \A e \in Docs : Cleared(e)'
  BY DEF InTurns
<1>1. /\ Working(j) /\ job[j].doc \in Docs /\ UNCHANGED <<tasks, spaced>> /\ faults = {}
      /\ \A k \in Jobs : k # j => job'[k] = job[k]
      /\ Working(j)' => job'[j].doc = job[j].doc
  BY BuildMoves DEF world
<1>2. PICK d \in Docs : d = job[j].doc
  BY <1>1
<1>3. /\ OneByOne /\ Alternate /\ \A e \in Docs : Cleared(e)
      /\ \A k \in Jobs : Working(k) => TakesTurns(job[k]) /\ Bare(job[k]) /\ Builds(job[k])
  BY <1>1 DEF InStep, InTurns
<1>4. Build(j)
  BY DEF HandlerFails, Fault
<1>5. /\ Working(j)' => job'[j].build = job[j].build /\ Bare(job[j])' /\ Builds(job[j])'
      /\ ~Working(j)' /\ ~job[j].build => d \notin DOMAIN docNode'
  BY <1>1, <1>2, <1>3, <1>4, TurnMoves
<1>6. \A e \in Docs : e # d => (e \in DOMAIN docNode' <=> e \in DOMAIN docNode)
  BY <1>2, Elsewhere DEF Untouched
<1>7. Alternate'
  BY <1>1, <1>3 DEF Alternate
<1>8. ASSUME NEW k \in Jobs, Working(k)'
      PROVE  TakesTurns(job[k])' /\ Bare(job[k])' /\ Builds(job[k])'
  <2>1. CASE k = j
    <3>1. TakesTurns(job[j])'
      BY <1>1, <1>3, <1>5, <1>8, <2>1 DEF TakesTurns
    <3> QED
      BY <1>5, <1>8, <2>1, <3>1
  <2>2. CASE k # j
    <3>1. job'[k] = job[k] /\ Working(k)
      BY <1>1, <1>8, <2>2 DEF Working
    <3>2. job[k].doc \in Docs /\ job[k].doc # d
      BY <1>1, <1>2, <1>3, <2>2, <3>1 DEF OneByOne, Typed, JobsTyped, Holds
    <3>3. TakesTurns(job[k]) /\ Bare(job[k]) /\ Builds(job[k])
      BY <1>3, <3>1
    <3> QED
      BY <1>1, <1>6, <3>1, <3>2, <3>3 DEF TakesTurns, Bare, Builds
  <2> QED
    BY <2>1, <2>2
<1>9. ASSUME NEW e \in Docs, tasks'[e] # <<>>, Head(tasks'[e]) = "INDEX",
             \A k \in Jobs : Working(k)' => job'[k].doc # e
      PROVE  e \notin DOMAIN docNode'
  <2>1. CASE e = d
    <3>1. ~Working(j)'
      BY <1>1, <1>2, <1>9, <2>1
    <3>2. ~job[j].build
      BY <1>1, <1>2, <1>3, <1>9, <2>1 DEF TakesTurns
    <3> QED
      BY <1>5, <2>1, <3>1, <3>2
  <2>2. CASE e # d
    <3>1. \A k \in Jobs : Working(k) => job[k].doc # e
      BY <1>1, <1>2, <1>9, <2>2 DEF Working
    <3>2. e \notin DOMAIN docNode
      BY <1>1, <1>3, <1>9, <3>1 DEF Cleared
    <3> QED
      BY <1>6, <2>2, <3>2
  <2> QED
    BY <2>1, <2>2
<1>10. \A e \in Docs : Cleared(e)'
  BY <1>9 DEF Cleared
<1> QED
  BY <1>7, <1>8, <1>10

\* A task that is announced differs from the one before it, which waits, is
\* being handled or has been.
LEMMA InTurnsAnnounce ==
    ASSUME Typed, InStep, InTurns, NEW d \in Docs, NEW type \in {"INDEX", "DELETE"},
           Announce(d, type), row[d].status = "Published" <=> type # "INDEX"
    PROVE  InTurns'
<1> SUFFICES ASSUME spaced', faults' = {}
             PROVE  /\ Alternate'
                    /\ \A k \in Jobs : Working(k)' =>
                          TakesTurns(job[k])' /\ Bare(job[k])' /\ Builds(job[k])'
                    /\ \A e \in Docs : Cleared(e)'
  BY DEF InTurns
<1>1. /\ UNCHANGED <<job, docNode, spaced, faults>>
      /\ tasks[d] \in Seq({"INDEX", "DELETE"}) /\ tasks'[d] = Append(tasks[d], type)
      /\ \A e \in Docs : e # d => tasks'[e] = tasks[e]
  BY DEF Announce, graph, Typed, RowsTyped
<1>2. /\ LastTaskFits /\ AllOnCourse /\ AllSettled /\ Alternate /\ \A e \in Docs : Cleared(e)
      /\ \A k \in Jobs : Working(k) => TakesTurns(job[k]) /\ Bare(job[k]) /\ Builds(job[k])
  BY <1>1 DEF InStep, InTurns
<1>3. PICK q \in Seq({"INDEX", "DELETE"}) : q = tasks[d]
  BY <1>1
<1>4. PICK n \in Nat : n = Len(q) /\ n = Len(tasks[d])
  BY <1>3
<1>5. /\ Len(tasks'[d]) = n + 1 /\ tasks'[d][n + 1] = type
      /\ \A i \in 1..n : tasks'[d][i] = q[i] /\ q[i] \in {"INDEX", "DELETE"}
      /\ tasks'[d] # <<>> /\ (n = 0 <=> q = <<>>)
      /\ Head(tasks'[d]) = IF n = 0 THEN type ELSE Head(q)
  <2>1. tasks'[d] = Append(q, type)
    BY <1>1, <1>3
  <2> QED
    BY <1>3, <1>4, <2>1, AppendProperties
<1>6. Alternate'
  <2>1. ASSUME NEW i \in 1..n
        PROVE  tasks'[d][i] # tasks'[d][i + 1]
    <3>1. CASE i = n
      <4>1. q # <<>> /\ (q[n] = "INDEX" <=> row[d].status = "Published")
        BY <1>2, <1>3, <1>4, <1>5, <3>1 DEF LastTaskFits
      <4> QED
        BY <1>5, <3>1, <4>1
    <3>2. CASE i # n
      <4>1. i \in 1..n - 1 /\ i + 1 \in 1..n
        BY <3>2
      <4>2. q[i] # q[i + 1]
        BY <1>2, <1>3, <1>4, <4>1 DEF Alternate
      <4> QED
        BY <1>5, <4>1, <4>2
    <3> QED
      BY <3>1, <3>2
  <2>2. \A e \in Docs : \A i \in 1..Len(tasks'[e]) - 1 : tasks'[e][i] # tasks'[e][i + 1]
    <3> TAKE e \in Docs
    <3>1. CASE e = d
      <4>1. 1..Len(tasks'[d]) - 1 = 1..n
        BY <1>5
      <4> QED
        BY <2>1, <3>1, <4>1
    <3>2. CASE e # d
      BY <1>1, <1>2, <3>2 DEF Alternate
    <3> QED
      BY <3>1, <3>2
  <2> QED
    BY <2>2 DEF Alternate
<1>7. ASSUME NEW k \in Jobs, Working(k)'
      PROVE  TakesTurns(job[k])' /\ Bare(job[k])' /\ Builds(job[k])'
  <2>1. Working(k) /\ job'[k] = job[k] /\ job[k].doc \in Docs
    BY <1>1, <1>7 DEF Working, Typed, JobsTyped, Holds
  <2>2. TakesTurns(job[k]) /\ Bare(job[k]) /\ Builds(job[k])
    BY <1>2, <2>1
  <2>3. CASE job[k].doc # d
    BY <1>1, <2>1, <2>2, <2>3 DEF TakesTurns, Bare, Builds
  <2>4. CASE job[k].doc = d /\ q # <<>>
    <3>1. Head(tasks'[d]) = Head(tasks[d]) /\ tasks[d] # <<>>
      BY <1>3, <1>5, <2>4
    <3> QED
      BY <1>1, <2>1, <2>2, <2>4, <3>1 DEF TakesTurns, Bare, Builds
  <2>5. CASE job[k].doc = d /\ q = <<>>
    <3>1. job[k].build <=> row[d].status = "Published"
      BY <1>2, <1>3, <2>1, <2>5 DEF AllOnCourse, OnCourse
    <3>2. Head(tasks'[d]) = type
      BY <1>5, <2>5
    <3> QED
      BY <1>1, <2>1, <2>2, <2>5, <3>1, <3>2 DEF TakesTurns, Bare, Builds
  <2> QED
    BY <2>3, <2>4, <2>5
<1>8. ASSUME NEW e \in Docs, tasks'[e] # <<>>, Head(tasks'[e]) = "INDEX",
             \A k \in Jobs : Working(k)' => job'[k].doc # e
      PROVE  e \notin DOMAIN docNode'
  <2>1. \A k \in Jobs : Working(k) => job[k].doc # e
    BY <1>1, <1>8 DEF Working
  <2>2. CASE e # d
    BY <1>1, <1>2, <1>8, <2>1, <2>2 DEF Cleared
  <2>3. CASE e = d /\ q # <<>>
    BY <1>1, <1>2, <1>3, <1>5, <1>8, <2>1, <2>3 DEF Cleared
  <2>4. CASE e = d /\ q = <<>>
    <3>1. Settled(d) /\ row[d].status # "Published"
      BY <1>2, <1>3, <1>5, <1>8, <2>1, <2>4 DEF AllSettled
    <3> QED
      BY <1>1, <2>4, <3>1 DEF Settled
  <2> QED
    BY <2>2, <2>3, <2>4
<1>9. \A e \in Docs : Cleared(e)'
  BY <1>8 DEF Cleared
<1> QED
  BY <1>6, <1>7, <1>9

\* The task taken differs from the next one; a build that starts finds nothing
\* of its document.
LEMMA InTurnsTake ==
    ASSUME Typed, InTurns, NEW j \in Jobs, NEW d \in Docs, Take(j, d)
    PROVE  InTurns'
<1> SUFFICES ASSUME spaced', faults' = {}
             PROVE  /\ Alternate'
                    /\ \A k \in Jobs : Working(k)' =>
                          TakesTurns(job[k])' /\ Bare(job[k])' /\ Builds(job[k])'
                    /\ \A e \in Docs : Cleared(e)'
  BY DEF InTurns
<1>1. /\ UNCHANGED <<docNode, spaced, faults>>
      /\ tasks[d] \in Seq({"INDEX", "DELETE"}) /\ tasks'[d] = Tail(tasks[d]) /\ tasks[d] # <<>>
      /\ \A e \in Docs : e # d => tasks'[e] = tasks[e]
      /\ ~Working(j) /\ \A k \in Jobs : Working(k) => job[k].doc # d
  BY DEF Take, graph, world, Typed, RowsTyped
<1>2. /\ Alternate /\ \A e \in Docs : Cleared(e)
      /\ \A k \in Jobs : Working(k) => TakesTurns(job[k]) /\ Bare(job[k]) /\ Builds(job[k])
  BY <1>1 DEF InTurns
<1>3. PICK b \in BOOLEAN : b = (Head(tasks[d]) = "INDEX")
  OBVIOUS
<1>4. /\ job'[j].doc = d /\ job'[j].build = b
      /\ job'[j].pc = IF b THEN "row" ELSE "document"
      /\ \A k \in Jobs : k # j => job'[k] = job[k]
  <2>1. job' = [job EXCEPT ![j] = TakenRun(d, b)]
    BY <1>3 DEF Take, TakenRun
  <2>2. job'[j] = TakenRun(d, b) /\ \A k \in Jobs : k # j => job'[k] = job[k]
    BY <2>1 DEF Typed, JobsTyped
  <2> QED
    BY <2>2, TakenRunIs
<1>5. PICK q \in Seq({"INDEX", "DELETE"}) : q = tasks[d] /\ q # <<>>
  BY <1>1
<1>6. PICK n \in Nat : n = Len(q) /\ n > 0
  BY <1>5
<1>7. /\ Len(Tail(q)) = n - 1 /\ \A i \in 1..n - 1 : Tail(q)[i] = q[i + 1]
      /\ Head(q) = q[1] /\ (Tail(q) # <<>> => n > 1 /\ Head(Tail(q)) = q[2])
      /\ \A i \in 1..n : q[i] \in {"INDEX", "DELETE"}
  BY <1>5, <1>6
<1>8. \A i \in 1..n - 1 : q[i] # q[i + 1]
  BY <1>2, <1>5, <1>6 DEF Alternate
<1>9. Alternate'
  <2>1. \A i \in 1..n - 2 : Tail(q)[i] # Tail(q)[i + 1]
    <3> TAKE i \in 1..n - 2
    <3>1. i \in 1..n - 1 /\ i + 1 \in 1..n - 1
      BY <1>6
    <3> QED
      BY <1>7, <1>8, <3>1
  <2>2. \A e \in Docs : \A i \in 1..Len(tasks'[e]) - 1 : tasks'[e][i] # tasks'[e][i + 1]
    <3> TAKE e \in Docs
    <3>1. CASE e = d
      <4>1. 1..Len(tasks'[d]) - 1 = 1..n - 2 /\ tasks'[d] = Tail(q)
        BY <1>1, <1>5, <1>6, <1>7
      <4> QED
        BY <2>1, <3>1, <4>1
    <3>2. CASE e # d
      BY <1>1, <1>2, <3>2 DEF Alternate
    <3> QED
      BY <3>1, <3>2
  <2> QED
    BY <2>2 DEF Alternate
<1>10. ASSUME NEW k \in Jobs, Working(k)'
       PROVE  TakesTurns(job[k])' /\ Bare(job[k])' /\ Builds(job[k])'
  <2>1. CASE k = j
    <3>1. tasks'[d] # <<>> => (Head(tasks'[d]) = "INDEX" <=> ~b)
      <4> SUFFICES ASSUME tasks'[d] # <<>>
                   PROVE  Head(tasks'[d]) = "INDEX" <=> ~b
        OBVIOUS
      <4>1. n > 1 /\ Head(tasks'[d]) = q[2] /\ Head(tasks[d]) = q[1]
        BY <1>1, <1>5, <1>7
      <4>2. q[1] # q[2] /\ {q[1], q[2]} \subseteq {"INDEX", "DELETE"}
        BY <1>7, <1>8, <4>1
      <4> QED
        BY <1>3, <4>1, <4>2
    <3>2. b => d \notin DOMAIN docNode'
      BY <1>1, <1>2, <1>3 DEF Cleared
    <3> QED
      BY <1>4, <2>1, <3>1, <3>2 DEF TakesTurns, Bare, Builds
  <2>2. CASE k # j
    <3>1. job'[k] = job[k] /\ Working(k)
      BY <1>4, <1>10, <2>2 DEF Working
    <3>2. job[k].doc \in Docs /\ job[k].doc # d
      BY <1>1, <3>1 DEF Typed, JobsTyped, Holds
    <3>3. TakesTurns(job[k]) /\ Bare(job[k]) /\ Builds(job[k])
      BY <1>2, <3>1
    <3> QED
      BY <1>1, <3>1, <3>2, <3>3 DEF TakesTurns, Bare, Builds
  <2> QED
    BY <2>1, <2>2
<1>11. ASSUME NEW e \in Docs, tasks'[e] # <<>>, Head(tasks'[e]) = "INDEX",
              \A k \in Jobs : Working(k)' => job'[k].doc # e
       PROVE  e \notin DOMAIN docNode'
  <2>1. e # d
    BY <1>4, <1>11 DEF Working
  <2>2. \A k \in Jobs : Working(k) => job[k].doc # e
    BY <1>1, <1>4, <1>11 DEF Working
  <2> QED
    BY <1>1, <1>2, <1>11, <2>1, <2>2 DEF Cleared
<1>12. \A e \in Docs : Cleared(e)'
  BY <1>11 DEF Cleared
<1> QED
  BY <1>9, <1>10, <1>12

-----------------------------------------------------------------------------
(* The graph agrees with the store *)

\* The part of the invariant that compares the graph with the store.
AgreeInv == MentionsAreFacts /\ InStep /\ InTurns

\* The graph is in step initially ...
LEMMA AgreeInit == Init => AgreeInv
<1> SUFFICES ASSUME Init PROVE AgreeInv
  OBVIOUS
<1>1. \A j \in Jobs : job[j].pc = "free"
  BY DEF Init, Free
<1>2. MentionsAreFacts
  BY <1>1 DEF Init, MentionsAreFacts
<1>3. OneByOne /\ AllOnCourse
  BY <1>1 DEF OneByOne, AllOnCourse, Working
<1>4. LastTaskFits
  BY DEF Init, LastTaskFits
<1>5. AllSettled
  BY DEF Init, AllSettled, Settled, ExpectedChunks
<1>6. InTurns
  <2>1. \A d \in Docs : tasks[d] = <<>> /\ Len(tasks[d]) = 0
    BY DEF Init
  <2>2. Alternate /\ \A d \in Docs : Cleared(d)
    BY <2>1 DEF Alternate, Cleared
  <2> QED
    BY <1>1, <2>2 DEF InTurns, Working
<1> QED
  BY <1>2, <1>3, <1>4, <1>5, <1>6 DEF AgreeInv, InStep

\* ... stays in step when nothing it is about changes ...
LEMMA AgreeSame ==
    ASSUME AgreeInv, UNCHANGED <<row, tasks, job, docNode, chunks, mentions, spaced, faults>>
    PROVE  AgreeInv'
<1>1. MentionsAreFacts'
  BY DEF AgreeInv, MentionsAreFacts
<1>2. OneByOne <=> OneByOne'
  BY DEF OneByOne, Working
<1>3. LastTaskFits <=> LastTaskFits'
  BY DEF LastTaskFits
<1>4. AllOnCourse => AllOnCourse'
  BY DEF AllOnCourse, OnCourse, Working, ExpectedChunks, Told
<1>5. AllSettled => AllSettled'
  BY DEF AllSettled, Settled, Working, ExpectedChunks, Told
<1>6. Alternate <=> Alternate'
  BY DEF Alternate
<1>7. (\A d \in Docs : Cleared(d)) <=> (\A d \in Docs : Cleared(d)')
  BY DEF Cleared, Working
<1>8. (\A j \in Jobs : Working(j) => TakesTurns(job[j]) /\ Bare(job[j]) /\ Builds(job[j]))
      <=> (\A j \in Jobs : Working(j)' => TakesTurns(job[j])' /\ Bare(job[j])' /\ Builds(job[j])')
  BY DEF TakesTurns, Bare, Builds, Working
<1>9. InTurns'
  BY <1>6, <1>7, <1>8 DEF AgreeInv, InTurns
<1> QED
  BY <1>1, <1>2, <1>3, <1>4, <1>5, <1>9 DEF AgreeInv, InStep

\* ... and every step keeps it so.
LEMMA AgreeStep == IInv /\ AgreeInv /\ [Next]_graphVars => AgreeInv'
<1> SUFFICES ASSUME IInv, AgreeInv, [Next]_graphVars PROVE AgreeInv'
  OBVIOUS
<1>0. Typed /\ NothingDangles /\ MentionsAreFacts /\ InStep /\ InTurns
  BY DEF IInv, AgreeInv
<1>1. ASSUME NEW d \in Docs, NEW t \in Texts, Publish(d, t)
      PROVE  AgreeInv'
  <2>1. InStep'
    <3>1. /\ row'[d].status = "Published" /\ Announce(d, "INDEX")
          /\ \A e \in Docs : e # d => row'[e] = row[e]
      BY <1>0, <1>1 DEF Publish, Typed, RowsTyped
    <3> QED
      BY <1>0, <3>1, InStepAnnounce
  <2>2. InTurns'
    BY <1>0, <1>1, InTurnsAnnounce DEF Publish
  <2>3. MentionsAreFacts'
    BY <1>0, <1>1 DEF Publish, Announce, graph, MentionsAreFacts
  <2> QED
    BY <2>1, <2>2, <2>3 DEF AgreeInv
<1>2. ASSUME NEW d \in Docs, NEW status \in {"Draft", "Deleted"}, Withdraw(d, status)
      PROVE  AgreeInv'
  <2>1. InStep'
    <3>1. /\ row'[d].status = status /\ Announce(d, "DELETE")
          /\ \A e \in Docs : e # d => row'[e] = row[e]
      BY <1>0, <1>2 DEF Withdraw, Typed, RowsTyped
    <3> QED
      BY <1>0, <3>1, InStepAnnounce
  <2>2. InTurns'
    BY <1>0, <1>2, InTurnsAnnounce DEF Withdraw
  <2>3. MentionsAreFacts'
    BY <1>0, <1>2 DEF Withdraw, Announce, graph, MentionsAreFacts
  <2> QED
    BY <2>1, <2>2, <2>3 DEF AgreeInv
<1>3. ASSUME NEW j \in Jobs, NEW d \in Docs, Take(j, d)
      PROVE  AgreeInv'
  <2>1. InStep' /\ InTurns'
    BY <1>0, <1>3, InStepTake, InTurnsTake
  <2>2. job'[j].pc # "facts" /\ \A k \in Jobs : k # j => job'[k] = job[k]
    <3>1. PICK b \in BOOLEAN : b = (Head(tasks[d]) = "INDEX")
      OBVIOUS
    <3>2. job' = [job EXCEPT ![j] = TakenRun(d, b)]
      BY <1>3, <3>1 DEF Take, TakenRun
    <3> QED
      BY <1>0, <3>2, TakenRunIs DEF Typed, JobsTyped
  <2>3. MentionsAreFacts'
    BY <1>0, <1>3, <2>2, FactsStay DEF Take, graph
  <2> QED
    BY <2>1, <2>3 DEF AgreeInv
<1>4. ASSUME NEW j \in Jobs, Build(j) \/ HandlerFails(j)
      PROVE  AgreeInv'
  BY <1>0, <1>4, FactsNext, InStepBuild, InTurnsBuild DEF AgreeInv
<1>5. CASE Read
  BY <1>5, ReadersRead, AgreeSame DEF Reading, world, graph
<1>6. CASE UNCHANGED graphVars
  BY <1>6, AgreeSame DEF graphVars, world, graph
<1> QED
  BY <1>1, <1>2, <1>3, <1>4, <1>5, <1>6 DEF Next

\* With the tasks of a document handled one by one and no failure, the graph
\* ends up holding of every document what its published text says and nothing
\* of the others, although entities and relations are shared.
THEOREM GraphAgreesInTheEnd == Spec => []GraphAgrees
<1>1. Init => IInv /\ AgreeInv
  BY InitHolds, AgreeInit
<1>2. (IInv /\ AgreeInv) /\ [Next]_graphVars => (IInv /\ AgreeInv)'
  BY StepKeeps, AgreeStep
<1>3. IInv /\ AgreeInv => GraphAgrees
  <2> SUFFICES ASSUME IInv, AgreeInv, spaced, Quiet, faults = {}, NEW d \in Docs
               PROVE  Agrees(d)
    BY DEF GraphAgrees
  <2>1. Settled(d)
    BY DEF AgreeInv, InStep, AllSettled, Quiet
  <2>2. \A m \in mentions : m[2] \in FactNames(m[1])
    BY DEF AgreeInv, MentionsAreFacts
  <2>3. \A c \in ExpectedChunks(d) : c.doc = d
    BY ExpectedAre DEF IInv
  <2>4. {c \in chunks : c.doc = d} = ExpectedChunks(d)
    BY <2>1, <2>3 DEF Settled, Told
  <2>5. ASSUME NEW c \in ExpectedChunks(d)
        PROVE  {m[2] : m \in {x \in mentions : x[1] = c}} = FactNames(c)
    <3>1. \A n \in FactNames(c) : <<c, n>> \in mentions
      BY <2>1 DEF Settled, Told
    <3>2. ASSUME NEW n \in FactNames(c)
          PROVE  n \in {m[2] : m \in {x \in mentions : x[1] = c}}
      <4>1. <<c, n>> \in {x \in mentions : x[1] = c} /\ <<c, n>>[2] = n
        BY <3>1
      <4> QED
        BY <4>1
    <3> QED
      BY <2>2, <3>2
  <2> QED
    BY <2>1, <2>4, <2>5 DEF Agrees, Settled
<1> QED
  BY <1>1, <1>2, <1>3, PTL DEF Spec
=============================================================================
