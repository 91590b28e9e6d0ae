# Verification of knowledge-hub-backend

TLA+ specifications of the NestJS service in `../src`, the TLC configurations
that check them on small instances, and TLAPS proofs of safety properties for
instances of every size. `PROJECT.json` maps each definition to the source
lines it stands for and lists runs, findings, hazards and theorems.

Paths below are relative to `../src/src` unless they start with `docs/`.

## 1. The system

The backend keeps documents, has them reviewed, and offers the published ones
to retrieval (full text, vectors, a knowledge graph) and to a chat agent whose
answers can be spoken while they are written.

| Component | State | Operations | Interacts with |
|---|---|---|---|
| document service (`document/document.service.ts`) | rows (Postgres), bodies (Mongo), files (RustFS) | upload, update, archive, save as draft, remove | three stores without a common transaction; publishes index tasks |
| document review (`document/document-review.service.ts`) | review rows | submit, approve, reject | the same rows; publishes index tasks |
| parsers (`document/parser/`) | none | file to Markdown | upload; image store, vision model |
| pipeline messaging (`mq/`) | durable queues `search.index`, `rag.vector`, `kg.graph` | publish, consume, ack, nack | called by the document services, calls the handlers below |
| full text index (`pipeline/search-index.service.ts`) | one Elasticsearch entry per document | index, delete, query | reads row and body |
| vector index (`pipeline/rag.service.ts`, `chunking`, `embedding`, `vector-index.service.ts`) | the chunks of each document | reindex, delete, keyword and kNN search | reads row and body; embedding service |
| knowledge graph (`graph/`) | Neo4j documents, chunks, entities, mentions, relations | build, delete, sub-graph, chat and overview readers | reads row and body; LLM extraction |
| ranking (`ai/hybrid-retrieval.service.ts`, `reranker.service.ts`) | none | fusion, rerank | the vector index |
| chat stream and agent (`ai/ai-stream.service.ts`, `ai-chat.service.ts`, `agentic-retrieve.ts`, `chat-query-rewrite.service.ts`) | one turn per question, tool budgets, numbered sources | stream, respond, stop, store at the end | ranking, graph, sessions, speech events |
| chat sessions and memory (`ai/chat-*.ts`) | session and message rows, Redis window, Mem0 | touch, append, load, rename, remove | the turns |
| speech relay (`speech/tts-*.ts`) | browser sockets, sessions, turns, one vendor socket per session | connect, start / chunk / end / error events, vendor callbacks | the stream (events), browser, speech vendor |
| authentication and users (`auth/`, `user/user.service.ts`) | user rows, activation links (Redis), reset codes (memory), JWTs | register, activate, log in, refresh, reset, administer | Postgres, Redis, mail |
| roles (`user/rbac*.ts`) | roles, permissions and their join tables | seed, replace permissions, guard | Postgres |
| teams (`team/team.service.ts`) | team rows | create, update, delete, tree | Postgres |
| speech one-shot and recognition, storage, canvas, tools, tracing, database set-up | none of their own | conversions and external calls | external services |

What makes each hard, and what would make it correct:

* **documents and reviews.** Every `await` lets another request in; nothing
  locks a document and no transaction spans two writes. Rows are saved from
  entities read earlier. Correct means: a row never points at a missing body,
  nothing is published around a reviewer, what is published is what was
  approved, a pending document can always be decided, a removal reaches both
  stores, and every way out of Published is announced to the indexes.
* **pipeline.** `consume` sets no prefetch, so the handlers of one queue
  overlap; publishes are lost silently; a lost channel redelivers work that
  goes on; handlers read stores that change under them. Correct means: nothing
  unreviewed is ever indexed, and the indexes agree with the stores once the
  pipeline is drained.
* **graph.** Entities and relations belong to no document, the clean-up of
  orphans is a query of its own, and seconds of LLM time lie between the
  queries of a build. Correct means: nothing dangles, no orphan stays, a build
  is not undone by another document's, an answer's edges join its nodes.
* **sessions.** A stop runs the end of a stream at once, while `execute` is
  between two awaits; the window is written from what was loaded at the start.
  Correct means: the model is shown the end of the conversation and never what
  was not stored; a turn stopped once it has a session is kept, and not remembered
  for good.
* **agent.** The model calls tools in parallel and in any order, whatever the
  prompt says. Correct means: budgets hold, a number cited names one chunk, an
  answer about the knowledge base has evidence, a second search asks anew.
* **speech.** Events of an interrupted answer, the callbacks of its vendor
  socket and the close events of replaced browsers arrive late. Correct means:
  a vendor socket hears one answer, in order and whole; no vendor socket is
  left open; a finished turn gives its socket back.
* **accounts, roles, teams.** Read-then-write without locks or constraints,
  links and codes that expire, restarts. Correct means: nobody who has to open
  a link gets in without it; requests apart take effect; any rows give a tree.
* **parsing, chunking, ranking.** Parts come back out of order or not at all.
  Correct means: text, images, vectors and hits stay with their place.

## 2. The modules

    DocumentLifecycle        what the document service promises, atomically
        ^ implemented by
    DocumentWorkflow         requests over the three stores and the queues
        ^ extended by
    KnowledgeHub  --INSTANCE-->  IndexPipeline   delivery and the handlers
    KnowledgeGraph           the third queue: builds, deletions, readers
    ChatRouting  <--EXTENDS--  AgentTurn         one answered question
    Chat                     sessions, window and memory over many questions
    TtsRelay                 speech of streamed answers
    Accounts, Roles, Teams, DocumentParsing, ChunkIndexing, Retrieval
        side by side in Services
    Selecting                a loop that skips elements, used by the graph, the
                             parsers and the ranking

`MC*.tla` give TLC its instances and symmetry sets; `*_proofs.tla` hold the
theorems. Definitions whose names end in `_Something` before the one they vary
are plausible bugs in that definition; no run uses them. They document which
mistake each property detects.

### DocumentWorkflow

A request is a slot of `Reqs` with a `pc`; each `await` of the source is a
boundary between two steps, so one step is one database call and the
synchronous code around it. `req[r].before` is the status the handler read,
`req[r].status` the one it will save.

| TLA+ | code |
|---|---|
| `objects` | originals in RustFS (`document.service.ts:61`) |
| `row`, `content`, `review` | `kh_document`, `document_content`, `kh_document_review` |
| `queue` | all tasks ever published to a durable queue, in order |
| `submitted` | history: the body at the moment a review was opened |
| `UploadFile`, `CreateContent`, `CreateRow` | `uploadAndCreateDocument` |
| `ReadForUpdate`, `WriteContent`, `SaveEdit`, `Unpublish` | `updateDocument` |
| `ReadForArchive` / `ReadForDraft`, `Retire`, `Unpublish` | `archive`, `saveAsDraft` |
| `ReadForRemove`, `AnnounceRemoval`, `MarkDeleted`, `DeleteContent` | `remove` |
| `ReadForSubmit`, `CheckPending`, `OpenReview`, `SavePending`, `Unpublish` | `submitForReview` |
| `ReadReview`, `SaveResult`, `FindDoc`, `SaveDecision`, `AfterApproval` | `approveReview`, `rejectReview` |
| `Publish` | `DocumentPipelinePublisher`: one task per queue, each may be lost |
| `Abort` | a database call throws, or the process dies, in mid-request |

A request whose first guard fails answers 4xx and changes nothing; it is an
action that is not enabled. `SaveRow` writes the whole row from the entity,
which is what `repository.save` of an entity loaded earlier comes to.

### IndexPipeline and KnowledgeHub

A handler run is a slot of `Jobs`. `Deliver` hands over the oldest ready task;
`LoseChannel` puts every unacknowledged task back while its handler goes on;
`Crash` ends the handlers; `HandlerFails` ends one, and its task is gone, since
`rabbitmq.service.ts` nacks without requeue and most handlers swallow errors.
The search handler reads the row (status checked), then the body, then writes;
the vector handler reads the row (status not checked), then the body, then
clears, then writes. `search[d]` is the indexed text, `vector[d]` the set of
texts whose chunks are there: chunk ids hash the text, so chunks of another
text are not replaced. `KnowledgeHub` joins the workflow and the pipeline over
the same stores; `ProcessCrash` ends both sides at once.

### TtsRelay

Emitters are synchronous and the handlers contain no `await`, so each handler
is one step: `Connect`, `Leave`, `ClientClosed` (`tts-websocket.service.ts`),
`Ask`, `StartSilent`, `Start`, `SendChunk`, `End`, `Abort`, `Written` (the stream and
`tts-stream.publisher.ts`), `Opened`, `Ready`, `Final`, `VendorError`,
`HangUp`, `VendorClosed` (the listeners of `openTencentConnection`). A vendor
socket is named by the answer whose start opened it; `vendor[s].said` is the
history of what it was sent. `LetGo` and `Hung` are the two halves of
`closeTencentWs`.

### DocumentLifecycle

The abstract specification: the status moves as indivisible steps, `served`
(the last task announced asks to index) becomes true only while the document
is published, and becomes false some time after it is not.

### KnowledgeGraph

A build or deletion is a slot of `Jobs`, one step per Neo4j query
(`session.run` without a transaction). `row` and `tasks` stand for the document
service and the queue; the steps of those are in `DocumentWorkflow` and
`IndexPipeline`. A text is a sequence of chunks, none for a blank body, which
`buildByDocId` leaves before it clears the old graph; a chunk has a given LLM
answer, and names and types are small sets with the ill-formed ones included.

| TLA+ | code (`graph/graph-build.service.ts`) |
|---|---|
| `docNode`, `chunks`, `entity`, `mentions`, `related` | the five kinds of nodes and edges |
| `ReadRow`, `ReadBody` | `buildByDocId` |
| `DropDocument`, `DropOrphans` | `deleteForDocument`, two queries |
| `MergeDocument`, `MergeChunk`, `MergeEntity`, `MergeRelation` | the merges of a build; a `MATCH` that finds nothing does nothing |
| `Extract`, `ToExtractionResult` | `extraction.service.ts`: cut, drop the unnamed, normalise types |
| `Subgraph*`, `Chat*`, `Overview*` | the three readers, one step per query |
| `AccessWhere` | `neo4jDocumentAccessWhere` |

### Chat

A turn has two places, `pc` and `loading`: a stop ends the stream at once
(`onFinish`) while the loading of the history goes on, and its result still
counts when it comes before the window is saved. `kind` says how the turn was
asked: a response (`AiChatService.chat`), a stream, or a stream that is spoken
and so needs its session first. `sess`, `db`, `window`, `remembered` are the two
tables, the Redis key and Mem0. `Touch` / `TouchSave`, `Persist` /
`PersistSession` / `PersistMessages` are `touchTitle` and `appendTurn` await by
await; saving an entity whose row is gone inserts it. A first question that is stopped
while its session is being created is over at once and stores nothing, since
`onFinish` returns without a session id (`ai-stream.service.ts:602`). `cascade` is whether the
foreign key of `init.sql` exists, which the baseline migration does not create.

### ChatRouting and AgentTurn

`ChatRouting` has the decisions without state: the plan of a question, the
verdict on a search, the query of the second one. What the language models
answer is any member of the set the code accepts. `AgentTurn` is one question:
in a stream the model writes (`Say`) or calls several tools at once
(`CallTools`); a tool runs to its first await in one step (`Start*`, where the
budget is read and charged) and to its end in another (`End*`). `Stop` may come
at any time; tools that run go on. In a response the code searches, judges,
rewrites and searches again (`FirstSearch`, `Rewrite`, `SecondSearch`, `Decide`,
`Answer`) with `ReadGraph` at its side. `sources` is `persistSources`, `told`
the numbered chunks the model was shown, `stored` what the turn stores.

### Accounts, Roles, Teams

A request is a slot with one step per database or mail call; `Save` writes the
whole row it loaded. `Accounts` keeps rows, links, the reset code of one
address, tokens, and what has arrived by mail: a link or code is used only by
someone who received it. `alone` and `apart` are chosen at the start and say
whether requests are kept apart. `Roles` has the seeding of a starting process,
the delete-then-insert of `setRolePermissions`, `LoadPermissions`, which gives a
request the permissions of its user, and `CanActivate`, the guard. The guard
does not compare codes: the decorator stores the codes themselves, the guard
takes them for `PermissionEntity` and looks up `p.permissionCode`
(`CodeRead`, which is undefined for a string), so `OnlyAdminsPass` is what it
comes to.
`Teams` allows every parent the code allows, cycles included; `Placed` is the
recursion of `getTree`.

### DocumentParsing, ChunkIndexing, Retrieval

`DocumentParsing` turns a file, given as the structure its library reports
(pages with images that are good, too small or fail to upload; slides with
shapes; rows of cells), into Markdown blocks that remember their origin.
`ChunkIndexing` cuts a text of some length, embeds batches whose answers come in
any order, and pairs them. `Retrieval` fuses any two channel lists with exact
fractions and lets the reranker answer anything it may answer.

`Services` puts the six side by side: they share no state, and a behaviour is
one of a single service (`part`), so that one run and one set of theorems cover
them. `Selecting!Only` is the elements of a sequence that are in a set, in
their order; a recursive function, so that it can be reasoned about.

## 3. The runs

| Run | Instance | Distinct states | Shows |
|---|---|---|---|
| `workflow_concurrent` | 1 document, 2 reviews, 1 body, 2 requests at once, 2 faults | 1,856,445 | types; `RowHasContent`, `PublishedWasReviewed`, `IndexTaskWasReviewed` whatever overlaps or fails |
| `workflow_isolated` | 2 documents, 2 reviews, 2 bodies, 2 requests on different documents | 319,865 | `PublishedContentWasApproved`, `PendingIffOneOpenReview`, `RemovedFromBothStores`, and `ImplementsLifecycle` with its liveness |
| `hub_spaced` | 1 document, both queues, 2 handlers of different queues | 303,535 | `SettledAgrees`, `EventuallyAgrees` |
| `hub_faults` | 1 document, vector queue, 2 overlapping handlers, 2 faults | 1,145,258 | types; `IndexedWasReviewed` end to end |
| `relay` | 2 sessions, 2 browsers, 2 answers of 2 chunks, prompt vendor | 878,599 | types; `EveryTurnInOrder`, `NoStrayConnection`, `CompleteIsWhole`, `EndedTurnReleased` |
| `graph_builds` | 2 documents sharing 2 entities, texts of 0, 1 and 2 chunks, 2 handlers, 3 tasks, 1 kind of failure | 2,845,977 | types; `NothingDangles`, `OrphansCleared`, `GraphAgrees`, `AnswersAreClosed` |
| `chat_turns` | 2 sessions, 3 turns (2 when they overlap), 1 rename or removal, window of 3, 1 Redis failure | 1,219,143 | types; `WindowIsTail`, `WindowWasStored`, `RememberedWasStored`, `StoppedTurnIsKept` |
| `agent_turn` | 2 calls per message, 3 messages, 4 calls in all, results of 0 to 2 chunks | 3,351,567 | types; `BudgetsKept`, `CitationsResolve`, `CitedIsStored`, `ResponseHasEvidence`, `RetryAsksAnew` |
| `services` | one service at a time: 2 users and 2 requests; 2 roles and 2 requests; 3 teams; 2 pages, slides 1, 2 and 10, 2 rows; texts up to 7; 4 chunks | 1,668,224 | types; `ActivationByLink`, `RequestsTakeEffect`, `TreeIsFinite`, `ParsedInOrder`, `IndexedWhole`, `SearchKeepsOrder` |

Three further runs end in a violation: `hub_left_behind`,
`relay_interrupt_ends_process`, `chat_early_stop` (section 5).

**Bounds.** Two requests, handlers or calls at a time suffice for every
read-then-write race, which pairs a stale reader with one writer. `Reviews`
bounds submissions; two cover a decision made before and a second round after
it. Two bodies distinguish "the approved one" from "another"; with one body
(`workflow_concurrent`) only properties that do not compare bodies are checked.
`MaxFaults` counts failed requests, lost publishes, lost channels, failed
handlers and crashes (in `KnowledgeGraph`: kinds of failure). Two documents in
`workflow_isolated` show that slots and queues do not mix documents. In
`hub_faults` the search queue is left out: its handler writes a single entry
and is covered by `hub_spaced`, and theorem `IndexingWasReviewed` covers both.
Two chunks in `relay` fall before and after the ready message, two answers are
an interruption in each direction, two browsers a reconnection. Three tasks in
`graph_builds` are a build, a rebuild or withdrawal, and a build of the other
document; a blank text takes the place of any of them. A window of three messages is cut in the middle of a turn by the
second turn, and the third is answered from the cut one. In `agent_turn` three
messages of two calls ask for more than every budget; `MaxToolCalls` = 4 makes
that limit bind too. Ranks in lists of four chunks are needed for a sum of
reciprocal ranks to differ from its last term in order; slide 10 sorts before
slide 2 as a string.

Runs state `CHECK_DEADLOCK FALSE` because clients need not send anything, ids
are used up, a search or a file is dealt with once, and an ended process
(`serving = FALSE`) takes no step.

**Assumptions about the environment.** `Overlap = FALSE`: the clients do not
work on one document at the same time. `Spaced = TRUE`, `spaced`: a queue does
not hand over a task of a document while another task of the same document is
being handled. `Prompt = TRUE`: the vendor is ready before an answer ends.
`calm`: turns and requests on one session are kept apart, Redis does not fail,
and, unless `EarlyStops`, a stream is stopped only once it is being answered.
`alone`, `apart`: requests to users or roles neither overlap nor are cut short.
The code enforces none of them; they delimit when `workflow_isolated`,
`hub_spaced`, `GraphAgrees`, `CompleteIsWhole`, `EndedTurnReleased`,
`WindowIsTail` and the first two parts of `RequestsTakeEffect` hold (the third,
`OnlyAdminsPass`, holds without), and section 5 says what happens
without. The last four are variables chosen at the start, so that one run
covers both cases.

**Fairness.** Weak fairness on the steps of a request in flight (its database
calls return), on each handler, on delivery per queue (the broker delivers what
is ready) and on the vendor's handshake, ready, final and close messages. None
on clients, browsers or answers: nobody has to send anything. `EventuallyAgrees`
says that agreement recurs; the review ids bound how often a document is
published, so in the instance it is due once the last task has been handled,
without asking clients to stop editing. The other modules state no fairness:
their properties are safety properties.

## 4. What is proved

Every invariant and action property that a passing run checks is also a
theorem for arbitrary constants. The named assumptions are `WorkflowAssumption`,
`HubAssumption`, `RelayAssumption`, `AgentAssumption`, `GraphAssumption`,
`ChatAssumption`, `AccountsAssumption`, `RolesAssumption`, `TeamsAssumption`,
`ParsingAssumption`, `ChunkingAssumption`, `RetrievalAssumption` (the "none"
values lie outside their sets, bounds are naturals, flags are Booleans, queues
are the two modelled ones, teams, slides, chunks and the calls of a message are
finitely many, a chunk size is not zero) and `RoutingAssumption` (how trimming
and squeezing white space relate, and that no question is blank). TLC evaluates
them in the runs. Where a theorem needs more, its ASSUME says so, and it is what
the run that checks the property sets.

| Theorem | States | Argument |
|---|---|---|
| `TypeCorrect` | `Spec => []TypeOK` | one lemma per group of steps |
| `RowsHaveContent` | `[]RowHasContent` | `StoredInv`: a request past an upload step remembers that its document is stored, and so do reviews; stored is stable (`StoredForever`) |
| `PublishingNeedsDecision` | `[]PublishedWasReviewed` | `ReviewedInv`: besides the live rows, deleted rows and requests holding a stale `Published` entity must have a decided document, since saving it would make it live again |
| `IndexingNeedsDecision` | `[]IndexTaskWasReviewed` | the same invariant: a request about to publish has passed the save of a decision |
| `HubTypeCorrect` | `HubSpec => []HubTypeOK` | `JobsOK`: a running handler holds a delivered position; queues only grow |
| `IndexingWasReviewed` | `[]IndexedWasReviewed` | `HubReviewed`: handlers follow the tasks they hold, which `ReviewedInv` covers; decisions are never undone (`DecidedForever`) |
| `RelayTypeCorrect` | `Spec => []TypeOK` | with `IdsOK`: whoever acts has a session id |
| `TurnsInOrder` | `[]EveryTurnInOrder` | `Safe`, below |
| `NoneStray` | `[]NoStrayConnection` | `Safe`, below |
| `AgentTypeCorrect` | `Spec => []TypeOK` | `Typed`; a query is never blank since `OrElse` falls back to the question (`OrElseAsked`) |
| `BudgetsHold` | `[]BudgetsKept` | a tool reads and charges its budget in one step; a response by `Spent` |
| `CitationsHold` | `[]CitationsResolve` | `Shown`, below |
| `CitedAreStored` | `CitedIsStored` | `Shown` and `StoreIsShown` |
| `EvidenceHolds` | `[]ResponseHasEvidence` | `Evidence`: a relevant verdict found something (`HitsAre`) |
| `RetriesAskAnew` | `[]RetryAsksAnew` | `Spent` and `Offered`: what the rewriting offers is squeezed and differs from the query before (`RewriteIsNew`) |
| `PublishedIsApproved`, `PendingMeansOneReview`, `RemovalsReachBothStores` | `~Overlap`, `MaxFaults = 0`: `[]PublishedContentWasApproved`, `[]PendingIffOneOpenReview`, `[]RemovedFromBothStores` | `IsolatedInv`, below |
| `WorkflowImplementsLifecycle` | the same: the safety half of `ImplementsLifecycle` | step simulation, below |
| `SettledIndexesAgree` | `~Overlap`, `Spaced`, `MaxFaults = 0`: `[]SettledAgrees` | `SettledInv`, below |
| `CompletedTurnsAreWhole` | `Prompt`: `[]CompleteIsWhole` | `Whole` on top of `Safe` |
| `KnowledgeGraph_proofs!AlwaysTyped`, `NeverDangles`, `NoOrphansInTheEnd`, `AnswersClose` | `[]TypeOK`, `[]NothingDangles`, `[]OrphansCleared`, `[]AnswersAreClosed` | `IInv`, below |
| `GraphAgreesInTheEnd` | `[]GraphAgrees` | `AgreeInv`, below |
| `Chat_proofs!AlwaysTyped`, `WindowsWereStored`, `MemoriesWereStored`, `StoppedTurnsAreKept` | `[]TypeOK`, `[]WindowWasStored`, `[]RememberedWasStored`, `[]StoppedTurnIsKept` | `Typed` and `Kept`, below |
| `WindowsAreTails` | `~EarlyStops`: `[]WindowIsTail` | `Tidy`, below |
| `ServicesTypeCorrect` | `[]ServicesTypeOK` | each service by itself |
| `ActivationNeedsLink` | `[]ActivationByLink` | `ByLink`: also the rows requests hold, and the links they are about to consume |
| `TurnsTakeEffect` | `[]RequestsTakeEffect` | `InTurn` of accounts, `RolesKeep` of roles, `GuardRefuses` of the guard |
| `TreeAlwaysFinite` | `[]TreeIsFinite` | true of every table, below |
| `AlwaysIndexedWhole` | `[]IndexedWhole` | `ChunkInv`: the text is covered up to the next start |
| `SearchAlwaysOrdered` | `[]SearchKeepsOrder` | `SearchInv`, below |
| `ParsedAlwaysInOrder` | `[]ParsedInOrder` | `FlattenJoins`, below |

`Safe` (`TtsRelay_proofs`) is `Books`, `NoStrayConnection`, `EveryTurnInOrder`
and `NothingHeldBack`. `EveryTurnInOrder` alone is not inductive: an event is
accepted by comparing turn numbers, so one needs that a turn number of a
session belongs to one answer (`TurnsDiffer`, from the publisher's counter) and
that the vendor socket of a session is that of its active turn
(`ConnectedOK`); and a chunk is spoken at once only if nothing is kept back
(`NothingHeldBack`), or it would overtake. `StreamsOK` says an answer that was
not announced has no socket and no chunks. Steps fall into those that speak and
announce nothing (`QuietKeeps`, with `StayKeeps` and `DropKeeps` for those that
leave or drop the socket) and `StartKeeps`, `ChunkKeeps`, `EndKeeps`,
`ReadyKeeps`. A corollary the proof makes visible: the flush in `End` never has
anything to send once the vendor is ready.

The relay run assumes `Prompt`; `TurnsInOrder` and `NoneStray` hold without it.
`CompleteIsWhole` does need it: `Whole` says an answer declared complete is
over and was spoken as far as it was produced, and only a vendor that was ready
when the answer ended has nothing left to flush.

`IInv` (`AgentTurn_proofs`) is `Typed`, `Phases`, `Spent`, `Offered`,
`RetryAsksAnew`, `Shown` and `Evidence`. `CitationsResolve` is not inductive,
since a search that ends must not reuse a number that was shown: `Shown` says
that what the model was shown is exactly the sources under their positions (in
a stream always, in a response from the moment its model is asked), and
`NumberedAppend` that appended hits take the numbers that follow. The budgets
of a response and its second query need to know what was spent by the time a
phase is reached (`Spent`), which in turn needs that the phases of a stream and
a response are apart and that only a stream calls tools (`Phases`). The steps of
a stream use `InStream`: what concerns responses holds there for want of their
phases.

`IsolatedInv` (`DocumentWorkflow_proofs`) describes requests that wait for each
other. The three properties speak of documents nobody works on (`Settled`), so
what has to be added is an assertion for every await of every handler:
`Underway` says what a request in flight may take for granted there, for
example that between the two saves of a submission exactly one review is open,
for the body that is stored. `OneAtATime` keeps requests on different documents,
and `Elsewhere` makes each step the business of one document. The hypotheses
are needed: section 5 lists what overlapping and interrupted requests do.

The refinement proof uses the same invariant. `CreateRow` is the abstract
`Create`, `SaveEdit` is `Edit`, `Retire` is `Archive` or `Edit`, `SavePending`
`Submit`, `SaveDecision` `Approve` or `Reject`, `MarkDeleted` `Delete`; what is
published afterwards is `Serve` or `Withdraw`, or changes nothing when the same
was announced before; all other steps stutter. `IsolatedInv` gives the status a
save starts from, which the handler only remembers. That what is no longer
published is withdrawn in the end is liveness and left to TLC.

`SettledInv` (`KnowledgeHub_proofs`) adds the pipeline. For each document, either
a request still owes the queues an announcement (`Owed`), or every queue
follows (`Follows`): its last waiting task asks for what the row now calls for,
or none waits and the handler at work will write what is stored (`OnTheWay`),
or none works and the index says so already (`Tells`). An edit of a published
body is what makes `Owed` begin before the row is saved.

`IInv` (`KnowledgeGraph_proofs`) is `Typed`, `NothingDangles`, `OrphansAwaited`
and `AskInv`. `NothingDangles` is inductive because every merge matches what it
hangs on in the same query; `OrphansAwaited` says that while nobody mentions
an entity some job is before its clean-up, not necessarily the job that took
the mention away; `AskInv` closes an answer after each query of a reader.
`AgreeInv` has the mentions the LLM did not give (none) and, with tasks apart
and no failure, how far the last handler of each document has come (`OnCourse`):
every expected chunk is in the graph with its entities or still ahead of it.
A build that finds a blank body ends there, before any clearing, so it must
have found nothing of its document in the graph: `InTurns` says that the tasks
of a document are publications and withdrawals in turn, and so a build comes
first or after the deletion of what was there before.
The work of other handlers on shared entities only removes orphans, and an
entity about to be mentioned is written in the same query as its mention.

`Kept` (`Chat_proofs`) says where the messages a turn holds are stored, at each
place of its course (`Fits`), for `WindowWasStored` alone does not say that what
will be written to the window is stored. `Tidy` is for sessions whose requests
are kept apart: a turn's history is the end of its conversation until its own
messages are inserted, and of what came before them afterwards
(`HistoryIsTail`), and `LastOfLast` that the end of an end with more behind it
is the end of the whole. `~EarlyStops` is the run `chat_early_stop`.

The services (`Services_proofs`) are proved one by one; a step of `Services` is
a step of one and stutters for the others.

* Accounts: `NamesApart` needs what a request looked up to hold when it writes
  (`LookedUp`), and a reset code to be forgotten before it could be verified
  again (`CodesOnce`, `CodeFresh`).
* Roles: a role holds what was last asked, except between the two statements
  of the one request at work (`RoleHoldsAsked`, `OneSetter`), and the permissions a request is loaded with
  are those of the roles of its user. That the guard lets only administrators
  through needs no invariant: no permission is undefined. The type invariant
  needs that permissions are granted only after the tables were filled
  (`RolesKnown`).
* Teams: `TreeIsFinite` is proved of every state. Going up from a listed team
  there is one way only, and it ends at a root; so no team comes twice on a path
  (`PathIsSimple`, at the least place where it would), two paths to a team are
  equal, and by counting no path has more teams than there are.
* Chunks: the answers to a batch are an injection of its texts, so as many are
  below each as stand before it (`AnswersCounted`), and sorting puts each back in
  its place.
* Ranking: fusion orders what was found strictly and totally (`FuseOrders`:
  scores, then the order of entry), and a list by the number of predecessors
  has each element once (`CountedOrder`, also used for the numbers of slides).
  That a better rank in every channel means a higher score comes down to
  quotients that fall (`RrfFalls`).
* Parsers: `FlattenJoins` says that a flattened list of lists is read at places
  that grow, piece by piece and without a gap; order, completeness and the
  absence of repetition follow for pages and slides. For sheets, `WidthIs` shows
  that a longest row exists.

Recursive functions are reasoned about without an induction theorem: that a
function defined by recursion exists, or that what it computes holds of every
index, is shown of the least index where it would fail (`LeastNatural`, from the
library's theorem that the natural numbers are well founded). `KeptIs`,
`PlacedGrows`, `UnitIsANumber` and `FlattenExists` are such lemmas.

**Only model-checked.** Liveness, which the prover does not handle:
`EventuallyAgrees`, `EndedTurnReleased` and the liveness half of
`ImplementsLifecycle`. The theorems with `~Overlap`, `Spaced`, `Prompt` or
`~EarlyStops` say nothing of clients, brokers and vendors that behave
otherwise; what holds then is what the theorems without a hypothesis say.

## 5. Findings

| Run | The code | Against |
|---|---|---|
| `hub_left_behind` | a slow reindex writes chunks after the delete task that followed it was handled | `document/document-access.ts:61`, what is not published is not in an index |
| `relay_interrupt_ends_process` | an interruption during the vendor handshake closes a connecting socket whose listeners were removed; its error is unhandled | `README.md:16`, speech can be interrupted per session |
| `chat_early_stop` | a stream stopped before its history is loaded overwrites the window of the session with the stopped turn alone (`ai-stream.service.ts:383`, `617`) | `chat-session.service.ts:126`, the window is the last messages; `ai-stream.service.ts:590`, a stopped answer is kept so that one can go on from it |

`relay_interrupt_ends_process` rests on the behaviour of the `ws` library
(closing a socket in CONNECTING emits `error`) and on no handler for uncaught
exceptions being installed in `src`.

Disagreements and surprises of the same kind that have no run of their own:

* Two reviewers load an open review and both save: the later decision replaces
  the earlier, although `document-review.service.ts:84` refuses a second one.
* A request that loaded a row before its removal saves `deleted = false` back,
  while the body stays deleted (`document.service.ts:144`, against `:193`).
* A submission that fails between its two saves leaves an open review of an
  editable draft (`document-review.service.ts:55`); approving it publishes
  whatever body it has by then.
* Two overlapping submissions both open a review; an edit overlapping a
  submission changes a pending body; two reindexes, or two graph builds, of one
  document mix the chunks of two texts; the search handler indexes a body
  edited after its status check.
* The late close event of a replaced browser socket closes the session of the
  new one (`tts-websocket.service.ts:34`, against `tts-relay.service.ts:48`);
  the late abort of one answer silences the next.
* Graph builds set `rel.type` (`graph-build.service.ts:215`), the chat and
  overview readers read `r.relation`, so they show the generic label for every
  relation. The node of a document never gets the `isPublic` and `teamId` its
  access filter reads. Relations of a text that is gone stay while both ends
  are mentioned elsewhere.
* Of two overlapping turns of a session the later save drops the other's
  messages from the window. A session saved after its removal is back; its
  window and long memory are never cleared.
* A first question that is stopped while its session is being created is lost:
  `onFinish` has no session id and returns (`ai-stream.service.ts:602`), against
  the comment at `:590` that a stopped turn is stored; the session that is then
  created stays empty. `StoppedTurnIsKept` exempts this one case.
* `PermissionsGuard` refuses everybody but administrators, whatever is granted.
  `RequirePermission` stores the codes it is given
  (`auth/decorators/require-permission.decorator.ts:5`), and the guard tests
  `owned.has(p.permissionCode)` on them (`auth/permissions.guard.ts:35`), which
  is `owned.has(undefined)`. `docs/course/09-rbac-permissions.html:141` says that
  bob, who has `system:user`, gets 200, and `user/rbac-seed.service.ts:60` that
  single users are given it. Granting has no effect on what may be done;
  `OnlyAdminsPass` states what the code does.
* Two searches of one message report `retried` although none was rewritten
  (`ai-stream.service.ts:162`).
* Two overlapping registrations share a name, two overlapping resets a code.
  An activation mail that fails leaves an account nobody can activate. An
  account an administrator creates is never verified and cannot log in; opening
  a link also enables an account that had been disabled before. `setUserRoles`
  writes nothing. A start gives a reviewer without permissions the default back.
* A reindex that is redelivered after the withdrawal of its document, by a crash
  or a lost channel before its ack (`mq/rabbitmq.service.ts:81`), puts the chunks
  back: `hub_left_behind` by another way.
* Teams in a cycle vanish from the tree. A slide title of several paragraphs is
  repeated in the body; an error cell of a sheet reads `[object Object]`.
* Without an answer of the reranker no threshold applies to what is found.

## 6. Not modelled, and why

* The form of search and graph queries, index and constraint set-up, prompts,
  wording, logging, messages to the browser, and the drawing of pictures.
* Speech recognition and one-shot synthesis: single calls to an external
  service, settled by one flag against a timeout.
* The disabled-broker mode and the declaration of exchanges and queues.
* The vendor credentials are taken as configured; without them no socket opens.
* A silent close by the vendor is not told to the browser (the code does not).
* `canReadDocument`, `canWriteDocument`, `esVisibilityFilter` and `wrapEsQuery`
  of `document-access.ts`: nothing calls them.
* Passwords, signatures, and the owners of sessions and documents where the
  code only filters by them.
* Object storage, canvas, web and mail tools, tracing, migrations: calls to
  external services without state of their own.

## 7. Plan

1. Weaker hypotheses: the isolated properties do not depend on the queues, so
   they should survive lost publishes; counting the kinds of faults apart
   (`MaxFaults` is one number) would let the theorems say so, and
   `SettledIndexesAgree` say what redelivery alone can disturb.
2. Joining `KnowledgeGraph` to `KnowledgeHub` as its third queue, and
   `AgentTurn` to `Chat` through what the turn stores, where the state spaces
   allow it; the composed safety properties follow from the theorems of the
   parts.
3. The hazards without a property (`PROJECT.json` says why for each): most are
   faults of the code that no comment or test speaks about, or speaks about
   without a run of its own here (section 5). Once the code is mended, what it
   then promises is the property: one open review per document under overlap,
   one decision per review, chunks that survive a failed reindex, a guard that
   lets a granted code through.
