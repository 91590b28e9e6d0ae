----------------------------- MODULE AgentTurn -----------------------------
(***************************************************************************)
(* One answered question.  In a stream (AiStreamService.streamChat) an       *)
(* agent is given the tools its plan allows; the model calls them as often   *)
(* as it likes, several at a time, whatever its prompt asks of it, and       *)
(* the tools themselves keep the budgets.  In a response                     *)
(* (AiChatService.chat) the code searches, judges, rewrites and searches     *)
(* again, with the graph read alongside.                                    *)
(*                                                                         *)
(* A tool runs up to its first await in one step and from there to its end   *)
(* in another.  The session, its history and the storing of the turn are     *)
(* Chat's.                                                                  *)
(***************************************************************************)
EXTENDS ChatRouting, FiniteSets

CONSTANTS
    Calls,          \* slots for the tool calls of one message of the model
    MaxModelCalls,  \* runLimit of modelCallLimitMiddleware
    MaxToolCalls,   \* runLimit of toolCallLimitMiddleware
    MaxNumber       \* bound on the numbers an answer cites

Chunks == UNION {{r[i] : i \in DOMAIN r} : r \in Results}

ASSUME AgentAssumption ==
    /\ {MaxModelCalls, MaxToolCalls, MaxNumber} \subseteq Nat
    /\ Results \subseteq Seq(Chunks)
    /\ IsFiniteSet(Calls)
    /\ Null \notin [query : Texts, ok : BOOLEAN]

VARIABLES
    asked,      \* the question and the way it is answered
    plan,
    phase,
    call,       \* the tool calls under way
    made,       \* what was asked of others: searches, rewritings, web, model
    last,       \* lastRetrieve: its query and whether it was judged relevant
    offer,      \* the query the rewriting of a response gave
    sources,    \* persistSources; hits in a response
    told,       \* the numbered chunks the model was shown
    graph,      \* prefetchedGraph, persistGraph
    cited,      \* the numbers in the answer so far
    stopped,
    stored      \* what the turn stores

agentVars == <<asked, plan, phase, call, made, last, offer, sources, told, graph,
               cited, stopped, stored>>

-----------------------------------------------------------------------------
Graphs == {"some", "nothing"}
Tools == {"retrieve", "rewrite", "web", "graph"}
NoCall == [tool |-> "none", pc |-> "idle", query |-> Blank]
Numbered(seq, offset) == {<<offset + i, seq[i]>> : i \in DOMAIN seq}

TypeOK ==
    /\ asked \in [mode : {"stream", "response"}, question : Questions]
    /\ plan \in PlanType \cup {Null}
    /\ phase \in {"classify", "prefetch", "agent", "first", "rewrite", "second", "decide",
                  "llm", "over"}
    /\ \A c \in Calls : /\ call[c].tool \in Tools \cup {"none"} /\ call[c].query \in Texts
                        /\ call[c].pc \in {"idle", "called", "running"}
    /\ made.searches \in Seq({t \in Texts : Squeeze[t] # Blank})
    /\ made.models \in 0..MaxModelCalls
    /\ made.tools \in 0..MaxToolCalls
    /\ last = Null \/ (last.query \in Texts /\ last.ok \in BOOLEAN)
    /\ offer \in Texts
    /\ sources \in Seq(Chunks) /\ told \subseteq Nat \X Chunks
    /\ {graph.prefetched, graph.kept} \subseteq Graphs \cup {Null}
    /\ cited \subseteq 1..MaxNumber

Init ==
    /\ asked \in [mode : {"stream", "response"}, question : Questions]
    /\ plan = Null /\ phase = "classify"
    /\ call = [c \in Calls |-> NoCall]
    /\ made = [searches |-> <<>>, rewrites |-> 0, webs |-> 0, models |-> 0, tools |-> 0]
    /\ last = Null /\ offer = Blank
    /\ sources = <<>> /\ told = {}
    /\ graph = [prefetched |-> Null, kept |-> Null]
    /\ cited = {} /\ stopped = FALSE /\ stored = Null

Streaming(p) == asked.mode = "stream" /\ phase = p /\ ~stopped
Responding(p) == asked.mode = "response" /\ phase = p

-----------------------------------------------------------------------------
(* The start of both *)

Classify ==
    /\ phase = "classify" /\ ~stopped
    /\ plan' \in Plans(asked.question)
    /\ phase' = IF asked.mode = "stream" THEN "prefetch"
                ELSE IF plan'.allowRetrieve THEN "first" ELSE "decide"
    /\ UNCHANGED <<asked, call, made, last, offer, sources, told, graph, cited, stopped, stored>>

\* The graph is read before the agent starts when the plan has keywords.
Prefetch ==
    /\ Streaming("prefetch")
    /\ IF plan.allowGraph /\ HasGraphKeywords(plan)
       THEN \E g \in Graphs : graph' = [prefetched |-> g, kept |-> g]
       ELSE UNCHANGED graph
    /\ phase' = "agent"
    /\ UNCHANGED <<asked, plan, call, made, last, offer, sources, told, cited, stopped, stored>>

-----------------------------------------------------------------------------
(* The agent *)

AllIdle == \A c \in Calls : call[c].pc = "idle"

Allowed == (IF plan.allowRetrieve THEN {"retrieve", "rewrite"} ELSE {})
             \cup (IF plan.allowWeb THEN {"web"} ELSE {})
             \cup (IF plan.allowGraph THEN {"graph"} ELSE {})

\* The model writes text, in which it may cite what it was not shown ...
Say(n) ==
    /\ Streaming("agent") /\ AllIdle
    /\ cited' = cited \cup {n}
    /\ UNCHANGED <<asked, plan, phase, call, made, last, offer, sources, told, graph, stopped, stored>>

\* ... or calls tools.
CallTools(tools) ==
    /\ Streaming("agent") /\ AllIdle
    /\ made.models < MaxModelCalls
    /\ LET n == Cardinality({c \in Calls : tools[c].tool # "none"})
       IN  /\ n > 0 /\ made.tools + n <= MaxToolCalls
           /\ made' = [made EXCEPT !.models = @ + 1, !.tools = @ + n]
    /\ call' = [c \in Calls |-> IF tools[c].tool = "none" THEN NoCall
                                ELSE [tools[c] EXCEPT !.pc = "called"]]
    /\ UNCHANGED <<asked, plan, phase, last, offer, sources, told, graph, cited, stopped, stored>>

Called(c, tool) == ~stopped /\ call[c].pc = "called" /\ call[c].tool = tool
Running(c, tool) == call[c].pc = "running" /\ call[c].tool = tool
Goes(c) == call' = [call EXCEPT ![c].pc = "running"]
Returns(c) == call' = [call EXCEPT ![c] = NoCall]

\* Mutant: a search is counted when it ends.
RetrieveCount_Ended ==
    Len(made.searches) - Cardinality({c \in Calls : Running(c, "retrieve")})

\* The counters are raised as the calls to others are made.
RetrieveCount == Len(made.searches)

StartRetrieve(c) ==
    /\ Called(c, "retrieve")
    /\ IF RetrieveCount >= 2 THEN Returns(c) /\ UNCHANGED made
       ELSE LET query == OrElse(call[c].query, asked.question)
            IN  /\ call' = [call EXCEPT ![c].pc = "running", ![c].query = query]
                /\ made' = [made EXCEPT !.searches = Append(@, query)]
    /\ UNCHANGED <<asked, plan, phase, last, offer, sources, told, graph, cited, stopped, stored>>

\* Mutant: every result is numbered from one.
PackRetrieveResult_FromOne(hits) ==
    /\ told' = told \cup Numbered(hits, 0)
    /\ sources' = sources \o hits

\* The numbers go on where the last result ended.
PackRetrieveResult(hits) ==
    /\ told' = told \cup Numbered(hits, Len(sources))
    /\ sources' = sources \o hits

EndRetrieve(c) ==
    /\ Running(c, "retrieve")
    /\ \E v \in Verdicts :
        /\ last' = [query |-> call[c].query, ok |-> v.ok]
        /\ PackRetrieveResult(Hits(v))
    /\ Returns(c)
    /\ UNCHANGED <<asked, plan, phase, made, offer, graph, cited, stopped, stored>>

StartRewrite(c) ==
    /\ Called(c, "rewrite")
    /\ IF last = Null \/ last.ok \/ RetrieveCount >= 2 \/ made.rewrites >= 1
       THEN Returns(c) /\ UNCHANGED made
       ELSE Goes(c) /\ made' = [made EXCEPT !.rewrites = @ + 1]
    /\ UNCHANGED <<asked, plan, phase, last, offer, sources, told, graph, cited, stopped, stored>>

\* The model is told the new query, and may search with another.
EndRewrite(c) ==
    /\ Running(c, "rewrite")
    /\ Returns(c)
    /\ UNCHANGED <<asked, plan, phase, made, last, offer, sources, told, graph, cited, stopped, stored>>

StartWeb(c) ==
    /\ Called(c, "web")
    /\ IF made.webs >= 1 THEN Returns(c) /\ UNCHANGED made
       ELSE Goes(c) /\ made' = [made EXCEPT !.webs = @ + 1]
    /\ UNCHANGED <<asked, plan, phase, last, offer, sources, told, graph, cited, stopped, stored>>

EndWeb(c) ==
    /\ Running(c, "web")
    /\ Returns(c)
    /\ UNCHANGED <<asked, plan, phase, made, last, offer, sources, told, graph, cited, stopped, stored>>

\* A graph that was read before is not read again.
StartGraph(c) ==
    /\ Called(c, "graph")
    /\ IF graph.prefetched # Null THEN Returns(c) ELSE Goes(c)
    /\ UNCHANGED <<asked, plan, phase, made, last, offer, sources, told, graph, cited, stopped, stored>>

EndGraph(c) ==
    /\ Running(c, "graph")
    /\ \E g \in Graphs : graph' = [graph EXCEPT !.kept = g]
    /\ Returns(c)
    /\ UNCHANGED <<asked, plan, phase, made, last, offer, sources, told, cited, stopped, stored>>

\* Mutant: the numbers count from zero.
CitedSources_FromZero == {<<n, sources[n]>> : n \in {m \in DOMAIN sources : m - 1 \in cited}}

\* onFinish: of the sources, those the answer cites.
CitedSources == {<<n, sources[n]>> : n \in cited \cap DOMAIN sources}

Store == stored' = [sources |-> CitedSources, graph |-> graph.kept, cited |-> cited]

\* The model has answered, or a limit ended it.
Finish ==
    /\ Streaming("agent") /\ AllIdle
    /\ phase' = "over" /\ Store
    /\ UNCHANGED <<asked, plan, call, made, last, offer, sources, told, graph, cited, stopped>>

\* The client stops the stream; tools that are running go on to their end.
Stop ==
    /\ asked.mode = "stream" /\ phase # "over" /\ ~stopped
    /\ stopped' = TRUE /\ phase' = "over" /\ Store
    /\ UNCHANGED <<asked, plan, call, made, last, offer, sources, told, graph, cited>>

Start(c) == StartRetrieve(c) \/ StartRewrite(c) \/ StartWeb(c) \/ StartGraph(c)
End(c) == EndRetrieve(c) \/ EndRewrite(c) \/ EndWeb(c) \/ EndGraph(c)

-----------------------------------------------------------------------------
(* The response *)

\* retrieveUntilRelevant: the first search; only one that found nothing or
\* nothing relevant is tried again ...
FirstSearch ==
    /\ Responding("first")
    /\ made' = [made EXCEPT !.searches = Append(@, plan.query)]
    /\ \E v \in Verdicts :
        /\ last' = [query |-> plan.query, ok |-> v.ok]
        /\ sources' = Hits(v)
        /\ phase' = IF v.ok \/ v.failed THEN "decide" ELSE "rewrite"
    /\ UNCHANGED <<asked, plan, call, offer, told, graph, cited, stopped, stored>>

\* ... with another query ...
Rewrite ==
    /\ Responding("rewrite")
    /\ \E written \in Written \cup {Null} :
        offer' = RewriteAfterRetrieve(asked.question, last.query, written)
    /\ phase' = IF offer' = Blank THEN "decide" ELSE "second"
    /\ made' = [made EXCEPT !.rewrites = @ + 1]
    /\ UNCHANGED <<asked, plan, call, last, sources, told, graph, cited, stopped, stored>>

\* ... once.
SecondSearch ==
    /\ Responding("second")
    /\ made' = [made EXCEPT !.searches = Append(@, offer)]
    /\ \E v \in Verdicts : last' = [query |-> offer, ok |-> v.ok] /\ sources' = Hits(v)
    /\ phase' = "decide"
    /\ UNCHANGED <<asked, plan, call, offer, told, graph, cited, stopped, stored>>

\* The graph is read at the same time, for a plan with names only.
ReadGraph ==
    /\ asked.mode = "response" /\ phase \in {"first", "rewrite", "second", "decide"}
    /\ plan.allowGraph /\ plan.names /\ graph.kept = Null
    /\ \E g \in Graphs : graph' = [graph EXCEPT !.kept = g]
    /\ UNCHANGED <<asked, plan, phase, call, made, last, offer, sources, told, cited, stopped, stored>>

KbInsufficient == last # Null /\ ~last.ok

\* Mutant: a graph that was read counts, whatever it holds.
HasGraph_Read == graph.kept # Null

HasGraph == graph.kept = "some"

\* Without chunks and graph a question for the knowledge base is not answered;
\* the web is searched when it may be and the knowledge base does not do.
Decide ==
    /\ Responding("decide")
    /\ plan.allowGraph /\ plan.names => graph.kept # Null
    /\ IF plan.intent = "kb" /\ KbInsufficient /\ ~HasGraph
       THEN phase' = "over" /\ Store /\ UNCHANGED <<made, told>>
       ELSE /\ phase' = "llm"
            /\ made' = [made EXCEPT !.webs =
                          @ + IF plan.allowWeb /\ (~plan.allowRetrieve \/ KbInsufficient)
                              THEN 1 ELSE 0]
            /\ told' = Numbered(sources, 0)
            /\ UNCHANGED stored
    /\ UNCHANGED <<asked, plan, call, last, offer, sources, graph, cited, stopped>>

\* toCitedSources: all of the chunks when none is cited; a model that fails
\* ends the request.
Answer ==
    /\ Responding("llm")
    /\ phase' = "over"
    /\ \/ \E C \in SUBSET (1..MaxNumber) :
            /\ cited' = C
            /\ stored' = [sources |-> {x \in Numbered(sources, 0) :
                                          C \cap DOMAIN sources = {} \/ x[1] \in C},
                          graph |-> graph.kept, cited |-> C]
       \/ UNCHANGED <<cited, stored>>
    /\ UNCHANGED <<asked, plan, call, made, last, offer, sources, told, graph, stopped>>

-----------------------------------------------------------------------------
\* The calls of one message: a tool and, for a search, a query each.
Requests == {NoCall} \cup {[NoCall EXCEPT !.tool = t] : t \in Tools \ {"retrieve"}}
              \cup {[NoCall EXCEPT !.tool = "retrieve", !.query = q] : q \in Written}

Next ==
    \/ Classify \/ Prefetch
    \/ \E n \in 1..MaxNumber : Say(n)
    \/ \E tools \in [Calls -> {r \in Requests : plan # Null /\ r.tool \in Allowed \cup {"none"}}] :
          CallTools(tools)
    \/ \E c \in Calls : Start(c) \/ End(c)
    \/ Finish \/ Stop
    \/ FirstSearch \/ Rewrite \/ SecondSearch \/ ReadGraph \/ Decide \/ Answer

Spec == Init /\ [][Next]_agentVars

-----------------------------------------------------------------------------
(* Properties *)

\* However many tools the model calls at once and whatever it ignores, a turn
\* searches the knowledge base twice, rewrites once and searches the web once.
BudgetsKept == Len(made.searches) <= 2 /\ made.rewrites <= 1 /\ made.webs <= 1

\* A number the model was shown names one chunk for good, whatever order
\* searches end in, and what the turn stores under a number is what the model
\* was shown under it.
CitationsResolve ==
    /\ \A x \in told : x[1] \in DOMAIN sources /\ sources[x[1]] = x[2]
    /\ stored # Null =>
        /\ stored.sources \subseteq told
        /\ asked.mode = "stream" => \A x \in stored.sources : x[1] \in stored.cited

\* What was cited and shown before the turn was stored is stored.
CitedIsStored ==
    [][stored = Null /\ stored' # Null =>
          \A x \in told : x[1] \in stored'.cited => x \in stored'.sources]_agentVars

\* A response about the knowledge base is written from chunks judged relevant
\* or from a graph that holds something, and only refused without both.
ResponseHasEvidence ==
    (asked.mode = "response" /\ plan # Null /\ plan.intent = "kb" /\ phase = "llm") =>
        sources # <<>> \/ graph.kept = "some"

\* The second search of a response asks something else than the first.
RetryAsksAnew ==
    asked.mode = "response" =>
        \A i, j \in DOMAIN made.searches :
            i # j => Squeeze[made.searches[i]] # Squeeze[made.searches[j]]
=============================================================================
