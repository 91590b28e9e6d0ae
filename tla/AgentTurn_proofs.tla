-------------------------- MODULE AgentTurn_proofs --------------------------
(***************************************************************************)
(* What one answered question keeps to, for every set of texts, results and  *)
(* tool calls: its budgets, its citations, its evidence and its second query. *)
(***************************************************************************)
EXTENDS AgentTurn, TLAPS, FiniteSetTheorems

-----------------------------------------------------------------------------
(* The inductive invariant, by parts *)

Answered == [query : Texts, ok : BOOLEAN]
Asked == {t \in Texts : Squeeze[t] # Blank}

\* Plans that name a query, and that search when the intent is the knowledge base.
SoundPlan == {p \in PlanType : p.query \in Asked /\ (p.intent = "kb" => p.allowRetrieve)}

\* TypeOK with the shape of every record.
Typed ==
    /\ asked \in [mode : {"stream", "response"}, question : Questions]
    /\ plan \in PlanType \cup {Null}
    /\ phase \in {"classify", "prefetch", "agent", "first", "rewrite", "second", "decide",
                  "llm", "over"}
    /\ call \in [Calls -> [tool : Tools \cup {"none"}, pc : {"idle", "called", "running"},
                           query : Texts]]
    /\ made \in [searches : Seq(Asked), rewrites : Nat, webs : Nat,
                 models : 0..MaxModelCalls, tools : 0..MaxToolCalls]
    /\ last \in Answered \cup {Null}
    /\ offer \in Texts
    /\ sources \in Seq(Chunks)
    /\ graph \in [prefetched : Graphs \cup {Null}, kept : Graphs \cup {Null}]
    /\ cited \subseteq 1..MaxNumber

\* A stream and a response go through phases of their own, and only a stream
\* calls tools.
Phases ==
    /\ phase \notin {"classify", "over"} => plan \in SoundPlan
    /\ phase \in {"prefetch", "agent"} => asked.mode = "stream"
    /\ phase \in {"first", "rewrite", "second", "decide", "llm"} => asked.mode = "response"
    /\ asked.mode = "response" => AllIdle

\* What a response has spent when it reaches a phase.
Spent ==
    /\ BudgetsKept
    /\ asked.mode = "response" =>
        /\ phase \in {"classify", "first"} => made.searches = <<>>
        /\ phase \in {"rewrite", "second"} => made.searches = <<last.query>> /\ last \in Answered
        /\ phase \in {"classify", "first", "rewrite"} => made.rewrites = 0
        /\ phase \in {"classify", "first", "rewrite", "second", "decide"} => made.webs = 0

\* The rewriting offers a query that is not the one before, already squeezed.
Offered ==
    phase = "second" =>
        offer # Blank /\ Squeeze[offer] = offer /\ Squeeze[offer] # Squeeze[last.query]

\* The model is shown all the sources under their numbers: in a stream at any
\* time, in a response once its model is asked.
Shown ==
    /\ told \subseteq Numbered(sources, 0)
    /\ asked.mode = "stream" \/ phase = "llm" => told = Numbered(sources, 0)
    /\ phase \in {"classify", "first", "rewrite", "second", "decide"} =>
          (asked.mode = "response" => told = {} /\ cited = {})
    /\ phase = "llm" => cited = {}
    /\ stored # Null => /\ stored.sources \subseteq told
                        /\ asked.mode = "stream" => \A x \in stored.sources : x[1] \in stored.cited

\* A search judged relevant found something.
Evidence ==
    /\ ResponseHasEvidence
    /\ phase \in {"rewrite", "second", "decide"} /\ plan.allowRetrieve =>
          last \in Answered /\ (last.ok => sources # <<>>)

IInv == Typed /\ Phases /\ Spent /\ Offered /\ RetryAsksAnew /\ Shown /\ Evidence

-----------------------------------------------------------------------------
(* Facts about the operators *)

\* The sources of a sequence are numbered one after another: what is appended
\* takes the numbers that follow.
LEMMA NumberedAppend ==
    ASSUME NEW S, NEW s \in Seq(S), NEW t \in Seq(S)
    PROVE  Numbered(s \o t, 0) = Numbered(s, 0) \cup Numbered(t, Len(s))
<1>1. Len(s \o t) = Len(s) + Len(t) /\ s \o t \in Seq(S)
  OBVIOUS
<1>2. \A i \in DOMAIN s : i \in DOMAIN (s \o t) /\ (s \o t)[i] = s[i]
  OBVIOUS
<1>3. \A i \in DOMAIN t : Len(s) + i \in DOMAIN (s \o t) /\ (s \o t)[Len(s) + i] = t[i]
  OBVIOUS
<1>4. ASSUME NEW k \in DOMAIN (s \o t), k \notin DOMAIN s
      PROVE  \E i \in DOMAIN t : k = Len(s) + i
  <2>1. k - Len(s) \in DOMAIN t /\ k = Len(s) + (k - Len(s))
    BY <1>1, <1>4
  <2> QED
    BY <2>1
<1>5. Numbered(s, 0) \subseteq Numbered(s \o t, 0)
  BY <1>2 DEF Numbered
<1>6. Numbered(t, Len(s)) \subseteq Numbered(s \o t, 0)
  <2> SUFFICES ASSUME NEW x \in Numbered(t, Len(s))
               PROVE  x \in Numbered(s \o t, 0)
    OBVIOUS
  <2>1. PICK i \in DOMAIN t : x = <<Len(s) + i, t[i]>>
    BY DEF Numbered
  <2>2. x = <<0 + (Len(s) + i), (s \o t)[Len(s) + i]>> /\ Len(s) + i \in DOMAIN (s \o t)
    BY <2>1, <1>3
  <2> QED
    BY <2>2 DEF Numbered
<1>7. ASSUME NEW x \in Numbered(s \o t, 0)
      PROVE  x \in Numbered(s, 0) \cup Numbered(t, Len(s))
  <2>1. PICK k \in DOMAIN (s \o t) : x = <<0 + k, (s \o t)[k]>>
    BY DEF Numbered
  <2>2. CASE k \in DOMAIN s
    BY <2>1, <2>2, <1>2 DEF Numbered
  <2>3. CASE k \notin DOMAIN s
    <3>1. PICK i \in DOMAIN t : k = Len(s) + i
      BY <1>4, <2>3
    <3>2. x = <<Len(s) + i, t[i]>>
      BY <3>1, <2>1, <1>3
    <3> QED
      BY <3>2 DEF Numbered
  <2> QED
    BY <2>2, <2>3
<1> QED
  BY <1>5, <1>6, <1>7

\* Number n names chunk n.
LEMMA NumberedIs ==
    ASSUME NEW S, NEW s \in Seq(S)
    PROVE  /\ \A x \in Numbered(s, 0) : x[1] \in DOMAIN s /\ x = <<x[1], s[x[1]]>>
           /\ \A n \in DOMAIN s : <<n, s[n]>> \in Numbered(s, 0)
<1>1. \A i \in DOMAIN s : 0 + i = i
  OBVIOUS
<1> QED
  BY <1>1 DEF Numbered

\* A query is taken from a text that has something in it, or is the question.
LEMMA OrElseAsked ==
    ASSUME NEW t \in Texts, NEW q \in Questions
    PROVE  OrElse(t, q) \in Asked
  BY RoutingAssumption DEF OrElse, Asked

\* Whatever the models answer, a plan has a query and a plan for the knowledge
\* base searches it.
LEMMA PlansAreSound ==
    ASSUME NEW q \in Questions
    PROVE  Plans(q) \subseteq SoundPlan
<1>1. q \in Asked
  BY RoutingAssumption DEF Asked
<1>2. ASSUME NEW intent \in Intents, NEW query \in Asked, NEW names \in BOOLEAN
      PROVE  ToPlan(intent, query, names) \in SoundPlan
  <2> DEFINE kb == intent \in {"kb", "kb_then_web"}
             p == [intent |-> intent, query |-> query, names |-> kb /\ names,
                   allowRetrieve |-> kb, allowGraph |-> kb,
                   allowWeb |-> intent \in {"web", "kb_then_web"}]
  <2>1. ToPlan(intent, query, names) = p
    BY DEF ToPlan
  <2>2. kb \in BOOLEAN /\ (kb /\ names) \in BOOLEAN /\ (intent \in {"web", "kb_then_web"}) \in BOOLEAN
    OBVIOUS
  <2>3. intent \in Intents /\ query \in Texts
    BY DEF Asked
  <2> HIDE DEF kb
  <2>4. p \in PlanType
    BY <2>2, <2>3, Zenon DEF PlanType
  <2>5. p.intent = "kb" => p.allowRetrieve
    BY DEF kb
  <2>6. p.query \in Asked
    OBVIOUS
  <2> QED
    BY <2>1, <2>4, <2>5, <2>6 DEF SoundPlan
<1>3. \A t \in Written : OrElse(t, q) \in Asked
  BY OrElseAsked, RoutingAssumption
<1>4. Classified(q) \subseteq SoundPlan
  <2>1. \A r \in Routes : ToPlan(r.intent, OrElse(r.text, q), r.names) \in SoundPlan
    <3> TAKE r \in Routes
    <3>1. r.intent \in Intents /\ r.text \in Written /\ r.names \in BOOLEAN
      BY DEF Routes
    <3>2. OrElse(r.text, q) \in Asked
      BY <3>1, <1>3
    <3> QED
      BY <1>2, <3>1, <3>2, Zenon
  <2>2. ToPlan("kb", q, FALSE) \in SoundPlan /\ ToPlan("chitchat", q, FALSE) \in SoundPlan
    <3>1. "kb" \in Intents /\ "chitchat" \in Intents /\ FALSE \in BOOLEAN
      BY DEF Intents
    <3> QED
      BY <1>1, <1>2, <3>1, Zenon
  <2> QED
    BY <2>1, <2>2, Zenon DEF Classified
<1>5. \A p \in SoundPlan : ApplyMermaidDiagramPlan(p, q) \in SoundPlan
  BY DEF ApplyMermaidDiagramPlan, SoundPlan, PlanType
<1> QED
  BY <1>4, <1>5 DEF Plans

\* The chunks handed on are a sequence, empty only without a relevant verdict.
LEMMA HitsAre ==
    ASSUME NEW v \in Verdicts
    PROVE  Hits(v) \in Seq(Chunks) /\ v.ok \in BOOLEAN /\ (v.ok => Hits(v) # <<>>)
  BY AgentAssumption DEF Verdicts, Verdict, Hits

\* A rewriting gives nothing, or a squeezed query other than the one before.
LEMMA RewriteIsNew ==
    ASSUME NEW q \in Questions, NEW p \in Texts, NEW w \in Written \cup {Null}
    PROVE  LET r == RewriteAfterRetrieve(q, p, w)
           IN  r \in Texts /\ (r # Blank => Squeeze[r] = r /\ Squeeze[r] # Squeeze[p])
<1>1. ASSUME NEW t \in Texts
      PROVE  LET d == DistinctQuery(t, p)
             IN  d \in Texts /\ (d # Blank => Squeeze[d] = d /\ Squeeze[d] # Squeeze[p])
  BY RoutingAssumption DEF DistinctQuery
<1>2. q \in Texts /\ (w # Null => Trim[w] \in Texts)
  BY RoutingAssumption
<1> QED
  BY <1>1, <1>2 DEF RewriteAfterRetrieve

-----------------------------------------------------------------------------
(* Initial states, and steps of a stream *)

LEMMA InitIInv ==
    Init => IInv
<1> SUFFICES ASSUME Init PROVE IInv
  OBVIOUS
<1>1. Typed
  BY AgentAssumption, RoutingAssumption DEF Init, Typed, NoCall, Asked
<1>2. Phases /\ Spent /\ Offered /\ RetryAsksAnew /\ Evidence
  BY DEF Init, Phases, Spent, Offered, RetryAsksAnew, Evidence, BudgetsKept,
         ResponseHasEvidence, AllIdle, NoCall
<1>3. Shown
  <2>1. Numbered(<<>>, 0) = {}
    BY DEF Numbered
  <2> QED
    BY <2>1 DEF Init, Shown
<1> QED
  BY <1>1, <1>2, <1>3 DEF IInv

\* What concerns responses only holds in a stream for want of their phases.
LEMMA InStream ==
    ASSUME asked' = asked, asked.mode = "stream", Typed', Phases', BudgetsKept', Shown'
    PROVE  IInv'
<1>1. phase' \notin {"first", "rewrite", "second", "decide", "llm"}
  BY DEF Phases
<1>2. Spent' /\ RetryAsksAnew'
  BY DEF Spent, RetryAsksAnew
<1>3. Offered' /\ Evidence'
  BY <1>1 DEF Offered, Evidence, ResponseHasEvidence
<1> QED
  BY <1>2, <1>3 DEF IInv

CallType == [tool : Tools \cup {"none"}, pc : {"idle", "called", "running"}, query : Texts]

\* What a tool does to its call.
LEMMA CallsStayTyped ==
    ASSUME Typed, NEW c \in Calls
    PROVE  /\ call \in [Calls -> CallType]
           /\ Returns(c) \/ Goes(c) => call' \in [Calls -> CallType]
           /\ \A q \in Texts : [call EXCEPT ![c].pc = "running", ![c].query = q] \in [Calls -> CallType]
<1>1. call \in [Calls -> CallType]
  BY DEF Typed, CallType
<1>2. NoCall \in CallType
  BY RoutingAssumption DEF NoCall, CallType
<1>3. ASSUME NEW r \in CallType, NEW q \in Texts
      PROVE  [r EXCEPT !.pc = "running"] \in CallType /\
             [[r EXCEPT !.pc = "running"] EXCEPT !.query = q] \in CallType
  BY DEF CallType
<1>4. call[c] \in CallType
  BY <1>1
<1>5. Returns(c) => call' \in [Calls -> CallType]
  BY <1>1, <1>2 DEF Returns
<1>6. Goes(c) => call' \in [Calls -> CallType]
  <2>1. [call[c] EXCEPT !.pc = "running"] \in CallType
    BY <1>3, <1>4, RoutingAssumption
  <2> QED
    BY <1>1, <2>1 DEF Goes
<1>7. ASSUME NEW q \in Texts
      PROVE  [call EXCEPT ![c].pc = "running", ![c].query = q] \in [Calls -> CallType]
  <2>1. [[call[c] EXCEPT !.pc = "running"] EXCEPT !.query = q] \in CallType
    BY <1>3, <1>4
  <2> QED
    BY <1>1, <2>1
<1> QED
  BY <1>1, <1>5, <1>6, <1>7

MadeType == [searches : Seq(Asked), rewrites : Nat, webs : Nat,
             models : 0..MaxModelCalls, tools : 0..MaxToolCalls]

\* What a tool or a response counts.
LEMMA MadeStaysTyped ==
    ASSUME Typed
    PROVE  /\ made \in MadeType
           /\ \A q \in Asked : [made EXCEPT !.searches = Append(@, q)] \in MadeType
           /\ [made EXCEPT !.rewrites = @ + 1] \in MadeType
           /\ \A n \in Nat : [made EXCEPT !.webs = @ + n] \in MadeType
<1>1. made \in MadeType
  BY DEF Typed, MadeType
<1>2. ASSUME NEW q \in Asked
      PROVE  [made EXCEPT !.searches = Append(@, q)] \in MadeType
  <2>1. Append(made.searches, q) \in Seq(Asked)
    BY <1>1 DEF MadeType
  <2> QED
    BY <1>1, <2>1 DEF MadeType
<1>3. [made EXCEPT !.rewrites = @ + 1] \in MadeType
  BY <1>1 DEF MadeType
<1>4. \A n \in Nat : [made EXCEPT !.webs = @ + n] \in MadeType
  BY <1>1 DEF MadeType
<1> QED
  BY <1>1, <1>2, <1>3, <1>4

\* A call under way is one of a stream.
LEMMA CallsAreOfStreams ==
    ASSUME IInv, NEW c \in Calls, call[c].pc # "idle"
    PROVE  asked.mode = "stream"
  BY DEF IInv, Typed, Phases, AllIdle

\* A step of a tool that leaves the sources alone.
LEMMA ToolKeeps ==
    ASSUME IInv, asked.mode = "stream", Typed', BudgetsKept',
           UNCHANGED <<asked, plan, phase, last, offer, sources, told, cited, stopped, stored>>
    PROVE  IInv'
<1>1. Phases'
  BY DEF IInv, Phases
<1>2. Shown'
  BY DEF IInv, Shown
<1> QED
  BY <1>1, <1>2, InStream

LEMMA StartKeeps ==
    ASSUME IInv, NEW c \in Calls, Start(c)
    PROVE  IInv'
<1>1. asked.mode = "stream"
  <2>1. call[c].pc # "idle"
    BY DEF Start, StartRetrieve, StartRewrite, StartWeb, StartGraph, Called
  <2> QED
    BY <2>1, CallsAreOfStreams
<1>2. OrElse(call[c].query, asked.question) \in Asked
  BY OrElseAsked DEF IInv, Typed
<1>3. CASE StartRetrieve(c)
  <2> DEFINE query == OrElse(call[c].query, asked.question)
  <2>1. CASE RetrieveCount >= 2
    <3>1. Returns(c) /\ made' = made
      BY <2>1, <1>3 DEF StartRetrieve
    <3>2. Typed' /\ BudgetsKept'
      BY <3>1, <1>3, CallsStayTyped
         DEF StartRetrieve, IInv, Typed, CallType, Spent, BudgetsKept
    <3> QED
      BY <3>2, <1>1, <1>3, ToolKeeps DEF StartRetrieve
  <2>2. CASE ~(RetrieveCount >= 2)
    <3>1. /\ call' = [call EXCEPT ![c].pc = "running", ![c].query = query]
          /\ made' = [made EXCEPT !.searches = Append(@, query)]
      BY <2>2, <1>3 DEF StartRetrieve
    <3>2. call' \in [Calls -> CallType]
      BY <3>1, <1>2, CallsStayTyped DEF IInv, Asked
    <3>3. made' \in MadeType
      BY <3>1, <1>2, MadeStaysTyped DEF IInv
    <3>4. Typed'
      BY <3>2, <3>3, <1>3 DEF StartRetrieve, IInv, Typed, CallType, MadeType
    <3>5. BudgetsKept'
      BY <3>1, <1>2, <2>2 DEF RetrieveCount, IInv, Typed, Spent, BudgetsKept
    <3> QED
      BY <3>4, <3>5, <1>1, <1>3, ToolKeeps DEF StartRetrieve
  <2> QED
    BY <2>1, <2>2
<1>4. CASE StartRewrite(c)
  <2>0. call' \in [Calls -> CallType]
    BY <1>4, CallsStayTyped DEF StartRewrite, IInv
  <2>1. made' \in MadeType
    BY <1>4, MadeStaysTyped DEF StartRewrite, IInv
  <2>2. Typed'
    BY <2>0, <2>1, <1>4 DEF StartRewrite, IInv, Typed, CallType, MadeType
  <2>3. BudgetsKept'
    BY <1>4 DEF StartRewrite, IInv, Typed, Spent, BudgetsKept
  <2> QED
    BY <2>2, <2>3, <1>1, <1>4, ToolKeeps DEF StartRewrite
<1>5. CASE StartWeb(c)
  <2>0. call' \in [Calls -> CallType]
    BY <1>5, CallsStayTyped DEF StartWeb, IInv
  <2>1. made' \in MadeType
    BY <1>5, MadeStaysTyped DEF StartWeb, IInv
  <2>2. Typed'
    BY <2>0, <2>1, <1>5 DEF StartWeb, IInv, Typed, CallType, MadeType
  <2>3. BudgetsKept'
    BY <1>5 DEF StartWeb, IInv, Typed, Spent, BudgetsKept
  <2> QED
    BY <2>2, <2>3, <1>1, <1>5, ToolKeeps DEF StartWeb
<1>6. CASE StartGraph(c)
  <2>0. call' \in [Calls -> CallType]
    BY <1>6, CallsStayTyped DEF StartGraph, IInv
  <2>1. Typed'
    BY <2>0, <1>6 DEF StartGraph, IInv, Typed, CallType
  <2>2. BudgetsKept'
    BY <1>6 DEF StartGraph, IInv, Spent, BudgetsKept
  <2> QED
    BY <2>1, <2>2, <1>1, <1>6, ToolKeeps DEF StartGraph
<1> QED
  BY <1>3, <1>4, <1>5, <1>6 DEF Start

\* A search that ends gives its chunks the numbers after the sources there are.
LEMMA EndRetrieveKeeps ==
    ASSUME IInv, NEW c \in Calls, EndRetrieve(c)
    PROVE  IInv'
<1>1. asked.mode = "stream"
  BY CallsAreOfStreams DEF EndRetrieve, Running
<1>2. PICK v \in Verdicts : /\ last' = [query |-> call[c].query, ok |-> v.ok]
                            /\ PackRetrieveResult(Hits(v))
  BY DEF EndRetrieve
<1>3. Hits(v) \in Seq(Chunks) /\ v.ok \in BOOLEAN /\ sources \in Seq(Chunks)
  BY HitsAre DEF IInv, Typed
<1>4. sources' = sources \o Hits(v) /\ sources' \in Seq(Chunks)
  BY <1>2, <1>3 DEF PackRetrieveResult
<1>5. told' = Numbered(sources', 0)
  <2>1. told = Numbered(sources, 0)
    BY <1>1 DEF IInv, Shown
  <2> QED
    BY <2>1, <1>2, <1>3, <1>4, NumberedAppend DEF PackRetrieveResult
<1>6. Typed'
  <2>1. last' \in Answered
    BY <1>2, <1>3 DEF Answered, IInv, Typed
  <2> QED
    BY <2>1, <1>4, RoutingAssumption DEF EndRetrieve, IInv, Typed, Returns, NoCall
<1>7. Phases'
  BY <1>1 DEF EndRetrieve, IInv, Phases
<1>8. BudgetsKept'
  BY DEF EndRetrieve, IInv, Spent, BudgetsKept
<1>9. Shown'
  <2>1. told \subseteq told'
    BY <1>2 DEF PackRetrieveResult
  <2>2. phase' \notin {"first", "rewrite", "second", "decide", "llm"}
    BY <1>1, <1>7 DEF EndRetrieve, Phases
  <2> QED
    BY <2>1, <2>2, <1>1, <1>5 DEF EndRetrieve, IInv, Shown
<1> QED
  BY <1>1, <1>6, <1>7, <1>8, <1>9, InStream DEF EndRetrieve

LEMMA EndKeeps ==
    ASSUME IInv, NEW c \in Calls, End(c)
    PROVE  IInv'
<1>1. CASE EndRetrieve(c)
  BY <1>1, EndRetrieveKeeps
<1>2. CASE EndRewrite(c) \/ EndWeb(c) \/ EndGraph(c)
  <2>1. asked.mode = "stream"
    BY <1>2, CallsAreOfStreams DEF EndRewrite, EndWeb, EndGraph, Running
  <2>0. call' \in [Calls -> CallType]
    BY <1>2, CallsStayTyped DEF EndRewrite, EndWeb, EndGraph, IInv
  <2>2. Typed'
    BY <2>0, <1>2 DEF EndRewrite, EndWeb, EndGraph, IInv, Typed, CallType
  <2>3. BudgetsKept'
    BY <1>2 DEF EndRewrite, EndWeb, EndGraph, IInv, Spent, BudgetsKept
  <2> QED
    BY <2>1, <2>2, <2>3, <1>2, ToolKeeps DEF EndRewrite, EndWeb, EndGraph
<1> QED
  BY <1>1, <1>2 DEF End

LEMMA ClassifyKeeps ==
    ASSUME IInv, Classify
    PROVE  IInv'
<1>1. plan' \in SoundPlan
  <2>1. asked.question \in Questions
    BY DEF IInv, Typed
  <2> QED
    BY <2>1, PlansAreSound DEF Classify
<1>2. Typed'
  BY <1>1 DEF Classify, IInv, Typed, SoundPlan
<1>3. CASE asked.mode = "stream"
  <2>1. phase' = "prefetch"
    BY <1>3 DEF Classify
  <2>2. Phases'
    BY <1>1, <1>3, <2>1 DEF Classify, IInv, Phases
  <2>3. BudgetsKept'
    BY DEF Classify, IInv, Spent, BudgetsKept
  <2>4. Shown'
    BY <1>3, <2>1 DEF Classify, IInv, Shown
  <2> QED
    BY <1>2, <1>3, <2>2, <2>3, <2>4, InStream DEF Classify
<1>4. CASE asked.mode = "response"
  <2>1. phase' = IF plan'.allowRetrieve THEN "first" ELSE "decide"
    BY <1>4 DEF Classify
  <2>2. phase' \in {"first", "decide"} /\ (phase' = "decide" => ~plan'.allowRetrieve)
    BY <2>1
  <2>3. Phases'
    BY <1>1, <1>4, <2>2 DEF Classify, IInv, Phases, AllIdle
  <2>4. Spent' /\ RetryAsksAnew'
    BY <1>4, <2>2 DEF Classify, IInv, Spent, BudgetsKept, RetryAsksAnew
  <2>5. Offered' /\ Evidence'
    BY <2>2 DEF Offered, Evidence, ResponseHasEvidence
  <2>6. Shown'
    BY <1>4, <2>2 DEF Classify, IInv, Shown
  <2> QED
    BY <1>2, <2>3, <2>4, <2>5, <2>6 DEF IInv
<1> QED
  BY <1>3, <1>4 DEF IInv, Typed

LEMMA PrefetchKeeps ==
    ASSUME IInv, Prefetch
    PROVE  IInv'
<1>1. Typed'
  <2>1. graph' \in [prefetched : Graphs \cup {Null}, kept : Graphs \cup {Null}]
    BY DEF Prefetch, IInv, Typed
  <2> QED
    BY <2>1 DEF Prefetch, IInv, Typed
<1>2. Phases' /\ BudgetsKept' /\ Shown'
  BY DEF Prefetch, Streaming, IInv, Phases, Spent, BudgetsKept, Shown
<1> QED
  BY <1>1, <1>2, InStream DEF Prefetch, Streaming

LEMMA SayKeeps ==
    ASSUME IInv, NEW n \in 1..MaxNumber, Say(n)
    PROVE  IInv'
<1>1. Typed'
  BY DEF Say, IInv, Typed
<1>2. Phases' /\ BudgetsKept'
  BY DEF Say, Streaming, IInv, Phases, Spent, BudgetsKept
<1>3. Shown'
  BY DEF Say, Streaming, IInv, Shown
<1> QED
  BY <1>1, <1>2, <1>3, InStream DEF Say, Streaming

LEMMA RequestsAreCalls ==
    Requests \subseteq CallType
<1>1. NoCall \in CallType
  BY RoutingAssumption DEF NoCall, CallType
<1>2. \A t \in Tools : [NoCall EXCEPT !.tool = t] \in CallType
  BY RoutingAssumption DEF NoCall, CallType
<1>3. \A q \in Written : [NoCall EXCEPT !.tool = "retrieve", !.query = q] \in CallType
  <2>1. [NoCall EXCEPT !.tool = "retrieve"] \in CallType
    BY <1>2 DEF Tools
  <2>2. \A r \in CallType : \A q \in Texts : [r EXCEPT !.query = q] \in CallType
    BY DEF CallType
  <2> QED
    BY <2>1, <2>2, RoutingAssumption
<1> QED
  BY <1>1, <1>2, <1>3 DEF Requests

LEMMA CallToolsKeeps ==
    ASSUME IInv, NEW tools \in [Calls -> Requests], CallTools(tools)
    PROVE  IInv'
<1> DEFINE busy == {c \in Calls : tools[c].tool # "none"}
           n == Cardinality(busy)
<1>1. n \in Nat
  BY AgentAssumption, FS_Subset, FS_CardinalityType
<1>2. /\ made.models < MaxModelCalls /\ made.tools + n <= MaxToolCalls
      /\ made' = [made EXCEPT !.models = @ + 1, !.tools = @ + n]
  BY DEF CallTools
<1>3. made \in MadeType
  BY DEF IInv, Typed, MadeType
<1> HIDE DEF n
<1>4. /\ made' \in MadeType /\ made'.searches = made.searches
      /\ made'.rewrites = made.rewrites /\ made'.webs = made.webs
  <2>1. made.models + 1 \in 0..MaxModelCalls /\ made.tools + n \in 0..MaxToolCalls
    BY <1>1, <1>2, <1>3, AgentAssumption DEF MadeType
  <2> QED
    BY <1>2, <1>3, <2>1 DEF MadeType
<1>5. call' \in [Calls -> CallType]
  <2>1. NoCall \in CallType /\ \A r \in CallType : [r EXCEPT !.pc = "called"] \in CallType
    BY RoutingAssumption DEF NoCall, CallType
  <2>2. \A c \in Calls : tools[c] \in CallType
    BY RequestsAreCalls
  <2> QED
    BY <2>1, <2>2 DEF CallTools
<1>6. Typed'
  BY <1>4, <1>5 DEF CallTools, IInv, Typed, MadeType, CallType
<1>7. BudgetsKept'
  BY <1>4 DEF IInv, Spent, BudgetsKept
<1> QED
  BY <1>6, <1>7, ToolKeeps DEF CallTools, Streaming

\* The turn of a stream stores what its answer cites of the chunks shown.
LEMMA StoreIsShown ==
    ASSUME IInv, Store, UNCHANGED <<told, cited>>
    PROVE  /\ stored'.sources \subseteq Numbered(sources, 0)
           /\ \A x \in stored'.sources : x[1] \in stored'.cited
           /\ \A x \in Numbered(sources, 0) : x[1] \in stored'.cited => x \in stored'.sources
<1>1. stored'.sources = CitedSources /\ stored'.cited = cited
  BY DEF Store
<1>2. sources \in Seq(Chunks)
  BY DEF IInv, Typed
<1> QED
  BY <1>1, <1>2, NumberedIs DEF CitedSources

LEMMA StreamEnds ==
    ASSUME IInv, Finish \/ Stop
    PROVE  IInv'
<1>1. asked.mode = "stream" /\ phase' = "over" /\ Store
  BY DEF Finish, Stop, Streaming
<1>2. UNCHANGED <<asked, plan, call, made, last, offer, sources, told, graph, cited>>
  BY DEF Finish, Stop
<1>3. Typed'
  BY <1>1, <1>2 DEF IInv, Typed
<1>4. Phases' /\ BudgetsKept'
  BY <1>1, <1>2 DEF IInv, Phases, Spent, BudgetsKept
<1>5. Shown'
  <2>1. told = Numbered(sources, 0)
    BY <1>1 DEF IInv, Shown
  <2>2. /\ stored'.sources \subseteq Numbered(sources, 0)
        /\ \A x \in stored'.sources : x[1] \in stored'.cited
    BY <1>1, <1>2, StoreIsShown
  <2> QED
    BY <2>1, <2>2, <1>1, <1>2 DEF IInv, Shown
<1> QED
  BY <1>1, <1>2, <1>3, <1>4, <1>5, InStream

-----------------------------------------------------------------------------
(* Steps of a response *)

LEMMA FirstSearchKeeps ==
    ASSUME IInv, FirstSearch
    PROVE  IInv'
<1>1. PICK v \in Verdicts : /\ last' = [query |-> plan.query, ok |-> v.ok]
                            /\ sources' = Hits(v)
                            /\ phase' = IF v.ok \/ v.failed THEN "decide" ELSE "rewrite"
  BY DEF FirstSearch
<1>2. asked.mode = "response" /\ phase = "first" /\ plan \in SoundPlan
  BY DEF FirstSearch, Responding, IInv, Phases
<1>3. plan.query \in Asked /\ plan.query \in Texts
  BY <1>2 DEF SoundPlan, Asked
<1>4. /\ made' = [made EXCEPT !.searches = Append(@, plan.query)]
      /\ made \in MadeType /\ made' \in MadeType /\ made.searches = <<>>
  BY <1>2, <1>3, MadeStaysTyped DEF FirstSearch, IInv, Spent
<1>5. last' \in Answered /\ last'.query = plan.query /\ (last'.ok => sources' # <<>>)
  BY <1>1, <1>3, HitsAre DEF Answered
<1>6. phase' \in {"decide", "rewrite"}
  BY <1>1
<1>7. made'.searches = <<last'.query>> /\ made'.rewrites = made.rewrites /\ made'.webs = made.webs
  BY <1>4, <1>5 DEF MadeType
<1>8. Typed'
  <2>1. sources' \in Seq(Chunks)
    BY <1>1, HitsAre
  <2> QED
    BY <2>1, <1>4, <1>5, <1>6 DEF FirstSearch, IInv, Typed, MadeType
<1>9. Phases'
  BY <1>2, <1>6 DEF FirstSearch, IInv, Phases, AllIdle
<1>10. Spent'
  BY <1>2, <1>5, <1>6, <1>7 DEF FirstSearch, IInv, Spent, BudgetsKept
<1>11. RetryAsksAnew'
  BY <1>7 DEF RetryAsksAnew
<1>12. Offered' /\ Evidence'
  BY <1>5, <1>6 DEF Offered, Evidence, ResponseHasEvidence
<1>13. Shown'
  BY <1>2, <1>6 DEF FirstSearch, IInv, Shown
<1> QED
  BY <1>8, <1>9, <1>10, <1>11, <1>12, <1>13 DEF IInv

LEMMA RewriteKeeps ==
    ASSUME IInv, Rewrite
    PROVE  IInv'
<1>1. asked.mode = "response" /\ phase = "rewrite" /\ plan \in SoundPlan /\ last \in Answered
  BY DEF Rewrite, Responding, IInv, Phases, Spent
<1>2. PICK written \in Written \cup {Null} :
         offer' = RewriteAfterRetrieve(asked.question, last.query, written)
  BY DEF Rewrite
<1>3. offer' \in Texts
      /\ (offer' # Blank => Squeeze[offer'] = offer' /\ Squeeze[offer'] # Squeeze[last.query])
  <2>1. asked.question \in Questions /\ last.query \in Texts
    BY <1>1 DEF IInv, Typed, Answered
  <2> QED
    BY <2>1, <1>2, RewriteIsNew
<1>4. phase' \in {"decide", "second"} /\ (phase' = "second" => offer' # Blank)
  BY DEF Rewrite
<1>5. /\ made' \in MadeType /\ made \in MadeType
      /\ made'.searches = made.searches /\ made'.rewrites = 1 /\ made'.webs = made.webs
  <2>1. made' = [made EXCEPT !.rewrites = @ + 1] /\ made \in MadeType /\ made' \in MadeType
    BY MadeStaysTyped DEF Rewrite, IInv
  <2>2. made.rewrites = 0
    BY <1>1 DEF IInv, Spent
  <2> QED
    BY <2>1, <2>2 DEF MadeType
<1>6. Typed'
  BY <1>3, <1>4, <1>5 DEF Rewrite, IInv, Typed, MadeType
<1>7. Phases'
  BY <1>1, <1>4 DEF Rewrite, IInv, Phases, AllIdle
<1>8. Spent'
  BY <1>1, <1>4, <1>5 DEF Rewrite, IInv, Spent, BudgetsKept
<1>9. RetryAsksAnew'
  BY <1>5 DEF Rewrite, IInv, RetryAsksAnew
<1>10. Offered'
  BY <1>3, <1>4 DEF Rewrite, Offered
<1>11. Evidence'
  BY <1>1, <1>4 DEF Rewrite, IInv, Evidence, ResponseHasEvidence
<1>12. Shown'
  BY <1>1, <1>4 DEF Rewrite, IInv, Shown
<1> QED
  BY <1>6, <1>7, <1>8, <1>9, <1>10, <1>11, <1>12 DEF IInv

LEMMA SecondSearchKeeps ==
    ASSUME IInv, SecondSearch
    PROVE  IInv'
<1>1. PICK v \in Verdicts : last' = [query |-> offer, ok |-> v.ok] /\ sources' = Hits(v)
  BY DEF SecondSearch
<1>2. /\ asked.mode = "response" /\ phase = "second" /\ phase' = "decide"
      /\ plan \in SoundPlan /\ last \in Answered
  BY DEF SecondSearch, Responding, IInv, Phases, Spent
<1>3. offer \in Texts /\ Squeeze[offer] = offer /\ Squeeze[offer] # Squeeze[last.query]
      /\ offer \in Asked
  BY <1>2 DEF IInv, Typed, Offered, Asked
<1>4. last' \in Answered /\ (last'.ok => sources' # <<>>) /\ sources' \in Seq(Chunks)
  BY <1>1, <1>3, HitsAre DEF Answered
<1>5. /\ made' \in MadeType /\ made \in MadeType
      /\ Len(made'.searches) = 2
      /\ made'.searches[1] = last.query /\ made'.searches[2] = offer
      /\ made'.rewrites = made.rewrites /\ made'.webs = made.webs
  <2>1. made' = [made EXCEPT !.searches = Append(@, offer)] /\ made \in MadeType /\ made' \in MadeType
    BY <1>3, MadeStaysTyped DEF SecondSearch, IInv
  <2>2. made.searches = <<last.query>>
    BY <1>2 DEF IInv, Spent
  <2>3. made'.searches = Append(<<last.query>>, offer)
    BY <2>1, <2>2 DEF MadeType
  <2>4. <<last.query>> \in Seq(Texts) /\ Len(<<last.query>>) = 1 /\ offer \in Texts
    BY <1>2, <1>3 DEF Answered
  <2>5. Len(made'.searches) = 2 /\ made'.searches[1] = last.query /\ made'.searches[2] = offer
    BY <2>3, <2>4
  <2> QED
    BY <2>1, <2>5 DEF MadeType
<1>6. Typed'
  BY <1>2, <1>4, <1>5 DEF SecondSearch, IInv, Typed, MadeType
<1>7. Phases'
  BY <1>2 DEF SecondSearch, IInv, Phases, AllIdle
<1>8. Spent'
  BY <1>2, <1>5 DEF SecondSearch, IInv, Spent, BudgetsKept
<1>9. RetryAsksAnew'
  <2>1. DOMAIN made'.searches = 1..2
    BY <1>5 DEF MadeType
  <2> QED
    BY <2>1, <1>3, <1>5 DEF RetryAsksAnew
<1>10. Offered' /\ Evidence'
  BY <1>2, <1>4 DEF Offered, Evidence, ResponseHasEvidence
<1>11. Shown'
  BY <1>2 DEF SecondSearch, IInv, Shown
<1> QED
  BY <1>6, <1>7, <1>8, <1>9, <1>10, <1>11 DEF IInv

LEMMA ReadGraphKeeps ==
    ASSUME IInv, ReadGraph
    PROVE  IInv'
<1>1. Typed'
  BY DEF ReadGraph, IInv, Typed
<1>2. Phases' /\ Spent' /\ Offered'
  BY DEF ReadGraph, IInv, Phases, AllIdle, Spent, BudgetsKept, Offered
<1>3. RetryAsksAnew' /\ Shown'
  BY DEF ReadGraph, IInv, RetryAsksAnew, Shown
<1>4. Evidence'
  BY DEF ReadGraph, IInv, Evidence, ResponseHasEvidence
<1> QED
  BY <1>1, <1>2, <1>3, <1>4 DEF IInv

LEMMA DecideKeeps ==
    ASSUME IInv, Decide
    PROVE  IInv'
<1>1. asked.mode = "response" /\ phase = "decide" /\ plan \in SoundPlan
  BY DEF Decide, Responding, IInv, Phases
<1>2. UNCHANGED <<asked, plan, call, last, offer, sources, graph, cited>>
  BY DEF Decide
<1>3. CASE plan.intent = "kb" /\ KbInsufficient /\ ~HasGraph
  <2>1. phase' = "over" /\ Store /\ UNCHANGED <<made, told>>
    BY <1>3 DEF Decide
  <2>2. Typed' /\ Phases'
    BY <1>1, <1>2, <2>1 DEF IInv, Typed, Phases, AllIdle
  <2>3. Spent' /\ Offered' /\ RetryAsksAnew' /\ Evidence'
    BY <1>1, <1>2, <2>1
       DEF IInv, Spent, BudgetsKept, Offered, RetryAsksAnew, Evidence, ResponseHasEvidence
  <2>4. Shown'
    <3>1. cited = {} /\ stored'.sources = CitedSources
      BY <1>1, <2>1 DEF IInv, Shown, Store
    <3>2. stored'.sources = {}
      BY <3>1 DEF CitedSources
    <3> QED
      BY <3>2, <1>1, <1>2, <2>1 DEF IInv, Shown
  <2> QED
    BY <2>2, <2>3, <2>4 DEF IInv
<1>4. CASE ~(plan.intent = "kb" /\ KbInsufficient /\ ~HasGraph)
  <2> DEFINE n == IF plan.allowWeb /\ (~plan.allowRetrieve \/ KbInsufficient) THEN 1 ELSE 0
  <2>1. /\ phase' = "llm" /\ told' = Numbered(sources, 0) /\ stored' = stored
        /\ made' = [made EXCEPT !.webs = @ + n]
    BY <1>4 DEF Decide
  <2>2. n \in {0, 1}
    OBVIOUS
  <2> HIDE DEF n
  <2>3. /\ made' \in MadeType /\ made'.searches = made.searches
        /\ made'.rewrites = made.rewrites /\ made'.webs <= 1
    <3>1. made \in MadeType /\ made' \in MadeType
      BY <2>1, <2>2, MadeStaysTyped DEF IInv
    <3>2. made.webs = 0
      BY <1>1 DEF IInv, Spent
    <3> QED
      BY <2>1, <2>2, <3>1, <3>2 DEF MadeType
  <2>4. Typed'
    BY <1>2, <2>1, <2>3 DEF IInv, Typed, MadeType
  <2>5. Phases'
    BY <1>1, <1>2, <2>1 DEF IInv, Phases, AllIdle
  <2>6. Spent' /\ Offered' /\ RetryAsksAnew'
    BY <1>1, <1>2, <2>1, <2>3 DEF IInv, Spent, BudgetsKept, Offered, RetryAsksAnew
  <2>7. Evidence'
    <3>1. CASE HasGraph
      BY <3>1, <1>2, <2>1 DEF HasGraph, Evidence, ResponseHasEvidence
    <3>2. CASE ~HasGraph /\ plan.intent = "kb"
      <4>1. last \in Answered /\ (last.ok => sources # <<>>)
        BY <1>1, <3>2 DEF SoundPlan, IInv, Evidence
      <4>2. last # Null /\ ~KbInsufficient
        BY <4>1, <1>4, <3>2, AgentAssumption DEF Answered
      <4> QED
        BY <4>1, <4>2, <1>2, <2>1 DEF KbInsufficient, Evidence, ResponseHasEvidence
    <3>3. CASE plan.intent # "kb"
      BY <3>3, <1>2, <2>1 DEF Evidence, ResponseHasEvidence
    <3> QED
      BY <3>1, <3>2, <3>3
  <2>8. Shown'
    <3>1. told = {} /\ cited = {}
      BY <1>1 DEF IInv, Shown
    <3> QED
      BY <3>1, <1>1, <1>2, <2>1 DEF IInv, Shown
  <2> QED
    BY <2>4, <2>5, <2>6, <2>7, <2>8 DEF IInv
<1> QED
  BY <1>3, <1>4

LEMMA AnswerKeeps ==
    ASSUME IInv, Answer
    PROVE  IInv'
<1>1. /\ asked.mode = "response" /\ phase = "llm" /\ phase' = "over"
      /\ UNCHANGED <<asked, plan, call, made, last, offer, sources, told, graph>>
  BY DEF Answer, Responding
<1>2. cited' \subseteq 1..MaxNumber
  BY DEF Answer, IInv, Typed
<1>3. Typed' /\ Phases'
  BY <1>1, <1>2 DEF IInv, Typed, Phases, AllIdle
<1>4. Spent' /\ Offered' /\ RetryAsksAnew' /\ Evidence'
  BY <1>1 DEF IInv, Spent, BudgetsKept, Offered, RetryAsksAnew, Evidence, ResponseHasEvidence
<1>5. told' = Numbered(sources, 0)
  BY <1>1 DEF IInv, Shown
<1>6. stored' # Null => stored'.sources \subseteq told'
  <2>1. CASE UNCHANGED <<cited, stored>>
    BY <2>1, <1>1 DEF IInv, Shown
  <2>2. ASSUME NEW C \in SUBSET (1..MaxNumber),
               stored'.sources = {x \in Numbered(sources, 0) :
                                    C \cap DOMAIN sources = {} \/ x[1] \in C}
        PROVE  stored'.sources \subseteq told'
    BY <2>2, <1>5
  <2> QED
    BY <2>1, <2>2 DEF Answer
<1>7. Shown'
  BY <1>1, <1>5, <1>6 DEF Shown
<1> QED
  BY <1>3, <1>4, <1>7 DEF IInv

LEMMA StutterKeeps ==
    ASSUME IInv, UNCHANGED agentVars
    PROVE  IInv'
  BY DEF agentVars, IInv, Typed, Phases, AllIdle, Spent, BudgetsKept, Offered, RetryAsksAnew,
         Shown, Evidence, ResponseHasEvidence

-----------------------------------------------------------------------------
(* The theorems *)

LEMMA StepKeeps ==
    ASSUME IInv, [Next]_agentVars
    PROVE  IInv'
<1>1. CASE Classify \/ Prefetch
  BY <1>1, ClassifyKeeps, PrefetchKeeps
<1>2. ASSUME NEW n \in 1..MaxNumber, Say(n)
      PROVE  IInv'
  BY <1>2, SayKeeps
<1>3. ASSUME NEW tools \in [Calls -> {r \in Requests : plan # Null /\ r.tool \in Allowed \cup {"none"}}],
             CallTools(tools)
      PROVE  IInv'
  <2>1. tools \in [Calls -> Requests]
    OBVIOUS
  <2> QED
    BY <2>1, <1>3, CallToolsKeeps
<1>4. ASSUME NEW c \in Calls, Start(c) \/ End(c)
      PROVE  IInv'
  BY <1>4, StartKeeps, EndKeeps
<1>5. CASE Finish \/ Stop
  BY <1>5, StreamEnds
<1>6. CASE FirstSearch \/ Rewrite \/ SecondSearch
  BY <1>6, FirstSearchKeeps, RewriteKeeps, SecondSearchKeeps
<1>7. CASE ReadGraph \/ Decide \/ Answer
  BY <1>7, ReadGraphKeeps, DecideKeeps, AnswerKeeps
<1>8. CASE UNCHANGED agentVars
  BY <1>8, StutterKeeps
<1> QED
  BY <1>1, <1>2, <1>3, <1>4, <1>5, <1>6, <1>7, <1>8 DEF Next

LEMMA AlwaysIInv ==
    Spec => []IInv
<1>1. IInv /\ [Next]_agentVars => IInv'
  BY StepKeeps
<1> QED
  BY <1>1, InitIInv, PTL DEF Spec

\* A question, its plan, its calls, what was spent and what was found keep
\* their types, and no search is made with an empty query.
THEOREM AgentTypeCorrect ==
    Spec => []TypeOK
<1>1. ASSUME IInv
      PROVE  TypeOK
  <2>1. Typed /\ Shown
    BY <1>1 DEF IInv
  <2>2. told \subseteq Nat \X Chunks
    <3> SUFFICES ASSUME NEW x \in told
                 PROVE  x \in Nat \X Chunks
      OBVIOUS
    <3>1. sources \in Seq(Chunks) /\ x \in Numbered(sources, 0)
      BY <2>1 DEF Typed, Shown
    <3>2. PICK i \in DOMAIN sources : x = <<0 + i, sources[i]>>
      BY <3>1 DEF Numbered
    <3>3. 0 + i \in Nat /\ sources[i] \in Chunks
      BY <3>1
    <3> QED
      BY <3>2, <3>3
  <2>3. \A c \in Calls : /\ call[c].tool \in Tools \cup {"none"} /\ call[c].query \in Texts
                         /\ call[c].pc \in {"idle", "called", "running"}
    BY <2>1 DEF Typed
  <2>4. /\ made.searches \in Seq({t \in Texts : Squeeze[t] # Blank})
        /\ made.models \in 0..MaxModelCalls /\ made.tools \in 0..MaxToolCalls
    BY <2>1 DEF Typed, Asked
  <2>5. last = Null \/ (last.query \in Texts /\ last.ok \in BOOLEAN)
    BY <2>1 DEF Typed, Answered
  <2>6. {graph.prefetched, graph.kept} \subseteq Graphs \cup {Null}
    BY <2>1 DEF Typed
  <2> QED
    BY <2>1, <2>2, <2>3, <2>4, <2>5, <2>6 DEF Typed, TypeOK
<1> QED
  BY <1>1, AlwaysIInv, PTL

\* The tools keep their budgets: two searches, one rewriting, one web search a
\* turn, for any number of calls made at once and whatever the model asks for.
THEOREM BudgetsHold ==
    Spec => []BudgetsKept
<1>1. IInv => BudgetsKept
  BY DEF IInv, Spent
<1> QED
  BY <1>1, AlwaysIInv, PTL

\* A number names one chunk for good in whatever order the searches end, and
\* the turn stores under it the chunk the model was shown.
THEOREM CitationsHold ==
    Spec => []CitationsResolve
<1>1. ASSUME IInv
      PROVE  CitationsResolve
  <2>1. \A x \in told : x[1] \in DOMAIN sources /\ sources[x[1]] = x[2]
    <3> SUFFICES ASSUME NEW x \in told
                 PROVE  x[1] \in DOMAIN sources /\ sources[x[1]] = x[2]
      OBVIOUS
    <3>1. sources \in Seq(Chunks) /\ x \in Numbered(sources, 0)
      BY <1>1 DEF IInv, Typed, Shown
    <3>2. x[1] \in DOMAIN sources /\ x = <<x[1], sources[x[1]]>>
      BY <3>1, NumberedIs
    <3> QED
      BY <3>2
  <2> QED
    BY <1>1, <2>1 DEF IInv, Shown, CitationsResolve
<1> QED
  BY <1>1, AlwaysIInv, PTL

\* A response writes about the knowledge base only with chunks judged relevant
\* or a graph at hand, whatever order the graph and the searches end in.
THEOREM EvidenceHolds ==
    Spec => []ResponseHasEvidence
<1>1. IInv => ResponseHasEvidence
  BY DEF IInv, Evidence
<1> QED
  BY <1>1, AlwaysIInv, PTL

\* A response does not search twice for the same, however the model rewrites.
THEOREM RetriesAskAnew ==
    Spec => []RetryAsksAnew
<1>1. IInv => RetryAsksAnew
  BY DEF IInv
<1> QED
  BY <1>1, AlwaysIInv, PTL

\* The turn is stored with every source its answer cites of those shown, also
\* when it is stopped while searches run.
THEOREM CitedAreStored ==
    Spec => CitedIsStored
<1> DEFINE Kept == stored = Null /\ stored' # Null =>
                      \A x \in told : x[1] \in stored'.cited => x \in stored'.sources
<1>1. ASSUME IInv, [Next]_agentVars, stored = Null, stored' # Null
      PROVE  \A x \in told : x[1] \in stored'.cited => x \in stored'.sources
  <2>1. told \subseteq Numbered(sources, 0)
    BY <1>1 DEF IInv, Shown
  <2>2. CASE Finish \/ Stop \/ (Decide /\ Store)
    <3>1. CASE Finish \/ Stop
      <4>1. Store /\ UNCHANGED <<told, cited>>
        BY <3>1 DEF Finish, Stop
      <4> QED
        BY <4>1, <2>1, <1>1, StoreIsShown
    <3>2. CASE Decide /\ Store
      <4>1. told = {}
        BY <3>2, <1>1 DEF Decide, Responding, IInv, Shown
      <4> QED
        BY <4>1
    <3> QED
      BY <2>2, <3>1, <3>2
  <2>3. CASE Answer
    <3>1. PICK C \in SUBSET (1..MaxNumber) :
             stored' = [sources |-> {x \in Numbered(sources, 0) :
                                        C \cap DOMAIN sources = {} \/ x[1] \in C},
                        graph |-> graph.kept, cited |-> C]
      BY <2>3, <1>1 DEF Answer
    <3>2. /\ stored'.cited = C
          /\ stored'.sources = {x \in Numbered(sources, 0) :
                                  C \cap DOMAIN sources = {} \/ x[1] \in C}
      BY <3>1
    <3> QED
      BY <3>2, <2>1
  <2>4. Finish \/ Stop \/ (Decide /\ Store) \/ Answer
    BY <1>1 DEF Next, agentVars, Classify, Prefetch, Say, CallTools, Start, StartRetrieve,
                StartRewrite, StartWeb, StartGraph, End, EndRetrieve, EndRewrite, EndWeb,
                EndGraph, FirstSearch, Rewrite, SecondSearch, ReadGraph, Decide
  <2> QED
    BY <2>2, <2>3, <2>4
<1>2. IInv /\ [Next]_agentVars => [Kept]_agentVars
  BY <1>1
<1> QED
  BY <1>2, AlwaysIInv, PTL DEF Spec, CitedIsStored
=============================================================================
