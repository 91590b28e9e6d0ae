---------------------------- MODULE ChatRouting ----------------------------
(***************************************************************************)
(* The decisions a turn of the chat takes without state: the intent of a    *)
(* question and the tools it allows (ChatQueryRewriteService, diagram-       *)
(* intent), the query of a second search, the verdict on what a search       *)
(* found.  What the language models answer is left open.                    *)
(***************************************************************************)
EXTENDS Naturals, Sequences

CONSTANTS
    Texts,          \* questions and queries
    Questions,      \* what users ask
    Written,        \* what the models write as a query
    Trim,           \* Trim[t]: t without white space at its ends
    Squeeze,        \* Squeeze[t]: t trimmed, and its white space squeezed
    Blank,          \* the empty text
    Greetings,      \* texts the greeting rule takes
    Diagrams,       \* texts that ask for a drawn diagram
    Marks,          \* texts of punctuation only
    Results,        \* the chunk lists a search may return
    Null

ASSUME RoutingAssumption ==
    /\ {Blank} \cup Questions \cup Written \subseteq Texts
    /\ Trim \in [Texts -> Texts] /\ Squeeze \in [Texts -> Texts]
    /\ \A t \in Texts : Squeeze[Squeeze[t]] = Squeeze[t] /\ Squeeze[Trim[t]] = Squeeze[t]
    /\ \A t \in Texts : Trim[t] # Blank => Squeeze[t] # Blank
    /\ Greetings \cup Diagrams \cup Marks \subseteq Texts
    /\ Greetings \cap Diagrams = {}
    /\ \A q \in Questions : Squeeze[q] # Blank
    /\ <<>> \in Results

-----------------------------------------------------------------------------
(* Intent *)

Intents == {"chitchat", "profile", "kb", "web", "kb_then_web"}
PlanType == [intent : Intents, query : Texts, names : BOOLEAN,
             allowRetrieve : BOOLEAN, allowGraph : BOOLEAN, allowWeb : BOOLEAN]

\* names: whether there are graphQueries.
ToPlan(intent, query, names) ==
    LET kb == intent \in {"kb", "kb_then_web"}
    IN  [intent |-> intent, query |-> query, names |-> kb /\ names,
         allowRetrieve |-> kb, allowGraph |-> kb,
         allowWeb |-> intent \in {"web", "kb_then_web"}]

\* Mutant: a text of white space is kept.
OrElse_Kept(text, other) == IF text = Blank THEN other ELSE text

\* trim() || other
OrElse(text, other) == IF Trim[text] = Blank THEN other ELSE Trim[text]

\* What the model may answer about a question, once it fits the schema.
Routes == [intent : Intents, text : Written, names : BOOLEAN]

\* Greetings are recognised by rule; when the model fails, a question counts
\* as one for the knowledge base.
Classified(question) ==
    IF question \in Greetings THEN {ToPlan("chitchat", question, FALSE)}
    ELSE {ToPlan("kb", question, FALSE)}
           \cup {ToPlan(r.intent, OrElse(r.text, question), r.names) : r \in Routes}

\* A diagram is drawn in the answer: the graph is left out.
ApplyMermaidDiagramPlan(plan, question) ==
    IF question \notin Diagrams THEN plan
    ELSE [plan EXCEPT !.allowGraph = FALSE, !.names = FALSE]

Plans(question) == {ApplyMermaidDiagramPlan(p, question) : p \in Classified(question)}

\* resolveGraphKeywords: the names of the plan, or parts of its query.
HasGraphKeywords(plan) == plan.names \/ plan.query \notin Marks

-----------------------------------------------------------------------------
(* Search, verdict, second query *)

\* retrieveAndGrade: the search fails, finds nothing, or finds chunks that are
\* judged relevant or not; a judge that fails lets them pass.
Verdict == [ok : BOOLEAN, failed : BOOLEAN, hits : Results]
Verdicts ==
    {v \in Verdict : /\ v.hits = <<>> => ~v.ok
                     /\ v.failed => ~v.ok /\ v.hits = <<>>}

\* Only what was judged relevant is handed on.
Hits(verdict) == IF verdict.ok THEN verdict.hits ELSE <<>>

\* Mutant: the texts are compared as they come.
DistinctQuery_Raw(next, previous) == IF next = previous THEN Blank ELSE Squeeze[next]

DistinctQuery(next, previous) ==
    IF Squeeze[next] = Squeeze[previous] THEN Blank ELSE Squeeze[next]

\* rewriteAfterRetrieve: the model's query, else the question, Blank when both
\* repeat the query before; written is Null when the model failed.
RewriteAfterRetrieve(question, previous, written) ==
    IF written # Null /\ DistinctQuery(Trim[written], previous) # Blank
    THEN DistinctQuery(Trim[written], previous)
    ELSE DistinctQuery(question, previous)
=============================================================================
