-------------------------------- MODULE Chat --------------------------------
(***************************************************************************)
(* Conversations: ChatSessionService keeps sessions and messages in        *)
(* Postgres, ChatShortMemoryService a window of recent messages in Redis,   *)
(* ChatLongMemoryService facts in Mem0.  AiChatService.chat answers in one   *)
(* response; AiStreamService.streamChat streams, may be stopped by the      *)
(* client at any moment, and stores what there is when the stream ends.     *)
(*                                                                         *)
(* Every await is a step.  A stop runs onFinish at once, while the loading  *)
(* of the history that execute had started goes on: a turn therefore has    *)
(* two places, pc and loading.  Sessions belong to one user here; those of  *)
(* others are never found (getOwned) and their windows have other keys.     *)
(***************************************************************************)
EXTENDS Naturals, Sequences, FiniteSets

CONSTANTS
    Sessions, Turns, Ops,
    MaxWindow,      \* CHAT_SHORT_MEMORY_MAX_MESSAGES
    MaxFaults,      \* bound on Redis calls that fail
    MaxRacing,      \* bound on the turns asked when they may overlap
    EarlyStops,     \* whether a calm turn may be stopped before its history is loaded
    Null

ASSUME ChatAssumption ==
    /\ MaxWindow \in Nat \ {0} /\ {MaxFaults, MaxRacing} \subseteq Nat
    /\ EarlyStops \in BOOLEAN
    /\ Null \notin Sessions /\ Sessions # {}

VARIABLES
    sess,       \* kh_ai_session: a partial function from ids to titles
    db,         \* db[s]: the rows of kh_ai_message with session id s, in order
    window,     \* window[s]: the Redis value, Null when there is none
    remembered, \* the turns whose question was given to Mem0
    turn,       \* the questions asked
    op,         \* the session requests: rename, remove
    faults,
    calm,       \* whether requests on one session are kept apart
    cascade     \* whether the table has the foreign key of init.sql:59; the
                \* migrations create it without one

chatVars == <<sess, db, window, remembered, turn, op, faults, calm, cascade>>

-----------------------------------------------------------------------------
Titles == {"default", "question", "given"}
Answers == {"whole", "interrupted", "failed"}
Messages == [turn : Turns, role : {"user", "assistant"}, text : Answers \cup {"question"}]

TurnPC == {"new", "touch", "touchSave", "create", "history", "answer",
           "persist", "persistSession", "persistMessages", "cache", "done"}
Unasked == [pc |-> "new", kind |-> "none", session |-> Null, loading |-> "no", history |-> <<>>,
            cancelled |-> FALSE, answer |-> "whole", title |-> Null]
NoOp == [pc |-> "new", kind |-> "none", session |-> Null]

TypeOK ==
    /\ DOMAIN sess \subseteq Sessions /\ \A s \in DOMAIN sess : sess[s] \in Titles
    /\ db \in [Sessions -> Seq(Messages)]
    /\ \A s \in Sessions : window[s] # Null =>
                              window[s] \in Seq(Messages) /\ Len(window[s]) \in 1..MaxWindow
    /\ remembered \subseteq Turns
    /\ turn \in [Turns -> [pc : TurnPC, kind : {"none", "chat", "stream", "speech"},
                           session : Sessions \cup {Null},
                           loading : {"no", "try", "rows", "fill", "loaded"},
                           history : Seq(Messages), cancelled : BOOLEAN, answer : Answers,
                           title : Titles \cup {Null}]]
    /\ \A o \in Ops : op[o].pc \in {"new", "rename", "messages", "session", "done"}
    /\ faults \in 0..MaxFaults

\* One session exists, as POST sessions creates it.
Init ==
    /\ sess = [x \in {CHOOSE s \in Sessions : TRUE} |-> "default"]
    /\ db = [s \in Sessions |-> <<>>]
    /\ window = [s \in Sessions |-> Null]
    /\ remembered = {}
    /\ turn = [t \in Turns |-> Unasked]
    /\ op = [o \in Ops |-> NoOp]
    /\ faults = 0
    /\ calm \in BOOLEAN
    /\ cascade \in BOOLEAN /\ (calm => ~cascade)   \* it cannot matter then

-----------------------------------------------------------------------------
(* Helpers *)

Exists(s) == s \in DOMAIN sess
\* save() writes every column of an entity, as an INSERT if the row is gone.
Save(s, title) == sess' = [x \in DOMAIN sess \cup {s} |-> IF x = s THEN title ELSE sess[x]]

Range2(seq) == {seq[i] : i \in DOMAIN seq}
LastOf(seq, n) == SubSeq(seq, IF Len(seq) > n THEN Len(seq) - n + 1 ELSE 1, Len(seq))

Running(t) == turn[t].pc \notin {"new", "done"}
OpRunning(o) == op[o].pc \notin {"new", "done"}
Busy(s) == \/ \E t \in Turns : (Running(t) \/ turn[t].loading \in {"try", "rows", "fill"})
                                /\ turn[t].session = s
           \/ \E o \in Ops : OpRunning(o) /\ op[o].session = s

Move(t, pc) == turn' = [turn EXCEPT ![t].pc = pc]
\* What a turn that is over leaves behind: its loading may still be running.
Over(r) == [Unasked EXCEPT !.pc = "done", !.session = r.session, !.cancelled = r.cancelled,
                           !.loading = IF r.loading = "loaded" THEN "no" ELSE r.loading,
                           !.history = IF r.loading = "fill" THEN r.history ELSE <<>>]
Finish(t) == turn' = [turn EXCEPT ![t] = Over(@)]
Fault == faults < MaxFaults /\ ~calm /\ faults' = faults + 1

\* A title is replaced by the question only while it is the default.
Retitled(title) == IF title = "default" THEN "question" ELSE title

QuestionOf(t) == [turn |-> t, role |-> "user", text |-> "question"]
AnswerOf(t) == [turn |-> t, role |-> "assistant", text |-> turn[t].answer]

\* Mutant: the window keeps growing.
Store_Unbounded(s, messages) == window' = [window EXCEPT ![s] = messages]

\* ChatShortMemoryService.save: the last MaxWindow messages ...
Store(s, messages) == window' = [window EXCEPT ![s] = LastOf(messages, MaxWindow)]

\* ... and a failure is logged.
SaveWindow(s, messages) ==
    \/ Store(s, messages) /\ UNCHANGED faults
    \/ UNCHANGED window /\ Fault

-----------------------------------------------------------------------------
(* The start of a turn *)

\* The history is loaded next, unless the client has left before the stream
\* was made: then it is cancelled as soon as it exists.
ToHistory(r) ==
    IF r.cancelled THEN [r EXCEPT !.pc = "persist", !.answer = "interrupted"]
                   ELSE [r EXCEPT !.pc = "history", !.loading = "try"]

Unused == {s \in Sessions : /\ ~Exists(s) /\ db[s] = <<>> /\ window[s] = Null
                            /\ \A o \in Ops : op[o].session # s
                            /\ \A t \in Turns : turn[t].session # s}

\* Bound: an id is left for every turn that has no session yet.
IdLeft == Cardinality({t \in Turns : Running(t) /\ turn[t].session = Null}) < Cardinality(Unused)

\* chat without a session starts from an empty history; a spoken answer needs
\* its session before the stream, so it is touched or created first.
Ask(t, kind, s) ==
    /\ turn[t].pc = "new"
    /\ ~calm => Cardinality({u \in Turns : turn[u].pc # "new"}) < MaxRacing
    /\ IF s = Null THEN IdLeft ELSE Exists(s) /\ (calm => ~Busy(s))
    /\ turn' = [turn EXCEPT ![t] =
         LET r == [@ EXCEPT !.kind = kind, !.session = s]
         IN  IF s = Null THEN [r EXCEPT !.pc = IF kind = "chat" THEN "answer" ELSE "create",
                                        !.loading = IF kind = "chat" THEN "loaded" ELSE "no"]
             ELSE IF kind = "speech" THEN [r EXCEPT !.pc = "touch"]
             ELSE ToHistory(r)]
    /\ UNCHANGED <<sess, db, window, remembered, op, faults, calm, cascade>>

\* create: a new id, the question as title.  A stream that was stopped in the
\* meantime has ended without knowing the session.
Create(t) ==
    /\ turn[t].pc = "create"
    /\ \E s \in Unused :
        /\ Save(s, "question")
        /\ turn' = [turn EXCEPT ![t] =
                      IF @.cancelled /\ @.kind = "stream" THEN Over(@)
                      ELSE ToHistory([@ EXCEPT !.session = s])]
    /\ UNCHANGED <<db, window, remembered, op, faults, calm, cascade>>

\* touchTitle reads the session ...
Touch(t) ==
    /\ turn[t].pc = "touch"
    /\ IF Exists(turn[t].session)
       THEN turn' = [turn EXCEPT ![t].pc = "touchSave",
                                 ![t].title = Retitled(sess[turn[t].session])]
       ELSE Finish(t)
    /\ UNCHANGED <<sess, db, window, remembered, op, faults, calm, cascade>>

\* ... and saves it.
TouchSave(t) ==
    /\ turn[t].pc = "touchSave"
    /\ Save(turn[t].session, turn[t].title)
    /\ turn' = [turn EXCEPT ![t] = ToHistory(@)]
    /\ UNCHANGED <<db, window, remembered, op, faults, calm, cascade>>

-----------------------------------------------------------------------------
(* loadWorkingHistory.  It may still run when the turn has been stopped; its *)
(* result then reaches onFinish if it comes before the window is saved.     *)

Loaded(r, history) ==
    IF r.pc = "done" THEN Over([r EXCEPT !.loading = "loaded"])
    ELSE [r EXCEPT !.loading = "loaded", !.history = history,
                   !.pc = IF @ = "history" THEN "answer" ELSE @]

\* tryLoad: the window, or on a miss or a failure the database.
TryLoad(t) ==
    /\ turn[t].loading = "try"
    /\ LET cached == window[turn[t].session]
       IN  \/ /\ cached # Null
              /\ turn' = [turn EXCEPT ![t] = Loaded(@, cached)]
              /\ UNCHANGED faults
           \/ /\ IF cached = Null THEN UNCHANGED faults ELSE Fault
              /\ turn' = [turn EXCEPT ![t].loading = "rows"]
    /\ UNCHANGED <<sess, db, window, remembered, op, calm, cascade>>

\* The session is not found: chat answers 404; a stream ends with an error,
\* which onFinish cannot store either.
NotFound(r) == IF r.pc \in {"history", "done"} THEN Over([r EXCEPT !.loading = "loaded"])
               ELSE [r EXCEPT !.loading = "loaded"]

\* Mutant: ORDER BY createdAt ASC.
LoadRows_Oldest(t) ==
    /\ turn[t].loading = "rows"
    /\ LET s == turn[t].session
           rows == SubSeq(db[s], 1, IF Len(db[s]) < MaxWindow THEN Len(db[s]) ELSE MaxWindow)
       IN  turn' = [turn EXCEPT ![t] =
                      IF ~Exists(s) THEN NotFound(@)
                      ELSE IF rows = <<>> THEN Loaded(@, rows)
                      ELSE [@ EXCEPT !.loading = "fill", !.history = rows]]
    /\ UNCHANGED <<sess, db, window, remembered, op, faults, calm, cascade>>

\* listRecentMessages: the last MaxWindow rows, oldest first.
LoadRows(t) ==
    /\ turn[t].loading = "rows"
    /\ LET s == turn[t].session
           rows == LastOf(db[s], MaxWindow)
       IN  turn' = [turn EXCEPT ![t] =
                      IF ~Exists(s) THEN NotFound(@)
                      ELSE IF rows = <<>> THEN Loaded(@, rows)
                      ELSE [@ EXCEPT !.loading = "fill", !.history = rows]]
    /\ UNCHANGED <<sess, db, window, remembered, op, faults, calm, cascade>>

\* The rows fill the window.
Fill(t) ==
    /\ turn[t].loading = "fill"
    /\ SaveWindow(turn[t].session, turn[t].history)
    /\ turn' = [turn EXCEPT ![t] = Loaded(@, @.history)]
    /\ UNCHANGED <<sess, db, remembered, op, calm, cascade>>

-----------------------------------------------------------------------------
(* The answer and its end *)

\* The answer is complete, or the model failed: chat then throws, a stream
\* ends with a text saying so.
Answer(t) ==
    /\ turn[t].pc = "answer"
    /\ \/ Move(t, "persist")
       \/ IF turn[t].kind = "chat" THEN Finish(t)
          ELSE turn' = [turn EXCEPT ![t].pc = "persist", ![t].answer = "failed"]
    /\ UNCHANGED <<sess, db, window, remembered, op, faults, calm, cascade>>

\* Mutant: onFinish returns when the stream was cancelled.
Stop_StoresNothing(t) ==
    /\ turn[t].kind \in {"stream", "speech"} /\ ~turn[t].cancelled
    /\ turn[t].pc \in {"history", "answer"}
    /\ turn' = [turn EXCEPT ![t] = Over([@ EXCEPT !.cancelled = TRUE])]
    /\ UNCHANGED <<sess, db, window, remembered, op, faults, calm, cascade>>

\* The client stops the stream or leaves: onFinish runs at once, without a
\* session to store into when none was created yet (Create goes on to its end).
\* Before the stream exists the abort is only noted.
Stop(t) ==
    /\ turn[t].kind \in {"stream", "speech"} /\ ~turn[t].cancelled
    /\ turn[t].pc \in {"touch", "touchSave", "create", "history", "answer"}
    /\ (calm /\ ~EarlyStops) => turn[t].pc = "answer"
    /\ turn' = [turn EXCEPT ![t] =
         LET r == [@ EXCEPT !.cancelled = TRUE, !.answer = "interrupted"]
         IN  IF r.pc \in {"history", "answer"} THEN [r EXCEPT !.pc = "persist"]
             ELSE r]
    /\ UNCHANGED <<sess, db, window, remembered, op, faults, calm, cascade>>

\* appendTurn finds the session or, for a chat without one, makes it ...
Persist(t) ==
    /\ turn[t].pc = "persist"
    /\ LET s == turn[t].session
       IN  IF s = Null
           THEN \E new \in Unused :
                  /\ Save(new, "question")
                  /\ turn' = [turn EXCEPT ![t].pc = "persistSession", ![t].session = new,
                                          ![t].title = "question"]
           ELSE /\ IF Exists(s)
                   THEN turn' = [turn EXCEPT ![t].pc = "persistSession",
                                             ![t].title = Retitled(sess[s])]
                   ELSE Finish(t)
                /\ UNCHANGED sess
    /\ UNCHANGED <<db, window, remembered, op, faults, calm, cascade>>

\* Mutant: the window is saved before the messages.
PersistSession_CachesToo(t) ==
    /\ turn[t].pc = "persistSession"
    /\ Save(turn[t].session, turn[t].title)
    /\ Store(turn[t].session, turn[t].history \o <<QuestionOf(t), AnswerOf(t)>>)
    /\ Move(t, "persistMessages")
    /\ UNCHANGED <<db, remembered, op, faults, calm, cascade>>

\* ... saves the session as it was read ...
PersistSession(t) ==
    /\ turn[t].pc = "persistSession"
    /\ Save(turn[t].session, turn[t].title)
    /\ Move(t, "persistMessages")
    /\ UNCHANGED <<db, window, remembered, op, faults, calm, cascade>>

\* ... and inserts both messages in one transaction.
PersistMessages(t) ==
    /\ turn[t].pc = "persistMessages"
    /\ IF cascade /\ ~Exists(turn[t].session)
       THEN Finish(t) /\ UNCHANGED db
       ELSE /\ db' = [db EXCEPT ![turn[t].session] = @ \o <<QuestionOf(t), AnswerOf(t)>>]
            /\ Move(t, "cache")
    /\ UNCHANGED <<sess, window, remembered, op, faults, calm, cascade>>

\* Mutant: an interrupted turn is remembered as well.
Cache_RemembersAll(t) ==
    /\ turn[t].pc = "cache"
    /\ SaveWindow(turn[t].session, turn[t].history \o <<QuestionOf(t), AnswerOf(t)>>)
    /\ remembered' \in {remembered, remembered \cup {t}}
    /\ Finish(t)
    /\ UNCHANGED <<sess, db, op, calm, cascade>>

\* The window becomes the history this turn was answered with, and the turn.
\* rememberTurn classifies it and may write its question, unless interrupted.
Cache(t) ==
    /\ turn[t].pc = "cache"
    /\ SaveWindow(turn[t].session, turn[t].history \o <<QuestionOf(t), AnswerOf(t)>>)
    /\ remembered' \in {remembered, remembered \cup IF turn[t].cancelled THEN {} ELSE {t}}
    /\ Finish(t)
    /\ UNCHANGED <<sess, db, op, calm, cascade>>

-----------------------------------------------------------------------------
(* Session requests *)

\* rename and remove find the session; rename's entity is saved as read but
\* for the title.
OpStart(o, kind, s) ==
    /\ op[o].pc = "new" /\ Exists(s)
    /\ calm => ~Busy(s)
    /\ op' = [op EXCEPT ![o] = [kind |-> kind, session |-> s,
                                pc |-> IF kind = "rename" THEN "rename" ELSE "messages"]]
    /\ UNCHANGED <<sess, db, window, remembered, turn, faults, calm, cascade>>

Rename(o) ==
    /\ op[o].pc = "rename"
    /\ Save(op[o].session, "given")
    /\ op' = [op EXCEPT ![o].pc = "done"]
    /\ UNCHANGED <<db, window, remembered, turn, faults, calm, cascade>>

\* remove deletes the messages, then the session; the foreign key takes what
\* was inserted in between.  Neither the window nor Mem0 is cleared.
RemoveMessages(o) ==
    /\ op[o].pc = "messages"
    /\ db' = [db EXCEPT ![op[o].session] = <<>>]
    /\ op' = [op EXCEPT ![o].pc = "session"]
    /\ UNCHANGED <<sess, window, remembered, turn, faults, calm, cascade>>

RemoveSession(o) ==
    /\ op[o].pc = "session"
    /\ sess' = [s \in DOMAIN sess \ {op[o].session} |-> sess[s]]
    /\ db' = IF cascade THEN [db EXCEPT ![op[o].session] = <<>>] ELSE db
    /\ op' = [op EXCEPT ![o].pc = "done"]
    /\ UNCHANGED <<window, remembered, turn, faults, calm, cascade>>

\* The time to live of a window runs out.
Expire(s) ==
    /\ window[s] # Null
    /\ window' = [window EXCEPT ![s] = Null]
    /\ UNCHANGED <<sess, db, remembered, turn, op, faults, calm, cascade>>

-----------------------------------------------------------------------------
Load(t) == TryLoad(t) \/ LoadRows(t) \/ Fill(t)

TurnStep(t) ==
    \/ Create(t) \/ Touch(t) \/ TouchSave(t) \/ Answer(t)
    \/ Persist(t) \/ PersistSession(t) \/ PersistMessages(t) \/ Cache(t)

OpStep(o) == Rename(o) \/ RemoveMessages(o) \/ RemoveSession(o)

Next ==
    \/ \E t \in Turns : \/ \E kind \in {"chat", "stream", "speech"}, s \in Sessions \cup {Null} :
                             Ask(t, kind, s)
                        \/ TurnStep(t) \/ Load(t) \/ Stop(t)
    \/ \E o \in Ops : OpStep(o) \/ \E kind \in {"rename", "remove"}, s \in Sessions :
                                      OpStart(o, kind, s)
    \/ \E s \in Sessions : Expire(s)

Spec == Init /\ [][Next]_chatVars

-----------------------------------------------------------------------------
(* Properties *)

Removing(s) == \E o \in Ops : op[o].kind = "remove" /\ op[o].session = s
Stored(t) == turn[t].session # Null /\ \E m \in Range2(db[turn[t].session]) : m.turn = t

\* What the model is shown of a conversation is its end: while nobody works on
\* the session, a cached window is exactly the last messages stored.  The window
\* is rewritten by every turn from what that turn had loaded.
WindowIsTail ==
    calm => \A s \in DOMAIN sess :
               window[s] # Null /\ ~Busy(s) => window[s] = LastOf(db[s], MaxWindow)

\* chat-session.service.ts:126: the window is the last messages stored; when
\* it was written by a turn it holds what came before that turn as well.
EarlierTurnsKept ==
    calm => \A s \in DOMAIN sess :
               window[s] # Null /\ ~Busy(s) => Len(window[s]) >= Len(LastOf(db[s], MaxWindow))

\* However turns, stops and Redis failures overlap, the model is never shown a
\* message that was not stored: rows are written before the window.
WindowWasStored ==
    \A s \in Sessions :
        window[s] # Null /\ ~Removing(s) => Range2(window[s]) \subseteq Range2(db[s])

\* Only turns that were answered to the end, and stored, enter the long memory.
RememberedWasStored ==
    \A t \in remembered :
        /\ turn[t].pc = "done" /\ ~turn[t].cancelled
        /\ Stored(t) \/ Removing(turn[t].session)

\* ai-stream.service.ts:590: what there is of a stopped answer is stored, unless
\* its session is being removed or the turn never had one.  The code exempts
\* one moment: a stream without a session that is stopped while its session is
\* being created (line 602) stores nothing, and Create then leaves it there
\* empty.  A turn stopped at any other moment has its session.
StoppedTurnIsKept ==
    \A t \in Turns : turn[t].cancelled =>
        IF turn[t].session = Null
        THEN turn[t].pc \in {"create", "done"}
        ELSE turn[t].pc = "done" => Stored(t) \/ Removing(turn[t].session)
=============================================================================
