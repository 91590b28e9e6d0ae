------------------------------ MODULE TtsRelay ------------------------------
(***************************************************************************)
(* Speech of streamed answers.  A browser opens a WebSocket under the id   *)
(* of its chat session (TtsWebSocketService), TtsStreamPublisher turns each *)
(* streamed answer of that session into a numbered turn of start, chunk     *)
(* and end events, and TtsRelayService speaks the latest turn through a     *)
(* WebSocket to the speech vendor, keeping chunks back until that socket is *)
(* ready.                                                                   *)
(*                                                                         *)
(* Events are emitted synchronously and the handlers hold no await, so     *)
(* every handler is one step; browsers, answers and the vendor interleave  *)
(* between them.  The credentials of the vendor are configured.            *)
(***************************************************************************)
EXTENDS Naturals, Sequences

CONSTANTS
    Ids,            \* chat session ids
    Clients,        \* browser sockets, each opened once
    Streams,        \* answers, each streamed once
    MaxChunks,      \* bound on the chunks of an answer
    Prompt,         \* whether the vendor is ready before an answer ends
    NoId, NoClient, NoStream

ASSUME RelayAssumption ==
    /\ MaxChunks \in Nat
    /\ Prompt \in BOOLEAN
    /\ NoId \notin Ids /\ NoClient \notin Clients /\ NoStream \notin Streams

VARIABLES
    client,     \* browser sockets: readyState and the id registered under
    session,    \* TtsRelayService.sessions
    turnOf,     \* TtsStreamPublisher.turnBySession
    stream,     \* the answers being streamed
    vendor,     \* vendor[s]: the socket the start of answer s opened, if any
    serving     \* FALSE once the process has ended

vars == <<client, session, turnOf, stream, vendor, serving>>

-----------------------------------------------------------------------------
Chunk == Streams \X (1..MaxChunks)

\* ws: NoClient when the map has no entry; tencent: the answer whose start
\* opened tencentWs.
SessionType == [ws : Clients \cup {NoClient}, tencent : Streams \cup {NoStream},
                activeTurn : Nat, ready : BOOLEAN, pendingChunks : Seq(Chunk)]

NoSession == [ws |-> NoClient, tencent |-> NoStream, activeTurn |-> 0,
              ready |-> FALSE, pendingChunks |-> <<>>]

ClientType == [state : {"new", "open", "closing", "closed"}, id : Ids \cup {NoId}]
StreamPC == {"new", "asked", "dropped", "streaming", "flushed", "over"}
StreamType == [pc : StreamPC, id : Ids \cup {NoId}, tts : BOOLEAN, turn : Nat,
               sent : 0..MaxChunks]
VendorType == [state : {"new", "connecting", "open", "closing", "closed"},
               said : Seq(Chunk), complete : BOOLEAN]

TypeOK ==
    /\ client \in [Clients -> ClientType]
    /\ session \in [Ids -> SessionType]
    /\ turnOf \in [Ids -> Nat]
    /\ stream \in [Streams -> StreamType]
    /\ vendor \in [Streams -> VendorType]
    /\ serving \in BOOLEAN

Init ==
    /\ client = [c \in Clients |-> [state |-> "new", id |-> NoId]]
    /\ session = [i \in Ids |-> NoSession]
    /\ turnOf = [i \in Ids |-> 0]
    /\ stream = [s \in Streams |-> [pc |-> "new", id |-> NoId, tts |-> FALSE,
                                    turn |-> 0, sent |-> 0]]
    /\ vendor = [s \in Streams |-> [state |-> "new", said |-> <<>>, complete |-> FALSE]]
    /\ serving = TRUE

-----------------------------------------------------------------------------
(* Helpers *)

Registered(i) == session[i].ws # NoClient
Connected(i) == session[i].tencent # NoStream

\* Mutant: the turn is forgotten with the socket.
LetGo_ForgetsTurn(i) ==
    [session[i] EXCEPT !.tencent = NoStream, !.ready = FALSE, !.activeTurn = NoId]

\* closeTencentWs: the session lets go of the socket, whose listeners are
\* removed before it is closed.
LetGo(i) == [session[i] EXCEPT !.tencent = NoStream, !.ready = FALSE]

\* Mutant: only a socket that is ready is closed.
Hung_OnlyReady(i) ==
    IF Connected(i) /\ session[i].ready
    THEN [vendor EXCEPT ![session[i].tencent].state = "closed"]
    ELSE vendor

Hung(i) ==
    IF Connected(i) THEN [vendor EXCEPT ![session[i].tencent].state = "closed"] ELSE vendor

\* Closing a socket of ws whose handshake is running makes it emit an error,
\* and an error nobody listens to ends the process.
SurvivesHangUp(i) == Connected(i) => vendor[session[i].tencent].state # "connecting"

Open(i) == Connected(i) /\ vendor[session[i].tencent].state = "open"
CanSpeak(i) == session[i].ready /\ Open(i)

Speak(i, chunks) == vendor' = [vendor EXCEPT ![session[i].tencent].said = @ \o chunks]

-----------------------------------------------------------------------------
(* TtsWebSocketService and the life of a session *)

\* closeSession: the browser is told and its socket starts to close.
Shut(c) ==
    IF c # NoClient /\ client[c].state = "open"
    THEN [client EXCEPT ![c].state = "closing"]
    ELSE client

\* registerClient: an earlier session of the same id is closed first.
Connect(c, i) ==
    /\ client[c].state = "new"
    /\ client' = [Shut(session[i].ws) EXCEPT ![c] = [state |-> "open", id |-> i]]
    /\ session' = [session EXCEPT ![i] = [NoSession EXCEPT !.ws = c]]
    /\ vendor' = Hung(i)
    /\ serving' = SurvivesHangUp(i)
    /\ UNCHANGED <<turnOf, stream>>

\* The browser closes its socket; the close event comes later.
Leave(c) ==
    /\ client[c].state = "open"
    /\ client' = [client EXCEPT ![c].state = "closing"]
    /\ UNCHANGED <<session, turnOf, stream, vendor, serving>>

\* ws.on('close'): unregisterClient closes whatever session has the id.
ClientClosed(c) ==
    LET i == client[c].id IN
    /\ client[c].state = "closing"
    /\ client' = [Shut(session[i].ws) EXCEPT ![c].state = "closed"]
    /\ session' = [session EXCEPT ![i] = NoSession]
    /\ vendor' = Hung(i)
    /\ serving' = SurvivesHangUp(i)
    /\ UNCHANGED <<turnOf, stream>>

-----------------------------------------------------------------------------
(* The answers: AiStreamService.streamChat and TtsStreamPublisher *)

\* A question arrives; before the turn is announced the session is touched
\* in the database.
Ask(s, i, tts) ==
    /\ stream[s].pc = "new"
    /\ stream' = [stream EXCEPT ![s].pc = "asked", ![s].id = i, ![s].tts = tts]
    /\ UNCHANGED <<client, session, turnOf, vendor, serving>>

\* pipeUiMessageStream announces the turn even when the browser has gone in
\* the meantime; the stream of such an answer is cancelled unread.
Streaming(s) == [stream[s] EXCEPT !.pc = IF @ = "asked" THEN "streaming" ELSE "over"]

nextTurn(i) == turnOf[i] + 1

StartSilent(s) ==
    /\ stream[s].pc \in {"asked", "dropped"}
    /\ ~stream[s].tts
    /\ stream' = [stream EXCEPT ![s] = Streaming(s)]
    /\ UNCHANGED <<client, session, turnOf, vendor, serving>>

\* Mutant: chunks kept back for the turn before are not dropped.
Start_KeepsPending(s) ==
    LET i == stream[s].id
        turn == nextTurn(i)
    IN
    /\ stream[s].pc \in {"asked", "dropped"}
    /\ stream[s].tts
    /\ stream' = [stream EXCEPT ![s] = [Streaming(s) EXCEPT !.turn = turn]]
    /\ turnOf' = [turnOf EXCEPT ![i] = turn]
    /\ IF Registered(i) /\ turn > session[i].activeTurn
       THEN /\ session' = [session EXCEPT ![i] =
                            [LetGo(i) EXCEPT !.tencent = s, !.activeTurn = turn]]
            /\ vendor' = [Hung(i) EXCEPT ![s].state = "connecting"]
            /\ serving' = SurvivesHangUp(i)
       ELSE UNCHANGED <<session, vendor, serving>>
    /\ UNCHANGED client

\* The start event: a newer turn interrupts the one being spoken.
Start(s) ==
    LET i == stream[s].id
        turn == nextTurn(i)
    IN
    /\ stream[s].pc \in {"asked", "dropped"}
    /\ stream[s].tts
    /\ stream' = [stream EXCEPT ![s] = [Streaming(s) EXCEPT !.turn = turn]]
    /\ turnOf' = [turnOf EXCEPT ![i] = turn]
    /\ IF Registered(i) /\ turn > session[i].activeTurn
       THEN /\ session' = [session EXCEPT ![i] =
                            [LetGo(i) EXCEPT !.tencent = s, !.activeTurn = turn,
                                             !.pendingChunks = <<>>]]
            /\ vendor' = [Hung(i) EXCEPT ![s].state = "connecting"]
            /\ serving' = SurvivesHangUp(i)
       ELSE UNCHANGED <<session, vendor, serving>>
    /\ UNCHANGED client

\* Mutant: events of an earlier turn count.
IsActive_AnyTurn(s) ==
    /\ stream[s].tts
    /\ Registered(stream[s].id)

\* An event of answer s is for the turn its session speaks.
IsActive(s) ==
    /\ stream[s].tts
    /\ Registered(stream[s].id)
    /\ stream[s].turn = session[stream[s].id].activeTurn

\* The chunk event: spoken at once or kept back.
SendChunk(s) ==
    LET i == stream[s].id
        chunk == <<s, stream[s].sent + 1>>
    IN
    /\ stream[s].pc = "streaming"
    /\ stream[s].sent < MaxChunks
    /\ stream' = [stream EXCEPT ![s].sent = @ + 1]
    /\ CASE ~IsActive(s) -> UNCHANGED <<session, vendor>>
         [] IsActive(s) /\ CanSpeak(i) -> Speak(i, <<chunk>>) /\ UNCHANGED session
         [] OTHER -> /\ session' = [session EXCEPT ![i].pendingChunks = Append(@, chunk)]
                     /\ UNCHANGED vendor
    /\ UNCHANGED <<client, turnOf, serving>>

\* Mutant: the vendor is not told.
End_NotTold(s) ==
    LET i == stream[s].id IN
    /\ stream[s].pc = "streaming"
    /\ Prompt /\ IsActive(s) /\ Connected(i) => session[i].ready
    /\ stream' = [stream EXCEPT ![s].pc = "flushed"]
    /\ UNCHANGED <<client, session, turnOf, vendor, serving>>

\* The end event: what is kept back is spoken if it can be, and the vendor is
\* told that the turn is complete if its socket is open.
End(s) ==
    LET i == stream[s].id
        flushed == IF CanSpeak(i) THEN session[i].pendingChunks ELSE <<>>
    IN
    /\ stream[s].pc = "streaming"
    /\ Prompt /\ IsActive(s) /\ Connected(i) => session[i].ready
    /\ stream' = [stream EXCEPT ![s].pc = "flushed"]
    /\ IF IsActive(s) /\ Open(i)
       THEN vendor' = [vendor EXCEPT ![session[i].tencent].complete = TRUE,
                                     ![session[i].tencent].said = @ \o flushed]
       ELSE UNCHANGED vendor
    /\ session' = IF IsActive(s) /\ CanSpeak(i)
                  THEN [session EXCEPT ![i].pendingChunks = <<>>]
                  ELSE session
    /\ UNCHANGED <<client, turnOf, serving>>

\* The browser drops the answer: the error event has no turn and hangs up
\* whatever its session is speaking.  A response that has been flushed can
\* still be dropped until it is written.
Abort(s) ==
    LET i == stream[s].id IN
    /\ stream[s].pc \in {"asked", "streaming", "flushed"}
    /\ stream' = [stream EXCEPT ![s].pc = IF @ = "asked" THEN "dropped" ELSE "over"]
    /\ session' = [session EXCEPT ![i] = LetGo(i)]
    /\ vendor' = Hung(i)
    /\ serving' = SurvivesHangUp(i)
    /\ UNCHANGED <<client, turnOf>>

Written(s) ==
    /\ stream[s].pc = "flushed"
    /\ stream' = [stream EXCEPT ![s].pc = "over"]
    /\ UNCHANGED <<client, session, turnOf, vendor, serving>>

-----------------------------------------------------------------------------
(* The vendor socket of a session: openTencentConnection's listeners *)

Opened(i) ==
    /\ Connected(i)
    /\ vendor[session[i].tencent].state = "connecting"
    /\ vendor' = [vendor EXCEPT ![session[i].tencent].state = "open"]
    /\ UNCHANGED <<client, session, turnOf, stream, serving>>

\* { ready: 1 }: the chunks kept back are spoken.
Ready(i) ==
    /\ Open(i)
    /\ ~session[i].ready
    /\ session' = [session EXCEPT ![i].ready = TRUE, ![i].pendingChunks = <<>>]
    /\ Speak(i, session[i].pendingChunks)
    /\ UNCHANGED <<client, turnOf, stream, serving>>

Release(i) ==
    /\ session' = [session EXCEPT ![i] = LetGo(i)]
    /\ vendor' = Hung(i)
    /\ UNCHANGED <<client, turnOf, stream, serving>>

\* { final: 1 }, which the vendor sends once the turn is complete.
Final(i) ==
    /\ Open(i)
    /\ vendor[session[i].tencent].complete
    /\ Release(i)

\* An error message, or the error event of the socket; a socket whose
\* handshake fails is past CONNECTING when it says so.
VendorError(i) ==
    /\ Connected(i)
    /\ vendor[session[i].tencent].state \in {"connecting", "open"}
    /\ Release(i)

\* The vendor closes the connection, and the close event follows.
HangUp(i) ==
    /\ Open(i)
    /\ vendor' = [vendor EXCEPT ![session[i].tencent].state = "closing"]
    /\ UNCHANGED <<client, session, turnOf, stream, serving>>

VendorClosed(i) ==
    /\ Connected(i)
    /\ vendor[session[i].tencent].state = "closing"
    /\ Release(i)

-----------------------------------------------------------------------------
Browser(c) == (\E i \in Ids : Connect(c, i)) \/ Leave(c) \/ ClientClosed(c)

Answer(s) ==
    \/ \E i \in Ids, tts \in BOOLEAN : Ask(s, i, tts)
    \/ StartSilent(s) \/ Start(s) \/ SendChunk(s) \/ End(s) \/ Abort(s) \/ Written(s)

Vendor(i) == Opened(i) \/ Ready(i) \/ Final(i) \/ VendorError(i) \/ HangUp(i) \/ VendorClosed(i)

Next ==
    /\ serving
    /\ \/ \E c \in Clients : Browser(c)
       \/ \E s \in Streams : Answer(s)
       \/ \E i \in Ids : Vendor(i)

\* The vendor completes its handshakes, says when it is ready and finishes a
\* turn that is complete, or fails.  Browsers and answers promise nothing.
Fairness ==
    \A i \in Ids : WF_vars(serving /\ (Opened(i) \/ Ready(i) \/ Final(i) \/ VendorClosed(i)))

Spec == Init /\ [][Next]_vars /\ Fairness

-----------------------------------------------------------------------------
(* Properties *)

\* The first n chunks of answer s, and all it has produced.
First(s, n) == [k \in 1..n |-> <<s, k>>]
Produced(s) == First(s, stream[s].sent)

\* Whatever is interrupted, dropped or reconnected, a vendor socket hears the
\* chunks of the one answer it was opened for, in order, none twice and none
\* left out: what it has heard and what is kept back for it is everything the
\* answer has produced (tts-stream.publisher.ts:14 gives turns for this).
EveryTurnInOrder ==
    /\ \A s \in Streams : \E n \in 0..stream[s].sent : vendor[s].said = First(s, n)
    /\ \A i \in Ids : Connected(i) =>
        LET s == session[i].tencent
        IN  vendor[s].said \o session[i].pendingChunks = Produced(s)

\* No vendor connection is left open behind a session that has moved on, been
\* replaced or gone (tts-relay.service.ts:83, 142, 276 close it).
NoStrayConnection ==
    \A s \in Streams :
        vendor[s].state \in {"connecting", "open"} =>
            session[stream[s].id].tencent = s

\* A turn is declared complete only after all of it has been spoken, and
\* nothing is spoken after that (tts-relay.service.ts:117-125), provided the
\* vendor was ready by then.
CompleteIsWhole ==
    \A s \in Streams :
        vendor[s].complete => stream[s].pc # "streaming" /\ vendor[s].said = Produced(s)

\* The vendor connection of an answer that has been streamed to its end is
\* given back (tts-relay.service.ts:202-205 waits for the last audio).
EndedTurnReleased ==
    \A s \in Streams :
        stream[s].pc = "flushed" ~> ~serving \/ vendor[s].state \in {"new", "closed"}

\* README.md:16 (a turn can be interrupted per session): interrupting, leaving
\* and reconnecting leave the service running.
KeepsServing == serving
=============================================================================
