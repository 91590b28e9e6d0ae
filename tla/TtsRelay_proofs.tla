-------------------------- MODULE TtsRelay_proofs --------------------------
(***************************************************************************)
(* Safety of the speech relay: for any number of sessions, browsers,       *)
(* answers and chunks, a vendor socket hears its answer in order and no    *)
(* vendor socket is left open behind a session.                            *)
(***************************************************************************)
EXTENDS TtsRelay, SequenceTheorems, TLAPS

Announced(s) == stream[s].pc \in {"streaming", "flushed", "over"}
Spoken(s) == Announced(s) /\ stream[s].tts

\* An id without a browser has no turn, no vendor socket and nothing pending.
SessionsOK == \A i \in Ids : ~Registered(i) => session[i] = NoSession

\* A browser that has connected and an answer that was asked for have an id.
IdsOK ==
    /\ \A c \in Clients : client[c].state # "new" => client[c].id \in Ids
    /\ \A s \in Streams : stream[s].pc # "new" => stream[s].id \in Ids

\* An answer that has not been announced has produced nothing, and no turn is
\* ahead of the publisher's count.
StreamsOK ==
    \A s \in Streams :
        /\ ~Announced(s) => vendor[s].state = "new" /\ stream[s].sent = 0
        /\ Spoken(s) => stream[s].turn <= turnOf[stream[s].id]

\* A turn of a session belongs to one answer.
TurnsDiffer ==
    \A s, t \in Streams :
        Spoken(s) /\ Spoken(t) /\ stream[s].id = stream[t].id
                  /\ stream[s].turn = stream[t].turn => s = t

\* The vendor socket of a session is that of its active turn.
ConnectedOK ==
    \A i \in Ids : Connected(i) =>
        LET s == session[i].tencent
        IN  Spoken(s) /\ stream[s].id = i /\ stream[s].turn = session[i].activeTurn

Books == TypeOK /\ IdsOK /\ SessionsOK /\ StreamsOK /\ TurnsDiffer /\ ConnectedOK

\* Nothing is kept back while chunks are spoken at once.
NothingHeldBack ==
    \A i \in Ids : session[i].ready /\ Connected(i) =>
        /\ vendor[session[i].tencent].state # "connecting"
        /\ Open(i) => session[i].pendingChunks = <<>>

-----------------------------------------------------------------------------
(* Updating one field keeps the types *)

LEMMA VendorUpdate ==
    ASSUME NEW v \in VendorType
    PROVE  /\ \A st \in {"new", "connecting", "open", "closing", "closed"} :
                [v EXCEPT !.state = st] \in VendorType
           /\ \A said \in Seq(Chunk) : [v EXCEPT !.said = said] \in VendorType
           /\ \A said \in Seq(Chunk) :
                [v EXCEPT !.complete = TRUE, !.said = said] \in VendorType
<1>1. \A said \in Seq(Chunk) : [v EXCEPT !.said = said] \in VendorType
  BY DEF VendorType
<1>2. \A st \in {"new", "connecting", "open", "closing", "closed"} :
                [v EXCEPT !.state = st] \in VendorType
  BY DEF VendorType
<1>3. \A said \in Seq(Chunk) :
                [v EXCEPT !.complete = TRUE, !.said = said] \in VendorType
  BY DEF VendorType
<1>4. QED
  BY <1>1, <1>2, <1>3

LEMMA StreamUpdate ==
    ASSUME NEW x \in StreamType
    PROVE  /\ \A pc \in StreamPC : [x EXCEPT !.pc = pc] \in StreamType
           /\ \A n \in Nat : [x EXCEPT !.turn = n] \in StreamType
           /\ \A pc \in StreamPC, i \in Ids, b \in BOOLEAN :
                [x EXCEPT !.pc = pc, !.id = i, !.tts = b] \in StreamType
           /\ x.sent < MaxChunks => [x EXCEPT !.sent = x.sent + 1] \in StreamType
<1>1. \A pc \in StreamPC : [x EXCEPT !.pc = pc] \in StreamType
  BY DEF StreamType
<1>2. \A n \in Nat : [x EXCEPT !.turn = n] \in StreamType
  BY DEF StreamType
<1>3. \A pc \in StreamPC, i \in Ids, b \in BOOLEAN :
        [x EXCEPT !.pc = pc, !.id = i, !.tts = b] \in StreamType
  BY DEF StreamType
<1>4. ASSUME x.sent < MaxChunks
      PROVE  [x EXCEPT !.sent = x.sent + 1] \in StreamType
  <2>1. x.sent \in 0..MaxChunks
    BY DEF StreamType
  <2>2. x.sent + 1 \in 0..MaxChunks
    BY <1>4, <2>1, RelayAssumption
  <2>3. QED
    BY <2>2 DEF StreamType
<1>5. QED
  BY <1>1, <1>2, <1>3, <1>4

LEMMA SessionUpdate ==
    ASSUME NEW x \in SessionType
    PROVE  /\ \A p \in Seq(Chunk) : [x EXCEPT !.pendingChunks = p] \in SessionType
           /\ [x EXCEPT !.ready = TRUE, !.pendingChunks = <<>>] \in SessionType
           /\ [x EXCEPT !.pendingChunks = <<>>] \in SessionType
           /\ \A s \in Streams, n \in Nat :
                [x EXCEPT !.tencent = s, !.activeTurn = n, !.pendingChunks = <<>>]
                    \in SessionType
<1>1. \A p \in Seq(Chunk) : [x EXCEPT !.pendingChunks = p] \in SessionType
  BY DEF SessionType
<1>2. \A p \in Seq(Chunk) :
        [x EXCEPT !.ready = TRUE, !.pendingChunks = p] \in SessionType
  BY DEF SessionType
<1>3. \A s \in Streams, n \in Nat, p \in Seq(Chunk) :
        [x EXCEPT !.tencent = s, !.activeTurn = n, !.pendingChunks = p] \in SessionType
  BY DEF SessionType
<1>4. <<>> \in Seq(Chunk)
  OBVIOUS
<1>5. QED
  BY <1>1, <1>2, <1>3, <1>4

-----------------------------------------------------------------------------
(* What the helpers return *)

LEMMA HungUp ==
    ASSUME TypeOK, NEW i \in Ids
    PROVE  /\ Hung(i) \in [Streams -> VendorType]
           /\ \A s \in Streams :
                /\ Hung(i)[s].said = vendor[s].said
                /\ Hung(i)[s].complete = vendor[s].complete
                /\ session[i].tencent = s => Hung(i)[s].state = "closed"
                /\ session[i].tencent # s => Hung(i)[s] = vendor[s]
<1>1. session[i].tencent \in Streams \cup {NoStream}
  BY DEF TypeOK, SessionType
<1>2. CASE Connected(i)
  BY <1>1, <1>2, RelayAssumption DEF TypeOK, VendorType, Hung, Connected
<1>3. CASE ~Connected(i)
  BY <1>3, RelayAssumption DEF TypeOK, VendorType, Hung, Connected
<1>4. QED
  BY <1>2, <1>3

LEMMA LetGoSession ==
    ASSUME TypeOK, NEW i \in Ids
    PROVE  /\ LetGo(i) \in SessionType
           /\ LetGo(i).ws = session[i].ws
           /\ LetGo(i).tencent = NoStream
           /\ LetGo(i).activeTurn = session[i].activeTurn
           /\ LetGo(i).ready = FALSE
           /\ LetGo(i).pendingChunks = session[i].pendingChunks
BY DEF TypeOK, SessionType, LetGo

LEMMA ShutClient ==
    ASSUME TypeOK, NEW c \in Clients \cup {NoClient}
    PROVE  Shut(c) \in [Clients -> ClientType]
BY RelayAssumption DEF TypeOK, ClientType, Shut

LEMMA StreamingStream ==
    ASSUME TypeOK, NEW s \in Streams
    PROVE  /\ Streaming(s) \in StreamType
           /\ Streaming(s).pc \in {"streaming", "over"}
           /\ Streaming(s).id = stream[s].id
           /\ Streaming(s).tts = stream[s].tts
           /\ Streaming(s).turn = stream[s].turn
           /\ Streaming(s).sent = stream[s].sent
<1>1. PICK x \in StreamType : x = stream[s]
  BY DEF TypeOK
<1>2. PICK pc \in {"streaming", "over"} : Streaming(s) = [x EXCEPT !.pc = pc]
  BY <1>1 DEF Streaming
<1>3. QED
  BY <1>2, <1>1 DEF StreamType, StreamPC

LEMMA NoSessionType == NoSession \in SessionType
BY DEF NoSession, SessionType

-----------------------------------------------------------------------------
(* Type correctness *)

LEMMA RelayTypeInit == Init => TypeOK
BY RelayAssumption DEF Init, TypeOK, NoSession, SessionType, ClientType, StreamType,
   StreamPC, VendorType

LEMMA RelayTypeNext == TypeOK /\ IdsOK /\ [Next]_vars => TypeOK'
<1> SUFFICES ASSUME TypeOK, IdsOK, [Next]_vars
             PROVE  TypeOK'
  OBVIOUS
<1>0. /\ client \in [Clients -> ClientType]
      /\ session \in [Ids -> SessionType]
      /\ turnOf \in [Ids -> Nat]
      /\ stream \in [Streams -> StreamType]
      /\ vendor \in [Streams -> VendorType]
      /\ serving \in BOOLEAN
      /\ \A i \in Ids : SurvivesHangUp(i) \in BOOLEAN
  BY DEF TypeOK, SurvivesHangUp
<1>1. ASSUME NEW c \in Clients, NEW i \in Ids, Connect(c, i)
      PROVE  TypeOK'
  <2>1. session[i].ws \in Clients \cup {NoClient}
    BY <1>0 DEF SessionType
  <2>2. [NoSession EXCEPT !.ws = c] \in SessionType
    BY NoSessionType DEF NoSession, SessionType
  <2>3. client' \in [Clients -> ClientType]
    BY <1>1, <2>1, ShutClient DEF Connect, ClientType
  <2>4. QED
    BY <1>0, <1>1, <2>2, <2>3, HungUp DEF Connect, TypeOK
<1>2. ASSUME NEW c \in Clients, Leave(c)
      PROVE  TypeOK'
  BY <1>0, <1>2 DEF Leave, ClientType, TypeOK
<1>3. ASSUME NEW c \in Clients, client[c].id \in Ids, ClientClosed(c)
      PROVE  TypeOK'
  <2>1. session[client[c].id].ws \in Clients \cup {NoClient}
    BY <1>0, <1>3 DEF SessionType
  <2>2. PICK f \in [Clients -> ClientType] : client' = [f EXCEPT ![c].state = "closed"]
    BY <1>3, <2>1, ShutClient DEF ClientClosed
  <2>3. QED
    BY <1>0, <1>3, <2>2, HungUp, NoSessionType, ZenonT(40) DEF ClientClosed, ClientType, TypeOK
<1>4. ASSUME NEW s \in Streams, NEW i \in Ids, NEW tts \in BOOLEAN, Ask(s, i, tts)
      PROVE  TypeOK'
  <2>1. "asked" \in StreamPC
    BY DEF StreamPC
  <2>2. stream' = [stream EXCEPT ![s] = [stream[s] EXCEPT !.pc = "asked", !.id = i, !.tts = tts]]
    BY <1>0, <1>4 DEF Ask
  <2>3. [stream[s] EXCEPT !.pc = "asked", !.id = i, !.tts = tts] \in StreamType
    <3>1. PICK x \in StreamType : x = stream[s]
      BY <1>0
    <3>2. [x EXCEPT !.pc = "asked", !.id = i, !.tts = tts] \in StreamType
      BY <2>1 DEF StreamType
    <3>3. QED
      BY <3>1, <3>2
  <2>4. QED
    BY <1>0, <1>4, <2>2, <2>3 DEF Ask, TypeOK
<1>5. ASSUME NEW s \in Streams
      PROVE  Streaming(s) \in StreamType
  BY StreamingStream
<1>6. ASSUME NEW s \in Streams, stream[s].id \in Ids, StartSilent(s)
      PROVE  TypeOK'
  BY <1>0, <1>5, <1>6 DEF StartSilent, TypeOK
<1>7. ASSUME NEW s \in Streams, stream[s].id \in Ids, Start(s)
      PROVE  TypeOK'
  <2> DEFINE i == stream[s].id
             turn == nextTurn(i)
  <2>1. turn \in Nat /\ turnOf' \in [Ids -> Nat]
    BY <1>0, <1>7 DEF Start, nextTurn
  <2>2. [Streaming(s) EXCEPT !.turn = turn] \in StreamType
    BY <1>0, <1>5, <1>7, <2>1, StreamUpdate
  <2>3. stream' \in [Streams -> StreamType]
    BY <1>0, <1>7, <2>2 DEF Start
  <2>4. CASE Registered(i) /\ turn > session[i].activeTurn
    <3>1. [LetGo(i) EXCEPT !.tencent = s, !.activeTurn = turn, !.pendingChunks = <<>>]
            \in SessionType
      BY <1>0, <1>7, <2>1, LetGoSession, SessionUpdate
    <3>2. PICK f \in [Streams -> VendorType] :
            vendor' = [f EXCEPT ![s] = [f[s] EXCEPT !.state = "connecting"]]
      BY <1>7, <2>4, HungUp DEF Start
    <3>3. vendor' \in [Streams -> VendorType]
      BY <3>2, VendorUpdate
    <3>4. QED
      BY <1>0, <1>7, <2>1, <2>3, <2>4, <3>1, <3>3 DEF Start, TypeOK
  <2>5. CASE ~(Registered(i) /\ turn > session[i].activeTurn)
    BY <1>0, <1>7, <2>1, <2>3, <2>5 DEF Start, TypeOK
  <2>6. QED
    BY <2>4, <2>5
<1>8. ASSUME NEW s \in Streams, stream[s].id \in Ids, SendChunk(s)
      PROVE  TypeOK'
  <2> DEFINE i == stream[s].id
             chunk == <<s, stream[s].sent + 1>>
  <2>1. chunk \in Chunk
    BY <1>0, <1>8, RelayAssumption DEF SendChunk, StreamType, Chunk
  <2>2. stream' \in [Streams -> StreamType]
    <3>1. stream' = [stream EXCEPT ![s] = [stream[s] EXCEPT !.sent = stream[s].sent + 1]]
      BY <1>0, <1>8 DEF SendChunk
    <3>2. [stream[s] EXCEPT !.sent = stream[s].sent + 1] \in StreamType
      BY <1>0, <1>8, StreamUpdate DEF SendChunk
    <3>3. QED
      BY <1>0, <3>1, <3>2
  <2>3. CASE UNCHANGED <<session, vendor>>
    BY <1>0, <1>8, <2>2, <2>3 DEF SendChunk, TypeOK
  <2>4. CASE CanSpeak(i) /\ Speak(i, <<chunk>>) /\ UNCHANGED session
    <3> DEFINE t == session[i].tencent
    <3>1. t \in Streams
      BY <1>0, <1>8, <2>4 DEF CanSpeak, Open, Connected, SessionType
    <3>2. vendor[t].said \o <<chunk>> \in Seq(Chunk)
      BY <1>0, <2>1, <3>1 DEF VendorType
    <3>3. vendor' = [vendor EXCEPT ![t] = [vendor[t] EXCEPT !.said = vendor[t].said \o <<chunk>>]]
      BY <1>0, <2>4 DEF Speak
    <3>4. vendor' \in [Streams -> VendorType]
      BY <1>0, <3>1, <3>2, <3>3, VendorUpdate
    <3>5. QED
      BY <1>0, <1>8, <2>2, <2>4, <3>4 DEF SendChunk, TypeOK
  <2>5. CASE /\ session' = [session EXCEPT ![i].pendingChunks = Append(@, chunk)]
             /\ UNCHANGED vendor
    <3>1. Append(session[i].pendingChunks, chunk) \in Seq(Chunk)
      BY <1>0, <1>8, <2>1 DEF SessionType
    <3>2. [session[i] EXCEPT !.pendingChunks = Append(session[i].pendingChunks, chunk)]
            \in SessionType
      BY <1>0, <1>8, <3>1, SessionUpdate
    <3>3. session' \in [Ids -> SessionType]
      BY <1>0, <2>5, <3>2
    <3>4. QED
      BY <1>0, <1>8, <2>2, <2>5, <3>3 DEF SendChunk, TypeOK
  <2>6. QED
    BY <1>8, <2>3, <2>4, <2>5 DEF SendChunk
<1>9. ASSUME NEW s \in Streams, stream[s].id \in Ids, End(s)
      PROVE  TypeOK'
  <2> DEFINE i == stream[s].id
             t == session[i].tencent
  <2>1. stream' \in [Streams -> StreamType]
    BY <1>0, <1>9 DEF End, StreamType, StreamPC
  <2>2. session' \in [Ids -> SessionType]
    <3>1. [session[i] EXCEPT !.pendingChunks = <<>>] \in SessionType
      BY <1>0, <1>9, SessionUpdate
    <3>2. session' = session \/ session' = [session EXCEPT ![i] =
                                    [session[i] EXCEPT !.pendingChunks = <<>>]]
      BY <1>0, <1>9 DEF End
    <3>3. QED
      BY <1>0, <3>1, <3>2
  <2>3. CASE UNCHANGED vendor
    BY <1>0, <1>9, <2>1, <2>2, <2>3 DEF End, TypeOK
  <2>4. CASE Connected(i) /\ ~UNCHANGED vendor
    <3>1. t \in Streams /\ session[i].pendingChunks \in Seq(Chunk)
      BY <1>0, <1>9, <2>4 DEF Connected, SessionType
    <3>2. vendor[t].said \in Seq(Chunk)
      BY <1>0, <3>1 DEF VendorType
    <3> DEFINE flushed == IF CanSpeak(i) THEN session[i].pendingChunks ELSE <<>>
               said == vendor[t].said \o flushed
    <3>3. said \in Seq(Chunk)
      BY <3>1, <3>2
    <3>4. vendor' = [vendor EXCEPT ![t] = [vendor[t] EXCEPT !.complete = TRUE, !.said = said]]
      BY <1>0, <1>9, <2>4, <3>1 DEF End
    <3>5. vendor' \in [Streams -> VendorType]
      BY <1>0, <3>1, <3>3, <3>4, VendorUpdate
    <3>6. QED
      BY <1>0, <1>9, <2>1, <2>2, <3>5 DEF End, TypeOK
  <2>5. QED
    BY <1>9, <2>3, <2>4 DEF End, Open
<1>10. ASSUME NEW s \in Streams, stream[s].id \in Ids, Abort(s)
       PROVE  TypeOK'
  <2>1. stream' \in [Streams -> StreamType]
    BY <1>0, <1>10 DEF Abort, StreamType, StreamPC
  <2>2. QED
    BY <1>0, <1>10, <2>1, HungUp, LetGoSession DEF Abort, TypeOK
<1>11. ASSUME NEW s \in Streams, Written(s)
       PROVE  TypeOK'
  BY <1>0, <1>11 DEF Written, StreamType, StreamPC, TypeOK
<1>12. ASSUME NEW i \in Ids, Opened(i) \/ HangUp(i)
       PROVE  TypeOK'
  <2> DEFINE t == session[i].tencent
  <2>1. t \in Streams
    BY <1>0, <1>12 DEF Opened, HangUp, Open, Connected, SessionType
  <2>2. PICK st \in {"open", "closing"} :
          vendor' = [vendor EXCEPT ![t] = [vendor[t] EXCEPT !.state = st]]
    BY <1>0, <1>12 DEF Opened, HangUp
  <2>3. vendor' \in [Streams -> VendorType]
    BY <1>0, <2>1, <2>2, VendorUpdate
  <2>4. QED
    BY <1>0, <1>12, <2>3 DEF Opened, HangUp, TypeOK
<1>13. ASSUME NEW i \in Ids, Ready(i)
       PROVE  TypeOK'
  <2> DEFINE t == session[i].tencent
             said == vendor[t].said \o session[i].pendingChunks
  <2>1. t \in Streams /\ session[i].pendingChunks \in Seq(Chunk)
    BY <1>0, <1>13 DEF Ready, Open, Connected, SessionType
  <2>2. said \in Seq(Chunk)
    BY <1>0, <2>1 DEF VendorType
  <2>3. vendor' = [vendor EXCEPT ![t] = [vendor[t] EXCEPT !.said = said]]
    BY <1>0, <1>13 DEF Ready, Speak
  <2>4. vendor' \in [Streams -> VendorType]
    BY <1>0, <2>1, <2>2, <2>3, VendorUpdate
  <2>5. [session[i] EXCEPT !.ready = TRUE, !.pendingChunks = <<>>] \in SessionType
    BY <1>0, SessionUpdate
  <2>6. session' = [session EXCEPT ![i] =
                        [session[i] EXCEPT !.ready = TRUE, !.pendingChunks = <<>>]]
    BY <1>0, <1>13 DEF Ready
  <2>7. QED
    BY <1>0, <1>13, <2>4, <2>5, <2>6 DEF Ready, TypeOK
<1>14. ASSUME NEW i \in Ids, Release(i)
       PROVE  TypeOK'
  BY <1>0, <1>14, HungUp, LetGoSession DEF Release, TypeOK
<1>15. CASE UNCHANGED vars
  BY <1>0, <1>15 DEF vars, TypeOK
<1>16. CASE \E c \in Clients : Browser(c)
  BY <1>1, <1>2, <1>3, <1>16 DEF Browser, IdsOK, ClientClosed
<1>17. CASE \E s \in Streams : Answer(s)
  <2>1. PICK s \in Streams : Answer(s)
    BY <1>17
  <2>2. stream[s].pc # "new" => stream[s].id \in Ids
    BY DEF IdsOK
  <2>3. CASE \E i \in Ids, tts \in BOOLEAN : Ask(s, i, tts)
    BY <1>4, <2>3
  <2>4. CASE StartSilent(s) \/ Start(s)
    BY <1>6, <1>7, <2>2, <2>4 DEF StartSilent, Start
  <2>5. CASE SendChunk(s) \/ End(s)
    BY <1>8, <1>9, <2>2, <2>5 DEF SendChunk, End
  <2>6. CASE Abort(s)
    BY <1>10, <2>2, <2>6 DEF Abort
  <2>7. CASE Written(s)
    BY <1>11, <2>7
  <2>8. QED
    BY <2>1, <2>3, <2>4, <2>5, <2>6, <2>7 DEF Answer
<1>18. CASE \E i \in Ids : Vendor(i)
  BY <1>12, <1>13, <1>14, <1>18 DEF Vendor, Final, VendorError, VendorClosed
<1>19. QED
  BY <1>15, <1>16, <1>17, <1>18 DEF Next

LEMMA IdsNext == TypeOK /\ IdsOK /\ [Next]_vars => IdsOK'
<1> SUFFICES ASSUME TypeOK, IdsOK, [Next]_vars
             PROVE  IdsOK'
  OBVIOUS
<1>0. /\ client \in [Clients -> ClientType] /\ stream \in [Streams -> StreamType]
      /\ session \in [Ids -> SessionType]
  BY DEF TypeOK
<1>1. ASSUME NEW c \in Clients
      PROVE  client'[c].state # "new" => client'[c].id \in Ids
  <2>1. CASE client' = client
    BY <2>1 DEF IdsOK
  <2>2. CASE \E d \in Clients : Leave(d)
    BY <1>0, <2>2 DEF IdsOK, Leave, ClientType
  <2>3. ASSUME NEW w \in Clients \cup {NoClient}
        PROVE  /\ Shut(w) \in [Clients -> ClientType]
               /\ Shut(w)[c].id = client[c].id
               /\ Shut(w)[c].state # "new" => client[c].state # "new"
    BY <1>0, RelayAssumption DEF Shut, ClientType
  <2>4. CASE \E d \in Clients, i \in Ids : Connect(d, i)
    <3>1. PICK d \in Clients, i \in Ids : Connect(d, i)
      BY <2>4
    <3>2. PICK w \in Clients \cup {NoClient} :
            client' = [Shut(w) EXCEPT ![d] = [state |-> "open", id |-> i]]
      BY <1>0, <3>1 DEF Connect, SessionType
    <3>3. QED
      BY <2>3, <3>2 DEF IdsOK
  <2>5. CASE \E d \in Clients : ClientClosed(d)
    <3>1. PICK d \in Clients : ClientClosed(d)
      BY <2>5
    <3>2. client[d].id \in Ids
      BY <3>1 DEF ClientClosed, IdsOK
    <3>3. PICK w \in Clients \cup {NoClient} :
            client' = [Shut(w) EXCEPT ![d].state = "closed"]
      BY <1>0, <3>1, <3>2 DEF ClientClosed, SessionType
    <3>4. QED
      BY <2>3, <3>2, <3>3 DEF IdsOK, ClientType
  <2>6. QED
    BY <2>1, <2>2, <2>4, <2>5 DEF Next, vars, Browser, Answer, Vendor, Ask, StartSilent, Start,
       SendChunk, End, Abort, Written, Opened, Ready, Final, VendorError, HangUp, VendorClosed,
       Release
<1>2. ASSUME NEW s \in Streams
      PROVE  stream'[s].pc # "new" => stream'[s].id \in Ids
  <2>1. CASE stream' = stream
    BY <2>1 DEF IdsOK
  <2>2. CASE \E t \in Streams, i \in Ids, tts \in BOOLEAN : Ask(t, i, tts)
    BY <1>0, <2>2 DEF IdsOK, Ask, StreamType
  <2>3. CASE \E t \in Streams : StartSilent(t) \/ Start(t)
    <3>1. PICK t \in Streams : StartSilent(t) \/ Start(t)
      BY <2>3
    <3>2. stream[t].pc # "new" /\ stream[t].id \in Ids
      BY <3>1 DEF IdsOK, StartSilent, Start
    <3>3. PICK x \in StreamType, n \in Nat :
            /\ x.id = stream[t].id
            /\ stream' = [stream EXCEPT ![t] = x] \/ stream' = [stream EXCEPT ![t] =
                                                        [x EXCEPT !.turn = n]]
      <4>1. CASE StartSilent(t)
        BY <4>1, StreamingStream DEF StartSilent
      <4>2. CASE Start(t)
        <5>1. nextTurn(stream[t].id) \in Nat
          BY <3>2 DEF nextTurn, TypeOK
        <5>2. QED
          BY <4>2, <5>1, StreamingStream DEF Start
      <4>3. QED
        BY <3>1, <4>1, <4>2
    <3>4. stream'[t].id = stream[t].id /\ \A u \in Streams : u # t => stream'[u] = stream[u]
      BY <1>0, <3>3 DEF StreamType
    <3>5. QED
      BY <3>2, <3>4 DEF IdsOK
  <2>4. CASE \E t \in Streams : SendChunk(t) \/ End(t) \/ Abort(t) \/ Written(t)
    <3>1. PICK t \in Streams : SendChunk(t) \/ End(t) \/ Abort(t) \/ Written(t)
      BY <2>4
    <3>2. stream[t].pc # "new" /\ stream[t].id \in Ids
      BY <3>1 DEF IdsOK, SendChunk, End, Abort, Written
    <3>3. stream'[t].id = stream[t].id /\ \A u \in Streams : u # t => stream'[u] = stream[u]
      <4>1. PICK x \in StreamType : x = stream[t]
        BY <1>0
      <4>2. CASE SendChunk(t)
        <5>1. stream' = [stream EXCEPT ![t] = [x EXCEPT !.sent = x.sent + 1]]
          BY <4>1, <4>2 DEF SendChunk
        <5>2. QED
          BY <1>0, <4>1, <5>1 DEF StreamType
      <4>3. CASE End(t)
        <5>1. stream' = [stream EXCEPT ![t] = [x EXCEPT !.pc = "flushed"]]
          BY <4>1, <4>3 DEF End
        <5>2. QED
          BY <1>0, <4>1, <5>1 DEF StreamType
      <4>4. CASE Abort(t)
        <5>1. stream' = [stream EXCEPT ![t] = [x EXCEPT !.pc = IF x.pc = "asked" THEN "dropped" ELSE "over"]]
          BY <4>1, <4>4 DEF Abort
        <5>2. QED
          BY <1>0, <4>1, <5>1 DEF StreamType
      <4>5. CASE Written(t)
        <5>1. stream' = [stream EXCEPT ![t] = [x EXCEPT !.pc = "over"]]
          BY <4>1, <4>5 DEF Written
        <5>2. QED
          BY <1>0, <4>1, <5>1 DEF StreamType
      <4>6. QED
        BY <3>1, <4>2, <4>3, <4>4, <4>5
    <3>4. QED
      BY <3>2, <3>3 DEF IdsOK
  <2>5. QED
    BY <2>1, <2>2, <2>3, <2>4 DEF Next, vars, Browser, Answer, Vendor, Connect, Leave,
       ClientClosed, Opened, Ready, Final, VendorError, HangUp, VendorClosed, Release
<1>3. QED
  BY <1>1, <1>2 DEF IdsOK

\* Types are preserved by every step (TtsRelay's variables hold what the
\* sources declare for them), whatever the bounds.
THEOREM RelayTypeCorrect == Spec => []TypeOK
<1>1. Init => TypeOK /\ IdsOK
  BY RelayTypeInit DEF Init, IdsOK
<1>2. TypeOK /\ IdsOK /\ [Next]_vars => (TypeOK /\ IdsOK)'
  BY RelayTypeNext, IdsNext
<1>3. QED
  BY <1>1, <1>2, PTL DEF Spec

-----------------------------------------------------------------------------
(* What the steps do, component by component *)

\* A step that starts no turn: the turns stay with their answers and a
\* session keeps its vendor socket or lets go of it.
KeepsTurns ==
    /\ turnOf' = turnOf
    /\ \A s \in Streams :
        /\ Spoken(s)' <=> Spoken(s)
        /\ Spoken(s) => stream'[s].id = stream[s].id /\ stream'[s].turn = stream[s].turn
        /\ ~Announced(s)' => ~Announced(s) /\ stream'[s].sent = stream[s].sent
        /\ ~Announced(s) => vendor'[s].state = vendor[s].state
    /\ \A i \in Ids :
        /\ Connected(i)' => /\ session'[i].tencent = session[i].tencent
                            /\ session'[i].activeTurn = session[i].activeTurn
        /\ ~Registered(i)' => session'[i] = NoSession

LEMMA KeepsBooks ==
    ASSUME TypeOK, SessionsOK, StreamsOK, TurnsDiffer, ConnectedOK, KeepsTurns
    PROVE  (SessionsOK /\ StreamsOK /\ TurnsDiffer /\ ConnectedOK)'
<1>1. SessionsOK'
  BY DEF KeepsTurns, SessionsOK
<1>2. StreamsOK'
  BY DEF KeepsTurns, StreamsOK
<1>3. TurnsDiffer'
  BY DEF KeepsTurns, TurnsDiffer
<1>4. ConnectedOK'
  <2>1. \A i \in Ids : Connected(i)' => Connected(i) /\ session[i].tencent \in Streams
    BY DEF KeepsTurns, Connected, TypeOK, SessionType
  <2>2. QED
    BY <2>1 DEF KeepsTurns, ConnectedOK
<1>5. QED
  BY <1>1, <1>2, <1>3, <1>4

\* A step that speaks and produces nothing.
KeepsWords ==
    /\ \A s \in Streams : vendor'[s].said = vendor[s].said /\ stream'[s].sent = stream[s].sent
    /\ \A i \in Ids : Connected(i)' =>
        /\ session'[i].tencent = session[i].tencent
        /\ session'[i].pendingChunks = session[i].pendingChunks
        /\ session'[i].ready => session[i].ready
        /\ vendor'[session[i].tencent].state = "connecting"
                => vendor[session[i].tencent].state = "connecting"
        /\ Open(i)' /\ ~Open(i) => vendor[session[i].tencent].state = "connecting"

LEMMA KeepsOrder ==
    ASSUME TypeOK, EveryTurnInOrder, NothingHeldBack, KeepsWords
    PROVE  (EveryTurnInOrder /\ NothingHeldBack)'
<1>0. \A i \in Ids : Connected(i)' => Connected(i) /\ session[i].tencent \in Streams
  BY DEF KeepsWords, Connected, TypeOK, SessionType
<1>1. \A s \in Streams : \E n \in 0..stream'[s].sent : vendor'[s].said = First(s, n)
  BY DEF KeepsWords, EveryTurnInOrder
<1>2. ASSUME NEW i \in Ids, Connected(i)'
      PROVE  LET s == session'[i].tencent
             IN  vendor'[s].said \o session'[i].pendingChunks = First(s, stream'[s].sent)
  <2> DEFINE s == session[i].tencent
  <2>1. s \in Streams /\ session'[i].tencent = s
        /\ session'[i].pendingChunks = session[i].pendingChunks
        /\ vendor'[s].said = vendor[s].said /\ stream'[s].sent = stream[s].sent
    BY <1>0, <1>2 DEF KeepsWords
  <2>2. vendor[s].said \o session[i].pendingChunks = First(s, stream[s].sent)
    BY <1>0, <1>2 DEF EveryTurnInOrder, Produced
  <2>3. QED
    BY <2>1, <2>2
<1>3. EveryTurnInOrder'
  BY <1>1, <1>2 DEF EveryTurnInOrder, Produced, First
<1>4. NothingHeldBack'
  BY <1>0 DEF KeepsWords, NothingHeldBack
<1>5. QED
  BY <1>3, <1>4

\* A step that announces no turn and produces no chunk.
StreamsStay ==
    /\ turnOf' = turnOf
    /\ \A s \in Streams :
        /\ stream'[s].sent = stream[s].sent
        /\ Announced(s) => /\ Announced(s)'
                           /\ stream'[s].id = stream[s].id
                           /\ stream'[s].tts = stream[s].tts
                           /\ stream'[s].turn = stream[s].turn
        /\ Announced(s)' => Announced(s) \/ ~stream'[s].tts

LEMMA StayKeeps ==
    ASSUME Books, NoStrayConnection, StreamsStay, UNCHANGED <<session, vendor>>
    PROVE  KeepsTurns /\ KeepsWords /\ NoStrayConnection'
<1>1. KeepsTurns
  BY DEF StreamsStay, KeepsTurns, Spoken, Books, SessionsOK, Registered
<1>2. KeepsWords
  BY DEF StreamsStay, KeepsWords, Open, Connected
<1>3. NoStrayConnection'
  BY DEF StreamsStay, NoStrayConnection, Books, StreamsOK
<1>4. QED
  BY <1>1, <1>2, <1>3

\* Session i lets go of its vendor socket and becomes x.
LEMMA DropKeeps ==
    ASSUME Books, NoStrayConnection, StreamsStay,
           NEW i \in Ids, NEW x \in SessionType,
           x.tencent = NoStream, x.ws = NoClient => x = NoSession,
           session' = [session EXCEPT ![i] = x], vendor' = Hung(i)
    PROVE  KeepsTurns /\ KeepsWords /\ NoStrayConnection'
<1>0. TypeOK /\ session \in [Ids -> SessionType]
  BY DEF Books, TypeOK
<1>1. \A s \in Streams : /\ vendor'[s].said = vendor[s].said
                         /\ session[i].tencent = s => vendor'[s].state = "closed"
                         /\ session[i].tencent # s => vendor'[s] = vendor[s]
  BY <1>0, HungUp
<1>2. session'[i] = x /\ \A k \in Ids : k # i => session'[k] = session[k]
  BY <1>0
<1>3. \A k \in Ids, s \in Streams : session[k].tencent = s =>
        /\ Connected(k) /\ Announced(s) /\ stream[s].id = k
  BY RelayAssumption DEF Books, ConnectedOK, Connected, Spoken
<1>4. KeepsTurns
  <2>1. \A s \in Streams : ~Announced(s) => vendor'[s].state = vendor[s].state
    BY <1>1, <1>3
  <2>2. \A k \in Ids :
            /\ Connected(k)' => /\ session'[k].tencent = session[k].tencent
                                /\ session'[k].activeTurn = session[k].activeTurn
            /\ ~Registered(k)' => session'[k] = NoSession
    BY <1>2 DEF Connected, Registered, Books, SessionsOK
  <2>3. QED
    BY <2>1, <2>2 DEF KeepsTurns, StreamsStay, Spoken
<1>5. KeepsWords
  <2>1. ASSUME NEW k \in Ids, Connected(k)'
        PROVE  /\ session'[k] = session[k]
               /\ session[k].tencent \in Streams
               /\ vendor'[session[k].tencent] = vendor[session[k].tencent]
    <3>1. session'[k] = session[k] /\ session[k].tencent \in Streams /\ k # i
      BY <1>0, <1>2, <2>1 DEF Connected, SessionType
    <3>2. session[i].tencent # session[k].tencent
      BY <1>3, <3>1
    <3>3. QED
      BY <1>1, <3>1, <3>2
  <2>2. QED
    BY <1>1, <2>1 DEF KeepsWords, StreamsStay, Open, Connected
<1>6. NoStrayConnection'
  <2>1. ASSUME NEW s \in Streams, vendor'[s].state \in {"connecting", "open"}
        PROVE  session'[stream'[s].id].tencent = s
    <3>1. session[i].tencent # s /\ vendor'[s] = vendor[s]
      BY <1>1, <2>1
    <3>2. Announced(s) /\ session[stream[s].id].tencent = s
      BY <2>1, <3>1 DEF NoStrayConnection, Books, StreamsOK
    <3>3. stream'[s].id = stream[s].id /\ stream[s].id \in Ids
      BY <3>2 DEF StreamsStay, Announced, Books, IdsOK
    <3>4. QED
      BY <1>2, <3>1, <3>2, <3>3
  <2>2. QED
    BY <2>1 DEF NoStrayConnection
<1>7. QED
  BY <1>4, <1>5, <1>6

-----------------------------------------------------------------------------
(* The steps that speak and announce nothing *)

\* What holds of every state the relay reaches.
Safe == Books /\ NoStrayConnection /\ EveryTurnInOrder /\ NothingHeldBack

LEMMA QuietKeeps ==
    ASSUME Safe, (TypeOK /\ IdsOK)', KeepsTurns, KeepsWords, NoStrayConnection'
    PROVE  Safe'
<1>1. (SessionsOK /\ StreamsOK /\ TurnsDiffer /\ ConnectedOK)'
  BY KeepsBooks DEF Safe, Books
<1>2. (EveryTurnInOrder /\ NothingHeldBack)'
  BY KeepsOrder DEF Safe, Books
<1>3. QED
  BY <1>1, <1>2 DEF Safe, Books

LEMMA AnswersStay ==
    ASSUME TypeOK, NEW s \in Streams,
           \/ \E i \in Ids, tts \in BOOLEAN : Ask(s, i, tts)
           \/ StartSilent(s) \/ Abort(s) \/ Written(s)
    PROVE  StreamsStay
<1>1. PICK x \in StreamType : x = stream[s]
  BY DEF TypeOK
<1>2. turnOf' = turnOf
  BY DEF Ask, StartSilent, Abort, Written
<1>3. CASE \E i \in Ids, tts \in BOOLEAN : Ask(s, i, tts)
  <2>1. PICK i \in Ids, tts \in BOOLEAN :
          stream' = [stream EXCEPT ![s] = [x EXCEPT !.pc = "asked", !.id = i, !.tts = tts]]
    <3>1. PICK i \in Ids, tts \in BOOLEAN : Ask(s, i, tts)
      BY <1>3
    <3>2. stream' = [stream EXCEPT ![s] =
                        [stream[s] EXCEPT !.pc = "asked", !.id = i, !.tts = tts]]
      BY <3>1 DEF Ask, TypeOK
    <3>3. QED
      BY <1>1, <3>2
  <2>2. x.pc = "new"
    BY <1>1, <1>3 DEF Ask
  <2>3. QED
    BY <1>1, <1>2, <2>1, <2>2 DEF TypeOK, StreamType, StreamsStay, Announced
<1>4. CASE StartSilent(s)
  BY <1>2, <1>4, StreamingStream DEF StartSilent, TypeOK, StreamsStay, Announced
<1>5. CASE Abort(s)
  <2>1. stream' = [stream EXCEPT ![s] = [x EXCEPT !.pc = IF x.pc = "asked" THEN "dropped" ELSE "over"]]
    BY <1>1, <1>5 DEF Abort
  <2>2. x.pc \in {"asked", "streaming", "flushed"}
    BY <1>1, <1>5 DEF Abort
  <2>3. QED
    BY <1>1, <1>2, <2>1, <2>2 DEF TypeOK, StreamType, StreamsStay, Announced
<1>6. CASE Written(s)
  <2>1. stream' = [stream EXCEPT ![s] = [x EXCEPT !.pc = "over"]]
    BY <1>1, <1>6 DEF Written
  <2>2. x.pc = "flushed"
    BY <1>1, <1>6 DEF Written
  <2>3. QED
    BY <1>1, <1>2, <2>1, <2>2 DEF TypeOK, StreamType, StreamsStay, Announced
<1>7. QED
  BY <1>3, <1>4, <1>5, <1>6

\* Connecting, closing, aborting and releasing let go of the vendor socket.
LEMMA LettingGo ==
    ASSUME Safe, (TypeOK /\ IdsOK)', StreamsStay, NEW i \in Ids, vendor' = Hung(i),
           \/ \E c \in Clients : session' = [session EXCEPT ![i] = [NoSession EXCEPT !.ws = c]]
           \/ session' = [session EXCEPT ![i] = NoSession]
           \/ session' = [session EXCEPT ![i] = LetGo(i)]
    PROVE  Safe'
<1>0. Books /\ NoStrayConnection /\ TypeOK
  BY DEF Safe, Books
<1> DEFINE LetsGo(x) == x.tencent = NoStream /\ (x.ws = NoClient => x = NoSession)
<1>1. \A c \in Clients : /\ [NoSession EXCEPT !.ws = c] \in SessionType
                         /\ LetsGo([NoSession EXCEPT !.ws = c])
  <2>1. ASSUME NEW c \in Clients
        PROVE  /\ [NoSession EXCEPT !.ws = c] \in SessionType
               /\ [NoSession EXCEPT !.ws = c].tencent = NoStream
               /\ [NoSession EXCEPT !.ws = c].ws = c
    BY NoSessionType DEF NoSession, SessionType
  <2>2. QED
    BY <2>1, RelayAssumption
<1>2. NoSession \in SessionType /\ LetsGo(NoSession)
  BY NoSessionType DEF NoSession
<1>3. LetGo(i) \in SessionType /\ LetsGo(LetGo(i))
  <2>1. ASSUME session[i].ws = NoClient
        PROVE  LetGo(i) = NoSession
    <3>1. session[i] = NoSession
      BY <1>0, <2>1 DEF Books, SessionsOK, Registered
    <3>2. LetGo(i) = [NoSession EXCEPT !.tencent = NoSession.tencent,
                                       !.ready = NoSession.ready]
      BY <3>1 DEF LetGo, NoSession
    <3>3. QED
      BY <3>2, NoSessionType DEF SessionType
  <2>2. QED
    BY <1>0, <2>1, LetGoSession
<1>4. PICK x \in SessionType : LetsGo(x) /\ session' = [session EXCEPT ![i] = x]
  BY <1>1, <1>2, <1>3
<1>5. KeepsTurns /\ KeepsWords /\ NoStrayConnection'
  BY <1>0, <1>4, DropKeeps
<1>6. QED
  BY <1>5, QuietKeeps

\* The vendor socket of session i moves on.
LEMMA VendorMoves ==
    ASSUME Safe, (TypeOK /\ IdsOK)', NEW i \in Ids, Opened(i) \/ HangUp(i)
    PROVE  Safe'
<1> DEFINE t == session[i].tencent
<1>0. /\ Books /\ NoStrayConnection /\ vendor \in [Streams -> VendorType]
      /\ UNCHANGED <<client, session, turnOf, stream>>
  BY DEF Safe, Books, TypeOK, Opened, HangUp
<1>1. Connected(i) /\ t \in Streams /\ Spoken(t)
  BY DEF Opened, HangUp, Open, Connected, Safe, Books, ConnectedOK, TypeOK, SessionType
<1>2. PICK st \in {"open", "closing"} :
        /\ vendor' = [vendor EXCEPT ![t].state = st]
        /\ st = "open" => vendor[t].state = "connecting"
        /\ st = "closing" => vendor[t].state = "open"
  BY DEF Opened, HangUp, Open
<1>3. \A s \in Streams : /\ vendor'[s].said = vendor[s].said
                         /\ s # t => vendor'[s] = vendor[s]
  BY <1>0, <1>2 DEF VendorType
<1>4. vendor'[t].state = st
  BY <1>0, <1>1, <1>2 DEF VendorType
<1>5. KeepsTurns
  <2>1. \A s \in Streams : ~Announced(s) => vendor'[s].state = vendor[s].state
    BY <1>1, <1>3 DEF Spoken
  <2>2. QED
    BY <1>0, <2>1 DEF KeepsTurns, Spoken, Announced, Connected, Registered, Books, SessionsOK
<1>6. KeepsWords
  <2>1. ASSUME NEW k \in Ids, Connected(k)'
        PROVE  /\ vendor'[session[k].tencent].state = "connecting"
                        => vendor[session[k].tencent].state = "connecting"
               /\ Open(k)' /\ ~Open(k) => vendor[session[k].tencent].state = "connecting"
    <3>1. Connected(k) /\ session[k].tencent \in Streams
      BY <1>0, <2>1 DEF Connected, Books, TypeOK, SessionType
    <3>2. CASE session[k].tencent = t
      BY <1>0, <1>2, <1>4, <3>1, <3>2 DEF Open
    <3>3. CASE session[k].tencent # t
      BY <1>0, <1>3, <3>1, <3>3 DEF Open, Connected
    <3>4. QED
      BY <3>2, <3>3
  <2>2. QED
    BY <1>0, <1>3, <2>1 DEF KeepsWords
<1>7. NoStrayConnection'
  <2>1. session[stream[t].id].tencent = t
    BY <1>0, <1>1 DEF Books, ConnectedOK
  <2>2. QED
    BY <1>0, <1>3, <2>1 DEF NoStrayConnection
<1>8. QED
  BY <1>5, <1>6, <1>7, QuietKeeps

-----------------------------------------------------------------------------
(* The chunks of an answer *)

LEMMA FirstChunks ==
    ASSUME NEW s \in Streams, NEW n \in 0..MaxChunks
    PROVE  First(s, n) \in Seq(Chunk) /\ Len(First(s, n)) = n
<1>1. n \in Nat /\ \A k \in 1..n : <<s, k>> \in Chunk
  BY RelayAssumption DEF Chunk
<1>2. QED
  BY <1>1 DEF First

LEMMA FirstNone == ASSUME NEW s \in Streams PROVE First(s, 0) = <<>>
<1>1. 0 \in 0..MaxChunks
  BY RelayAssumption
<1>2. QED
  BY <1>1, FirstChunks, EmptySeq

LEMMA FirstNext ==
    ASSUME NEW s \in Streams, NEW n \in 0..MaxChunks, n < MaxChunks
    PROVE  Append(First(s, n), <<s, n + 1>>) = First(s, n + 1)
<1>1. n \in Nat /\ n + 1 \in 0..MaxChunks
  BY RelayAssumption
<1>2. /\ First(s, n) \in Seq(Chunk) /\ Len(First(s, n)) = n
      /\ First(s, n + 1) \in Seq(Chunk) /\ Len(First(s, n + 1)) = n + 1
  BY <1>1, FirstChunks
<1>3. <<s, n + 1>> \in Chunk
  BY <1>1, RelayAssumption DEF Chunk
<1> DEFINE longer == Append(First(s, n), <<s, n + 1>>)
<1>4. longer \in Seq(Chunk) /\ Len(longer) = n + 1
  BY <1>2, <1>3
<1>5. \A k \in 1..(n + 1) : longer[k] = First(s, n + 1)[k]
  BY <1>1, <1>2, <1>3 DEF First
<1>6. QED
  BY <1>2, <1>4, <1>5

LEMMA AppendAfter ==
    ASSUME NEW a \in Seq(Chunk), NEW b \in Seq(Chunk), NEW c \in Chunk
    PROVE  a \o Append(b, c) = Append(a \o b, c)
<1>1. <<c>> \in Seq(Chunk) /\ a \o b \in Seq(Chunk)
  OBVIOUS
<1>2. Append(b, c) = b \o <<c>> /\ Append(a \o b, c) = (a \o b) \o <<c>>
  BY <1>1, AppendIsConcat
<1>3. (a \o b) \o <<c>> = a \o (b \o <<c>>)
  BY <1>1, ConcatAssociative
<1>4. QED
  BY <1>2, <1>3

-----------------------------------------------------------------------------
(* The steps of the events *)

\* The active turn of a connected session is that of its vendor socket.
LEMMA ActiveIsConnected ==
    ASSUME Books, NEW s \in Streams, Announced(s), Connected(stream[s].id)
    PROVE  IsActive(s) <=> session[stream[s].id].tencent = s
<1> DEFINE i == stream[s].id
           t == session[i].tencent
<1>1. i \in Ids
  BY DEF Announced, Books, IdsOK
<1>2. t \in Streams /\ Spoken(t) /\ stream[t].id = i /\ stream[t].turn = session[i].activeTurn
  BY <1>1 DEF Books, ConnectedOK, Connected, TypeOK, SessionType
<1>3. Registered(i)
  BY <1>1, RelayAssumption DEF Books, SessionsOK, NoSession, Connected
<1>4. QED
  BY <1>2, <1>3 DEF IsActive, Spoken, Books, TurnsDiffer

\* The end event leaves what has been spoken and kept back as it is.
LEMMA EndKeeps ==
    ASSUME Safe, (TypeOK /\ IdsOK)', NEW s \in Streams, End(s)
    PROVE  Safe'
<1> DEFINE i == stream[s].id
<1>0. /\ Books /\ NoStrayConnection /\ NothingHeldBack /\ session \in [Ids -> SessionType]
      /\ vendor \in [Streams -> VendorType] /\ stream \in [Streams -> StreamType]
      /\ stream[s].pc = "streaming" /\ i \in Ids
  BY DEF Safe, Books, TypeOK, End, IdsOK
<1>1. StreamsStay
  BY <1>0 DEF End, StreamsStay, StreamType, Announced
<1>2. UNCHANGED session
  <2>1. CASE CanSpeak(i)
    <3>1. session[i].pendingChunks = <<>>
      BY <1>0, <2>1 DEF CanSpeak, Open, NothingHeldBack
    <3>2. [session[i] EXCEPT !.pendingChunks = <<>>] = session[i]
      BY <1>0, <3>1 DEF SessionType
    <3>3. session' = session \/ session' = [session EXCEPT ![i] =
                                        [session[i] EXCEPT !.pendingChunks = <<>>]]
      BY <1>0 DEF End
    <3>4. QED
      BY <1>0, <3>2, <3>3
  <2>2. CASE ~CanSpeak(i)
    BY <2>2 DEF End
  <2>3. QED
    BY <2>1, <2>2
<1>3. \A t \in Streams : vendor'[t].said = vendor[t].said /\ vendor'[t].state = vendor[t].state
  <2>1. CASE UNCHANGED vendor
    BY <2>1
  <2>2. CASE Open(i) /\ ~UNCHANGED vendor
    <3> DEFINE u == session[i].tencent
               flushed == IF CanSpeak(i) THEN session[i].pendingChunks ELSE <<>>
    <3>1. u \in Streams
      BY <1>0, <2>2 DEF Open, Connected, SessionType
    <3>2. flushed = <<>>
      BY <1>0, <2>2 DEF CanSpeak, Open, NothingHeldBack
    <3>3. vendor[u].said \in Seq(Chunk) /\ vendor[u].said \o flushed = vendor[u].said
      BY <1>0, <3>1, <3>2, ConcatEmptySeq DEF VendorType
    <3>4. vendor' = [vendor EXCEPT ![u] = [vendor[u] EXCEPT !.complete = TRUE,
                                                          !.said = vendor[u].said \o flushed]]
      BY <1>0, <2>2, <3>1 DEF End
    <3>5. QED
      BY <1>0, <3>1, <3>3, <3>4 DEF VendorType
  <2>3. QED
    BY <2>1, <2>2 DEF End
<1>4. KeepsTurns /\ KeepsWords /\ NoStrayConnection'
  <2>1. KeepsTurns
    BY <1>0, <1>1, <1>2, <1>3
       DEF StreamsStay, KeepsTurns, Spoken, Books, SessionsOK, Registered
  <2>2. \A k \in Ids : Connected(k)' => Connected(k) /\ session[k].tencent \in Streams
    BY <1>0, <1>2 DEF Connected, SessionType
  <2>3. KeepsWords
    BY <1>1, <1>2, <1>3, <2>2 DEF StreamsStay, KeepsWords, Open, Connected
  <2>4. NoStrayConnection'
    BY <1>0, <1>1, <1>2, <1>3 DEF StreamsStay, NoStrayConnection, Books, StreamsOK
  <2>5. QED
    BY <2>1, <2>3, <2>4
<1>5. QED
  BY <1>4, QuietKeeps

\* Once the vendor is ready, everything kept back is spoken.
LEMMA ReadyKeeps ==
    ASSUME Safe, (TypeOK /\ IdsOK)', NEW i \in Ids, Ready(i)
    PROVE  Safe'
<1> DEFINE t == session[i].tencent
           said == vendor[t].said \o session[i].pendingChunks
<1>0. /\ Books /\ NoStrayConnection /\ EveryTurnInOrder /\ NothingHeldBack
      /\ session \in [Ids -> SessionType] /\ vendor \in [Streams -> VendorType]
      /\ stream \in [Streams -> StreamType]
      /\ UNCHANGED <<client, turnOf, stream>>
      /\ Open(i) /\ Connected(i)
  BY DEF Safe, Books, TypeOK, Ready, Open
<1>1. t \in Streams
  BY <1>0 DEF Connected, SessionType
<1>2. vendor' = [vendor EXCEPT ![t] = [vendor[t] EXCEPT !.said = said]]
  BY <1>0 DEF Ready, Speak
<1>3. /\ vendor'[t].said = said
      /\ \A s \in Streams : /\ s # t => vendor'[s] = vendor[s]
                            /\ vendor'[s].state = vendor[s].state
  BY <1>0, <1>1, <1>2 DEF VendorType
<1>4. session' = [session EXCEPT ![i] =
                    [session[i] EXCEPT !.ready = TRUE, !.pendingChunks = <<>>]]
  BY <1>0 DEF Ready
<1>5. /\ session'[i].tencent = t /\ session'[i].pendingChunks = <<>>
      /\ session'[i].activeTurn = session[i].activeTurn
      /\ session'[i].ws = session[i].ws
      /\ \A k \in Ids : k # i => session'[k] = session[k]
  BY <1>0, <1>4 DEF SessionType
<1>6. \A k \in Ids : session[k].tencent = t => k = i
  BY <1>0, <1>1, RelayAssumption DEF Books, ConnectedOK, Connected
<1>7. Registered(i)
  BY <1>0, RelayAssumption DEF Books, SessionsOK, NoSession, Connected
<1>8. KeepsTurns
  <2>1. \A k \in Ids :
            /\ Connected(k)' => /\ session'[k].tencent = session[k].tencent
                                /\ session'[k].activeTurn = session[k].activeTurn
            /\ ~Registered(k)' => session'[k] = NoSession
    BY <1>0, <1>5, <1>7 DEF Connected, Registered, Books, SessionsOK
  <2>2. QED
    BY <1>0, <1>3, <2>1 DEF KeepsTurns, Spoken, Announced
<1>9. said = Produced(t)
  BY <1>0 DEF EveryTurnInOrder
<1>10. EveryTurnInOrder'
  <2>1. ASSUME NEW s \in Streams
        PROVE  \E n \in 0..stream'[s].sent : vendor'[s].said = First(s, n)
    <3>1. CASE s = t
      <4>1. stream[t].sent \in 0..stream[t].sent
        BY <1>0, <1>1, RelayAssumption DEF StreamType
      <4>2. QED
        BY <1>0, <1>3, <1>9, <3>1, <4>1 DEF Produced
    <3>2. CASE s # t
      BY <1>0, <1>3, <3>2 DEF EveryTurnInOrder
    <3>3. QED
      BY <3>1, <3>2
  <2>2. ASSUME NEW k \in Ids, Connected(k)'
        PROVE  LET s == session'[k].tencent
               IN  vendor'[s].said \o session'[k].pendingChunks = First(s, stream'[s].sent)
    <3>1. CASE k = i
      <4>1. stream[t].sent \in 0..MaxChunks
        BY <1>0, <1>1 DEF StreamType
      <4>2. said \in Seq(Chunk)
        BY <1>1, <1>9, <4>1, FirstChunks DEF Produced
      <4>3. said \o <<>> = said
        BY <4>2, ConcatEmptySeq
      <4>4. QED
        BY <1>0, <1>3, <1>5, <1>9, <3>1, <4>3 DEF Produced
    <3>2. CASE k # i
      <4>1. Connected(k) /\ session[k].tencent \in Streams /\ session[k].tencent # t
        BY <1>0, <1>5, <1>6, <2>2, <3>2 DEF Connected, SessionType
      <4> DEFINE u == session[k].tencent
      <4>2. vendor[u].said \o session[k].pendingChunks = First(u, stream[u].sent)
        BY <1>0, <4>1 DEF EveryTurnInOrder, Produced
      <4>3. session'[k] = session[k] /\ vendor'[u] = vendor[u] /\ stream'[u] = stream[u]
        BY <1>0, <1>3, <1>5, <3>2, <4>1
      <4>4. QED
        BY <4>2, <4>3
    <3>3. QED
      BY <3>1, <3>2
  <2>3. QED
    BY <2>1, <2>2 DEF EveryTurnInOrder, Produced, First
<1>11. NothingHeldBack'
  <2>1. ASSUME NEW k \in Ids, session'[k].ready, Connected(k)'
        PROVE  /\ vendor'[session'[k].tencent].state # "connecting"
               /\ Open(k)' => session'[k].pendingChunks = <<>>
    <3>1. CASE k = i
      BY <1>0, <1>1, <1>3, <1>5, <3>1 DEF Open
    <3>2. CASE k # i
      <4> DEFINE u == session[k].tencent
      <4>1. session'[k] = session[k] /\ Connected(k) /\ u \in Streams
        BY <1>0, <1>5, <2>1, <3>2 DEF Connected, SessionType
      <4>2. vendor'[u].state = vendor[u].state
        BY <1>3, <4>1
      <4>3. u # NoStream /\ (vendor[u].state = "open" => session[k].pendingChunks = <<>>)
            /\ vendor[u].state # "connecting"
        BY <1>0, <2>1, <4>1 DEF NothingHeldBack, Open, Connected
      <4>4. QED
        BY <4>1, <4>2, <4>3 DEF Open
    <3>3. QED
      BY <3>1, <3>2
  <2>2. QED
    BY <2>1 DEF NothingHeldBack
<1>12. NoStrayConnection'
  BY <1>0, <1>3, <1>5 DEF NoStrayConnection, Books, StreamsOK, IdsOK, Announced
<1>13. QED
  <2>1. (SessionsOK /\ StreamsOK /\ TurnsDiffer /\ ConnectedOK)'
    BY <1>0, <1>8, KeepsBooks DEF Books
  <2>2. QED
    BY <1>10, <1>11, <1>12, <2>1 DEF Safe, Books

\* A chunk is spoken or kept back by the session that speaks its answer, and
\* by no other.
LEMMA ChunkKeeps ==
    ASSUME Safe, (TypeOK /\ IdsOK)', NEW s \in Streams, SendChunk(s)
    PROVE  Safe'
<1> DEFINE i == stream[s].id
           n == stream[s].sent
           chunk == <<s, n + 1>>
<1>0. /\ Books /\ NoStrayConnection /\ EveryTurnInOrder /\ NothingHeldBack
      /\ session \in [Ids -> SessionType] /\ vendor \in [Streams -> VendorType]
      /\ stream \in [Streams -> StreamType]
      /\ UNCHANGED <<client, turnOf>>
      /\ i \in Ids /\ Announced(s) /\ n < MaxChunks
  BY DEF Safe, Books, TypeOK, SendChunk, IdsOK, Announced
<1>1. n \in 0..MaxChunks /\ n \in Nat
  BY <1>0, RelayAssumption DEF StreamType
<1>2. chunk \in Chunk
  BY <1>0, <1>1, RelayAssumption DEF Chunk
<1>3. stream' = [stream EXCEPT ![s] = [stream[s] EXCEPT !.sent = n + 1]]
  BY <1>0 DEF SendChunk
<1>4. /\ stream'[s].sent = n + 1
      /\ \A t \in Streams : /\ t # s => stream'[t] = stream[t]
                            /\ stream'[t].pc = stream[t].pc
                            /\ stream'[t].id = stream[t].id
                            /\ stream'[t].tts = stream[t].tts
                            /\ stream'[t].turn = stream[t].turn
  BY <1>0, <1>3 DEF StreamType
<1>5. /\ First(s, n + 1) = Append(First(s, n), chunk)
      /\ First(s, n) \in Seq(Chunk)
  BY <1>0, <1>1, FirstChunks, FirstNext
<1>6. \A k \in Ids : session[k].tencent = s => k = i /\ Connected(i)
  BY <1>0, RelayAssumption DEF Books, ConnectedOK, Connected
<1>7. IsActive(s) /\ Connected(i) => session[i].tencent = s
  BY <1>0, ActiveIsConnected
<1>8. Connected(i) /\ session[i].tencent = s => IsActive(s)
  BY <1>0, ActiveIsConnected
\* Sessions other than the one that speaks s, and answers other than s.
<1>9. ASSUME NEW k \in Ids, Connected(k), session[k].tencent # s,
             session'[k] = session[k],
             \A t \in Streams : t # s => vendor'[t] = vendor[t]
      PROVE  LET t == session'[k].tencent
             IN  vendor'[t].said \o session'[k].pendingChunks = First(t, stream'[t].sent)
  <2> DEFINE t == session[k].tencent
  <2>1. t \in Streams
    BY <1>0, <1>9 DEF Connected, SessionType
  <2>2. vendor[t].said \o session[k].pendingChunks = First(t, stream[t].sent)
    BY <1>0, <1>9 DEF EveryTurnInOrder, Produced
  <2>3. vendor'[t] = vendor[t] /\ stream'[t] = stream[t]
    BY <1>4, <1>9, <2>1
  <2>4. QED
    BY <1>9, <2>2, <2>3
<1>10. ASSUME NEW t \in Streams, vendor'[t] = vendor[t]
       PROVE  \E m \in 0..stream'[t].sent : vendor'[t].said = First(t, m)
  <2>1. PICK m \in 0..stream[t].sent : vendor[t].said = First(t, m)
    BY <1>0 DEF EveryTurnInOrder
  <2>2. m \in 0..stream'[t].sent
    BY <1>1, <1>4
  <2>3. QED
    BY <1>10, <2>1, <2>2
<1>11. CASE ~IsActive(s) /\ UNCHANGED <<session, vendor>>
  <2>1. KeepsTurns
    BY <1>0, <1>4, <1>11
       DEF KeepsTurns, Spoken, Announced, Connected, Registered, Books, SessionsOK
  <2>2. EveryTurnInOrder'
    <3>1. ASSUME NEW k \in Ids, Connected(k)'
          PROVE  LET t == session'[k].tencent
                 IN  vendor'[t].said \o session'[k].pendingChunks = First(t, stream'[t].sent)
      BY <1>6, <1>8, <1>9, <1>11, <3>1 DEF Connected
    <3>2. QED
      BY <1>10, <1>11, <3>1 DEF EveryTurnInOrder, Produced, First
  <2>3. NothingHeldBack' /\ NoStrayConnection'
    BY <1>0, <1>4, <1>11 DEF NothingHeldBack, Open, Connected, NoStrayConnection
  <2>4. QED
    BY <1>0, <2>1, <2>2, <2>3, KeepsBooks DEF Safe, Books
<1>12. CASE IsActive(s) /\ CanSpeak(i) /\ Speak(i, <<chunk>>) /\ UNCHANGED session
  <2>1. session[i].tencent = s /\ Connected(i) /\ session[i].pendingChunks = <<>>
    BY <1>0, <1>7, <1>12 DEF CanSpeak, Open, NothingHeldBack
  <2>2. vendor[s].said = First(s, n)
    <3>1. vendor[s].said \in Seq(Chunk)
      BY <1>0 DEF VendorType
    <3>2. vendor[s].said \o <<>> = Produced(s)
      BY <1>0, <2>1 DEF EveryTurnInOrder
    <3>3. QED
      BY <3>1, <3>2, ConcatEmptySeq DEF Produced
  <2>3. vendor' = [vendor EXCEPT ![s] = [vendor[s] EXCEPT !.said = vendor[s].said \o <<chunk>>]]
    BY <1>0, <1>12, <2>1 DEF Speak
  <2>4. vendor'[s].said = First(s, n + 1)
    <3>1. First(s, n) \o <<chunk>> = Append(First(s, n), chunk)
      BY <1>2, <1>5, AppendIsConcat
    <3>2. QED
      BY <1>0, <1>5, <2>2, <2>3, <3>1 DEF VendorType
  <2>5. \A t \in Streams : /\ t # s => vendor'[t] = vendor[t]
                           /\ vendor'[t].state = vendor[t].state
    BY <1>0, <2>3 DEF VendorType
  <2>6. KeepsTurns
    BY <1>0, <1>4, <1>12, <2>5
       DEF KeepsTurns, Spoken, Announced, Connected, Registered, Books, SessionsOK
  <2>7. EveryTurnInOrder'
    <3>1. ASSUME NEW k \in Ids, Connected(k)'
          PROVE  LET t == session'[k].tencent
                 IN  vendor'[t].said \o session'[k].pendingChunks = First(t, stream'[t].sent)
      <4>1. CASE session[k].tencent = s
        <5>1. k = i
          BY <1>6, <4>1
        <5>2. First(s, n + 1) \in Seq(Chunk)
          <6>1. n + 1 \in 0..MaxChunks
            BY <1>0, <1>1, RelayAssumption
          <6>2. QED
            BY <6>1, FirstChunks
        <5>3. First(s, n + 1) \o <<>> = First(s, n + 1)
          BY <5>2, ConcatEmptySeq
        <5>4. QED
          BY <1>4, <1>12, <2>1, <2>4, <5>1, <5>3
      <4>2. CASE session[k].tencent # s
        BY <1>9, <1>12, <2>5, <3>1, <4>2 DEF Connected
      <4>3. QED
        BY <4>1, <4>2
    <3>2. ASSUME NEW t \in Streams
          PROVE  \E m \in 0..stream'[t].sent : vendor'[t].said = First(t, m)
      <4>1. n + 1 \in 0..(n + 1)
        BY <1>1
      <4>2. QED
        BY <1>4, <1>10, <2>4, <2>5, <4>1
    <3>3. QED
      BY <3>1, <3>2 DEF EveryTurnInOrder, Produced, First
  <2>8. NothingHeldBack'
    BY <1>0, <1>12, <2>5 DEF NothingHeldBack, Open, Connected, SessionType
  <2>9. NoStrayConnection'
    BY <1>0, <1>4, <1>12, <2>5 DEF NoStrayConnection
  <2>10. QED
    BY <1>0, <2>6, <2>7, <2>8, <2>9, KeepsBooks DEF Safe, Books
<1>13. CASE /\ IsActive(s) /\ ~CanSpeak(i) /\ UNCHANGED vendor
            /\ session' = [session EXCEPT ![i].pendingChunks = Append(@, chunk)]
  <2> DEFINE kept == session[i].pendingChunks
  <2>1. kept \in Seq(Chunk) /\ vendor[s].said \in Seq(Chunk)
    BY <1>0 DEF SessionType, VendorType
  <2>2. session' = [session EXCEPT ![i] = [session[i] EXCEPT !.pendingChunks = Append(kept, chunk)]]
    BY <1>0, <1>13
  <2>3. /\ session'[i].pendingChunks = Append(kept, chunk)
        /\ session'[i].ready = session[i].ready
        /\ session'[i].ws = session[i].ws
        /\ session'[i].tencent = session[i].tencent
        /\ session'[i].activeTurn = session[i].activeTurn
        /\ \A k \in Ids : k # i => session'[k] = session[k]
    BY <1>0, <2>2 DEF SessionType
  <2>4. \A k \in Ids : Connected(k)' => Connected(k)
    BY <2>3 DEF Connected
  <2>5. KeepsTurns
    <3>1. \A k \in Ids :
            /\ Connected(k)' => /\ session'[k].tencent = session[k].tencent
                                /\ session'[k].activeTurn = session[k].activeTurn
            /\ ~Registered(k)' => session'[k] = NoSession
      BY <1>0, <1>13, <2>3 DEF Connected, Registered, Books, SessionsOK, IsActive
    <3>2. QED
      BY <1>0, <1>4, <1>13, <3>1 DEF KeepsTurns, Spoken, Announced
  <2>6. EveryTurnInOrder'
    <3>1. ASSUME NEW k \in Ids, Connected(k)'
          PROVE  LET t == session'[k].tencent
                 IN  vendor'[t].said \o session'[k].pendingChunks = First(t, stream'[t].sent)
      <4>1. CASE session[k].tencent = s
        <5>1. k = i
          BY <1>6, <4>1
        <5>2. vendor[s].said \o kept = First(s, n)
          BY <1>0, <2>4, <3>1, <4>1, <5>1 DEF EveryTurnInOrder, Produced
        <5>3. vendor[s].said \o Append(kept, chunk) = Append(First(s, n), chunk)
          BY <1>2, <2>1, <5>2, AppendAfter
        <5>4. QED
          BY <1>4, <1>5, <1>13, <2>3, <4>1, <5>1, <5>3
      <4>2. CASE session[k].tencent # s
        <5>1. k # i
          BY <1>7, <1>13, <2>4, <3>1, <4>2
        <5>2. QED
          BY <1>9, <1>13, <2>3, <2>4, <3>1, <4>2, <5>1
      <4>3. QED
        BY <4>1, <4>2
    <3>2. QED
      BY <1>10, <1>13, <3>1 DEF EveryTurnInOrder, Produced, First
  <2>7. NothingHeldBack'
    BY <1>0, <1>13, <2>3, <2>4, ZenonT(40) DEF NothingHeldBack, Open, Connected, CanSpeak
  <2>8. NoStrayConnection'
    BY <1>0, <1>4, <1>13, <2>3 DEF NoStrayConnection, Books, IdsOK, StreamsOK, Announced
  <2>9. QED
    BY <1>0, <2>5, <2>6, <2>7, <2>8, KeepsBooks DEF Safe, Books
<1>14. QED
  BY <1>11, <1>12, <1>13 DEF SendChunk

\* A turn starts from nothing, under a number no other answer of its session
\* has.
LEMMA StartKeeps ==
    ASSUME Safe, (TypeOK /\ IdsOK)', NEW s \in Streams, Start(s)
    PROVE  Safe'
<1> DEFINE i == stream[s].id
           turn == nextTurn(i)
           started == [Streaming(s) EXCEPT !.turn = turn]
<1>0. /\ Books /\ NoStrayConnection /\ EveryTurnInOrder /\ NothingHeldBack
      /\ session \in [Ids -> SessionType] /\ vendor \in [Streams -> VendorType]
      /\ stream \in [Streams -> StreamType] /\ turnOf \in [Ids -> Nat]
      /\ TypeOK /\ i \in Ids /\ ~Announced(s) /\ stream[s].tts
  BY DEF Safe, Books, TypeOK, Start, IdsOK, Announced
<1>1. turn = turnOf[i] + 1 /\ turn \in Nat /\ turnOf' = [turnOf EXCEPT ![i] = turn]
  BY <1>0 DEF Start, nextTurn
<1>2. stream' = [stream EXCEPT ![s] = started]
  BY <1>0 DEF Start
<1>3. /\ stream'[s].id = i /\ stream'[s].turn = turn /\ Spoken(s)'
      /\ stream'[s].sent = 0 /\ stream[s].sent = 0
      /\ \A t \in Streams : t # s => stream'[t] = stream[t]
  <2>1. started.turn = turn /\ started.pc \in {"streaming", "over"} /\ started.id = i
        /\ started.tts = stream[s].tts /\ started.sent = stream[s].sent
    BY <1>0, <1>1, StreamingStream DEF StreamType
  <2>2. stream[s].sent = 0
    BY <1>0 DEF Books, StreamsOK
  <2>3. QED
    BY <1>0, <1>2, <2>1, <2>2 DEF Spoken, Announced
<1>4. \A t \in Streams : t # s => (Spoken(t)' <=> Spoken(t)) /\ (Announced(t)' <=> Announced(t))
  BY <1>3 DEF Spoken, Announced
<1>5. \A k \in Ids : Connected(k) => session[k].tencent \in Streams /\ session[k].tencent # s
  BY <1>0 DEF Books, ConnectedOK, Spoken, Connected, SessionType
<1>6. vendor[s].state = "new" /\ vendor[s].said = <<>>
  <2>1. PICK n \in 0..stream[s].sent : vendor[s].said = First(s, n)
    BY <1>0 DEF EveryTurnInOrder
  <2>2. n = 0
    BY <1>3, <2>1
  <2>3. QED
    BY <1>0, <2>1, <2>2, FirstNone DEF Books, StreamsOK
<1>7. TurnsDiffer'
  <2>1. \A t \in Streams : Spoken(t) /\ stream[t].id = i => stream[t].turn < turn
    BY <1>0, <1>1 DEF Books, StreamsOK, StreamType
  <2>2. QED
    BY <1>0, <1>3, <1>4, <2>1 DEF Books, TurnsDiffer, StreamType
<1>8. \A t \in Streams : Spoken(t)' => stream'[t].turn <= turnOf'[stream'[t].id]
  <2>1. ASSUME NEW t \in Streams, t # s, Spoken(t)
        PROVE  stream[t].turn <= turnOf'[stream[t].id]
    <3>1. stream[t].id \in Ids /\ stream[t].turn <= turnOf[stream[t].id]
      BY <1>0, <2>1 DEF Books, IdsOK, StreamsOK, Spoken, Announced
    <3>2. QED
      BY <1>0, <1>1, <2>1, <3>1 DEF StreamType
  <2>2. QED
    BY <1>0, <1>1, <1>3, <1>4, <2>1
<1>9. CASE UNCHANGED <<session, vendor>>
  <2>1. SessionsOK' /\ ConnectedOK'
    BY <1>0, <1>3, <1>4, <1>5, <1>9
       DEF Books, SessionsOK, Registered, ConnectedOK, Connected
  <2>2. StreamsOK'
    BY <1>0, <1>3, <1>4, <1>8, <1>9 DEF Books, StreamsOK, Spoken
  <2>3. NoStrayConnection'
    BY <1>0, <1>3, <1>6, <1>9 DEF NoStrayConnection
  <2>4. NothingHeldBack'
    BY <1>0, <1>9 DEF NothingHeldBack, Open, Connected
  <2>5. \A t \in Streams : stream'[t].sent = stream[t].sent
    BY <1>3
  <2>6. EveryTurnInOrder'
    BY <1>0, <1>5, <1>9, <2>5, ZenonT(40) DEF EveryTurnInOrder, Produced, First, Connected
  <2>7. QED
    BY <1>0, <1>7, <2>1, <2>2, <2>3, <2>4, <2>6 DEF Safe, Books
<1>10. CASE /\ Registered(i)
            /\ session' = [session EXCEPT ![i] =
                            [LetGo(i) EXCEPT !.tencent = s, !.activeTurn = turn,
                                             !.pendingChunks = <<>>]]
            /\ vendor' = [Hung(i) EXCEPT ![s].state = "connecting"]
  <2>1. /\ session'[i].tencent = s /\ session'[i].activeTurn = turn
        /\ session'[i].pendingChunks = <<>> /\ ~session'[i].ready
        /\ session'[i].ws = session[i].ws
        /\ \A k \in Ids : k # i => session'[k] = session[k]
    <3>1. PICK x \in SessionType : x = LetGo(i)
      BY <1>0, LetGoSession
    <3>2. session' = [session EXCEPT ![i] = [x EXCEPT !.tencent = s, !.activeTurn = turn,
                                                      !.pendingChunks = <<>>]]
      BY <1>10, <3>1
    <3>3. x.ws = session[i].ws /\ x.ready = FALSE
      BY <1>0, <3>1, LetGoSession
    <3>4. QED
      BY <1>0, <3>2, <3>3 DEF SessionType
  <2>2. /\ vendor'[s].state = "connecting" /\ vendor'[s].said = <<>>
        /\ \A t \in Streams :
             /\ vendor'[t].said = vendor[t].said
             /\ t # s /\ session[i].tencent = t => vendor'[t].state = "closed"
             /\ t # s /\ session[i].tencent # t => vendor'[t] = vendor[t]
    <3>1. PICK f \in [Streams -> VendorType] :
            /\ vendor' = [f EXCEPT ![s].state = "connecting"]
            /\ \A t \in Streams :
                 /\ f[t].said = vendor[t].said
                 /\ session[i].tencent = t => f[t].state = "closed"
                 /\ session[i].tencent # t => f[t] = vendor[t]
      BY <1>0, <1>10, HungUp
    <3>2. QED
      BY <1>6, <3>1 DEF VendorType
  <2>3. \A k \in Ids : k # i /\ Connected(k) =>
            vendor'[session[k].tencent] = vendor[session[k].tencent]
    <3>1. ASSUME NEW k \in Ids, k # i, Connected(k)
          PROVE  session[i].tencent # session[k].tencent
      <4>1. session[k].tencent # NoStream
        BY <3>1 DEF Connected
      <4>2. QED
        BY <1>0, <3>1, <4>1 DEF Books, ConnectedOK, Connected
    <3>2. QED
      BY <1>5, <2>2, <3>1
  <2>4. SessionsOK'
    BY <1>0, <1>10, <2>1 DEF Books, SessionsOK, Registered
  <2>5. ConnectedOK'
    <3>1. ASSUME NEW k \in Ids, Connected(k)'
          PROVE  (LET t == session[k].tencent
                  IN  Spoken(t) /\ stream[t].id = k /\ stream[t].turn = session[k].activeTurn)'
      <4>1. CASE k = i
        BY <1>3, <2>1, <4>1 DEF Spoken, Announced
      <4>2. CASE k # i
        <5>1. session'[k] = session[k] /\ Connected(k)
          BY <2>1, <3>1, <4>2 DEF Connected
        <5>2. stream'[session[k].tencent] = stream[session[k].tencent]
          BY <1>3, <1>5, <5>1
        <5>3. QED
          BY <1>0, <5>1, <5>2 DEF Books, ConnectedOK, Spoken, Announced
      <4>3. QED
        BY <4>1, <4>2
    <3>2. QED
      BY <3>1 DEF ConnectedOK
  <2>6. StreamsOK'
    <3>1. \A t \in Streams : ~Announced(t)' => t # s /\ session[i].tencent # t
      BY <1>0, <1>3, <1>4, RelayAssumption DEF Spoken, Books, ConnectedOK, Connected
    <3>2. QED
      BY <1>0, <1>3, <1>4, <1>8, <2>2, <3>1 DEF Books, StreamsOK
  <2>7. NoStrayConnection'
    <3>1. ASSUME NEW t \in Streams, t # s, vendor'[t].state \in {"connecting", "open"}
          PROVE  session'[stream'[t].id].tencent = t
      <4>1. session[i].tencent # t /\ vendor'[t] = vendor[t]
        BY <2>2, <3>1
      <4>2. session[stream[t].id].tencent = t /\ stream[t].id \in Ids
        BY <1>0, <3>1, <4>1
           DEF NoStrayConnection, Books, StreamsOK, IdsOK, Announced
      <4>3. QED
        BY <1>3, <2>1, <3>1, <4>1, <4>2
    <3>2. QED
      BY <1>3, <2>1, <3>1 DEF NoStrayConnection
  <2>8. NothingHeldBack'
    <3>1. ASSUME NEW k \in Ids, session'[k].ready, Connected(k)'
          PROVE  /\ vendor'[session'[k].tencent].state # "connecting"
                 /\ Open(k)' => session'[k].pendingChunks = <<>>
      <4>1. k # i /\ session'[k] = session[k] /\ Connected(k)
        BY <2>1, <3>1 DEF Connected
      <4>2. vendor'[session[k].tencent] = vendor[session[k].tencent]
        BY <2>3, <4>1
      <4>3. QED
        BY <1>0, <3>1, <4>1, <4>2 DEF NothingHeldBack, Open, Connected
    <3>2. QED
      BY <3>1 DEF NothingHeldBack
  <2>9. EveryTurnInOrder'
    <3>1. ASSUME NEW k \in Ids, Connected(k)'
          PROVE  LET t == session'[k].tencent
                 IN  vendor'[t].said \o session'[k].pendingChunks = First(t, stream'[t].sent)
      <4>1. CASE k = i
        <5>1. <<>> \o <<>> = First(s, 0)
          BY FirstNone
        <5>2. QED
          BY <1>3, <2>1, <2>2, <4>1, <5>1
      <4>2. CASE k # i
        <5> DEFINE t == session[k].tencent
        <5>1. session'[k] = session[k] /\ Connected(k) /\ t \in Streams /\ t # s
          BY <1>5, <2>1, <3>1, <4>2 DEF Connected
        <5>2. vendor[t].said \o session[k].pendingChunks = First(t, stream[t].sent)
          BY <1>0, <5>1 DEF EveryTurnInOrder, Produced
        <5>3. vendor'[t] = vendor[t] /\ stream'[t] = stream[t]
          BY <1>3, <2>3, <4>2, <5>1
        <5>4. QED
          BY <5>1, <5>2, <5>3
      <4>3. QED
        BY <4>1, <4>2
    <3>2. \A t \in Streams : stream'[t].sent = stream[t].sent
      BY <1>3
    <3>3. \A t \in Streams : \E n \in 0..stream'[t].sent : vendor'[t].said = First(t, n)
      BY <1>0, <2>2, <3>2 DEF EveryTurnInOrder
    <3>4. QED
      BY <3>1, <3>3 DEF EveryTurnInOrder, Produced, First
  <2>10. QED
    BY <1>0, <1>7, <2>4, <2>5, <2>6, <2>7, <2>8, <2>9 DEF Safe, Books
<1>11. QED
  BY <1>9, <1>10 DEF Start

-----------------------------------------------------------------------------
(* The invariant *)

LEMMA SafeInit == Init => Safe
<1> SUFFICES ASSUME Init
             PROVE  Safe
  OBVIOUS
<1>1. Books
  BY RelayTypeInit DEF Init, Books, IdsOK, SessionsOK, StreamsOK, TurnsDiffer, ConnectedOK,
     Spoken, Announced, Connected, NoSession
<1>2. NoStrayConnection /\ NothingHeldBack
  BY DEF Init, NoStrayConnection, NothingHeldBack, Connected, NoSession
<1>3. EveryTurnInOrder
  <2>1. \A s \in Streams : vendor[s].said = First(s, 0) /\ 0 \in 0..stream[s].sent
    BY FirstNone DEF Init
  <2>2. \A i \in Ids : ~Connected(i)
    BY DEF Init, Connected, NoSession
  <2>3. QED
    BY <2>1, <2>2 DEF EveryTurnInOrder
<1>4. QED
  BY <1>1, <1>2, <1>3 DEF Safe

LEMMA SafeNext == Safe /\ [Next]_vars => Safe'
<1> SUFFICES ASSUME Safe, [Next]_vars
             PROVE  Safe'
  OBVIOUS
<1>0. Books /\ TypeOK /\ IdsOK /\ (TypeOK /\ IdsOK)'
  BY RelayTypeNext, IdsNext DEF Safe, Books
<1>1. CASE UNCHANGED vars
  <2>1. StreamsStay /\ UNCHANGED <<session, vendor>>
    BY <1>1 DEF vars, StreamsStay, Announced
  <2>2. QED
    BY <1>0, <2>1, StayKeeps, QuietKeeps DEF Safe
<1>2. CASE \E c \in Clients : Browser(c)
  <2>1. PICK c \in Clients : Browser(c)
    BY <1>2
  <2>2. UNCHANGED <<turnOf, stream>>
    BY <2>1 DEF Browser, Connect, Leave, ClientClosed
  <2>3. StreamsStay
    BY <2>2 DEF StreamsStay, Announced
  <2>4. CASE \E i \in Ids : Connect(c, i)
    <3>1. PICK i \in Ids : Connect(c, i)
      BY <2>4
    <3>2. vendor' = Hung(i) /\ session' = [session EXCEPT ![i] = [NoSession EXCEPT !.ws = c]]
      BY <3>1 DEF Connect
    <3>3. QED
      BY <1>0, <2>3, <3>2, LettingGo
  <2>5. CASE Leave(c)
    <3>1. UNCHANGED <<session, vendor>>
      BY <2>5 DEF Leave
    <3>2. QED
      BY <1>0, <2>3, <3>1, StayKeeps, QuietKeeps DEF Safe
  <2>6. CASE ClientClosed(c)
    <3>1. /\ client[c].id \in Ids
          /\ vendor' = Hung(client[c].id)
          /\ session' = [session EXCEPT ![client[c].id] = NoSession]
      BY <1>0, <2>6 DEF ClientClosed, IdsOK
    <3>2. QED
      BY <1>0, <2>3, <3>1, LettingGo
  <2>7. QED
    BY <2>1, <2>4, <2>5, <2>6 DEF Browser
<1>3. CASE \E s \in Streams : Answer(s)
  <2>1. PICK s \in Streams : Answer(s)
    BY <1>3
  <2>2. CASE \/ \E i \in Ids, tts \in BOOLEAN : Ask(s, i, tts)
             \/ StartSilent(s) \/ Written(s)
    <3>1. StreamsStay
      BY <1>0, <2>2, AnswersStay
    <3>2. UNCHANGED <<session, vendor>>
      BY <2>2 DEF Ask, StartSilent, Written
    <3>3. QED
      BY <1>0, <3>1, <3>2, StayKeeps, QuietKeeps DEF Safe
  <2>3. CASE Abort(s)
    <3>1. StreamsStay
      BY <1>0, <2>3, AnswersStay
    <3>2. /\ stream[s].id \in Ids
          /\ vendor' = Hung(stream[s].id)
          /\ session' = [session EXCEPT ![stream[s].id] = LetGo(stream[s].id)]
      BY <1>0, <2>3 DEF Abort, IdsOK
    <3>3. QED
      BY <1>0, <3>1, <3>2, LettingGo
  <2>4. CASE Start(s)
    BY <1>0, <2>4, StartKeeps
  <2>5. CASE SendChunk(s)
    BY <1>0, <2>5, ChunkKeeps
  <2>6. CASE End(s)
    BY <1>0, <2>6, EndKeeps
  <2>7. QED
    BY <2>1, <2>2, <2>3, <2>4, <2>5, <2>6 DEF Answer
<1>4. CASE \E i \in Ids : Vendor(i)
  <2>1. PICK i \in Ids : Vendor(i)
    BY <1>4
  <2>2. CASE Release(i)
    <3>1. StreamsStay
      BY <2>2 DEF Release, StreamsStay, Announced
    <3>2. vendor' = Hung(i) /\ session' = [session EXCEPT ![i] = LetGo(i)]
      BY <2>2 DEF Release
    <3>3. QED
      BY <1>0, <3>1, <3>2, LettingGo
  <2>3. CASE Opened(i) \/ HangUp(i)
    BY <1>0, <2>3, VendorMoves
  <2>4. CASE Ready(i)
    BY <1>0, <2>4, ReadyKeeps
  <2>5. QED
    BY <2>1, <2>2, <2>3, <2>4 DEF Vendor, Final, VendorError, VendorClosed
<1>5. QED
  BY <1>1, <1>2, <1>3, <1>4 DEF Next

LEMMA SafeAlways == Spec => []Safe
<1>1. QED
  BY SafeInit, SafeNext, PTL DEF Spec

\* A vendor socket hears the chunks of its own answer, in order, none twice
\* and none left out, however turns interrupt one another and browsers come
\* and go (TtsRelayService and TtsStreamPublisher).
THEOREM TurnsInOrder == Spec => []EveryTurnInOrder
<1>1. Safe => EveryTurnInOrder
  BY DEF Safe
<1>2. QED
  BY <1>1, SafeAlways, PTL

\* A vendor connection that is open is the one its session holds: closing,
\* interrupting and reconnecting leave none behind (closeTencentWs).
THEOREM NoneStray == Spec => []NoStrayConnection
<1>1. Safe => NoStrayConnection
  BY DEF Safe
<1>2. QED
  BY <1>1, SafeAlways, PTL

-----------------------------------------------------------------------------
(* Turns declared complete *)

\* An answer declared complete has been streamed to its end and spoken whole.
Whole ==
    \A s \in Streams : vendor[s].complete =>
        stream[s].pc \in {"flushed", "over"} /\ vendor[s].said = Produced(s)

\* A step that says nothing and declares nothing, and that streams no further
\* an answer that is complete.
LEMMA KeepsWhole ==
    ASSUME Whole,
           \A s \in Streams :
              /\ vendor'[s].said = vendor[s].said
              /\ vendor'[s].complete = vendor[s].complete
              /\ vendor[s].complete => /\ stream'[s].sent = stream[s].sent
                                       /\ stream'[s].pc \in {"flushed", "over"}
    PROVE  Whole'
<1>1. ASSUME NEW s \in Streams, vendor'[s].complete
      PROVE  stream'[s].pc \in {"flushed", "over"} /\ vendor'[s].said = First(s, stream'[s].sent)
  <2>1. vendor[s].complete /\ vendor[s].said = First(s, stream[s].sent)
    BY <1>1 DEF Whole, Produced
  <2>2. QED
    BY <2>1
<1>2. QED
  BY <1>1 DEF Whole, Produced, First

\* Hanging up neither speaks nor declares anything.
LEMMA HangingUpKeepsWhole ==
    ASSUME Safe, Whole, NEW i \in Ids, vendor' = Hung(i), UNCHANGED stream
    PROVE  Whole'
<1>1. \A s \in Streams : /\ vendor'[s].said = vendor[s].said
                         /\ vendor'[s].complete = vendor[s].complete
  BY HungUp DEF Safe, Books
<1>2. \A s \in Streams : vendor[s].complete => stream'[s].pc \in {"flushed", "over"}
  BY DEF Whole
<1>3. QED
  BY <1>1, <1>2, KeepsWhole

\* An answer that is asked for, written or dropped was not complete or is
\* streamed no further.
LEMMA AnswersKeepWhole ==
    ASSUME Safe, Whole, NEW s \in Streams,
           \/ \E i \in Ids, tts \in BOOLEAN : Ask(s, i, tts)
           \/ StartSilent(s) \/ Written(s) \/ Abort(s)
    PROVE  Whole'
<1>0. TypeOK /\ IdsOK
  BY DEF Safe, Books
<1>1. \A t \in Streams : stream'[t].sent = stream[t].sent
  BY <1>0, AnswersStay DEF StreamsStay
<1>2. \A t \in Streams : /\ vendor'[t].said = vendor[t].said
                         /\ vendor'[t].complete = vendor[t].complete
  <2>1. CASE Abort(s)
    <3>1. stream[s].id \in Ids /\ vendor' = Hung(stream[s].id)
      BY <1>0, <2>1 DEF Abort, IdsOK
    <3>2. QED
      BY <1>0, <3>1, HungUp
  <2>2. CASE ~Abort(s)
    BY <2>2 DEF Ask, StartSilent, Written
  <2>3. QED
    BY <2>1, <2>2
<1>3. \A t \in Streams : t # s => stream'[t] = stream[t]
  BY <1>0 DEF TypeOK, Ask, StartSilent, Written, Abort
<1>4. stream[s].pc \in {"flushed", "over"} => stream'[s].pc = "over"
  <2>1. PICK x \in StreamType : x = stream[s]
    BY <1>0 DEF TypeOK
  <2>2. CASE stream[s].pc \in {"flushed", "over"}
    <3>1. stream' = [stream EXCEPT ![s] = [x EXCEPT !.pc = "over"]]
      BY <2>1, <2>2 DEF Ask, StartSilent, Written, Abort
    <3>2. QED
      BY <1>0, <2>1, <3>1 DEF TypeOK, StreamType
  <2>3. QED
    BY <2>2
<1>5. \A t \in Streams : vendor[t].complete => stream'[t].pc \in {"flushed", "over"}
  BY <1>3, <1>4 DEF Whole
<1>6. QED
  BY <1>1, <1>2, <1>5, KeepsWhole

\* A turn that starts has not been declared complete.
LEMMA StartKeepsWhole ==
    ASSUME Safe, Whole, NEW s \in Streams, Start(s)
    PROVE  Whole'
<1> DEFINE i == stream[s].id
           turn == nextTurn(i)
<1>0. /\ TypeOK /\ i \in Ids /\ stream[s].pc \in {"asked", "dropped"}
      /\ stream \in [Streams -> StreamType] /\ vendor \in [Streams -> VendorType]
  BY DEF Safe, Books, TypeOK, IdsOK, Start
<1>1. ~vendor[s].complete
  BY <1>0 DEF Whole
<1>2. \A t \in Streams : t # s => stream'[t] = stream[t]
  BY <1>0 DEF Start
<1>3. \A t \in Streams : /\ Hung(i)[t].said = vendor[t].said
                         /\ Hung(i)[t].complete = vendor[t].complete
                         /\ Hung(i)[t] \in VendorType
  BY <1>0, HungUp
<1>4. \A t \in Streams : /\ vendor'[t].said = vendor[t].said
                         /\ vendor'[t].complete = vendor[t].complete
  <2>1. CASE UNCHANGED vendor
    BY <2>1
  <2>2. CASE vendor' = [Hung(i) EXCEPT ![s].state = "connecting"]
    <3>1. Hung(i) \in [Streams -> VendorType]
      BY <1>0, HungUp
    <3>2. vendor' = [Hung(i) EXCEPT ![s] = [Hung(i)[s] EXCEPT !.state = "connecting"]]
      BY <2>2
    <3>3. PICK v \in VendorType : v = Hung(i)[s]
      BY <1>3
    <3>4. /\ [v EXCEPT !.state = "connecting"].said = v.said
          /\ [v EXCEPT !.state = "connecting"].complete = v.complete
      BY DEF VendorType
    <3>5. /\ vendor'[s] = [v EXCEPT !.state = "connecting"]
          /\ \A t \in Streams : t # s => vendor'[t] = Hung(i)[t]
      BY <3>1, <3>2, <3>3
    <3>6. QED
      BY <1>3, <3>3, <3>4, <3>5
  <2>3. QED
    BY <2>1, <2>2 DEF Start
<1>5. \A t \in Streams : vendor[t].complete => /\ stream'[t].sent = stream[t].sent
                                               /\ stream'[t].pc \in {"flushed", "over"}
  BY <1>1, <1>2 DEF Whole
<1>6. QED
  BY <1>4, <1>5, KeepsWhole

\* A chunk is of an answer that is not complete, and is spoken to no other.
LEMMA ChunkKeepsWhole ==
    ASSUME Safe, Whole, NEW s \in Streams, SendChunk(s)
    PROVE  Whole'
<1> DEFINE i == stream[s].id
           chunk == <<s, stream[s].sent + 1>>
<1>0. /\ Books /\ i \in Ids /\ Announced(s) /\ stream[s].pc = "streaming"
      /\ stream \in [Streams -> StreamType] /\ vendor \in [Streams -> VendorType]
  BY DEF Safe, Books, TypeOK, IdsOK, SendChunk, Announced
<1>1. ~vendor[s].complete
  BY <1>0 DEF Whole
<1>2. \A t \in Streams : t # s => stream'[t] = stream[t]
  BY <1>0 DEF SendChunk
<1>3. /\ \A t \in Streams : t # s => vendor'[t] = vendor[t]
      /\ vendor'[s].complete = vendor[s].complete
  <2>1. CASE UNCHANGED vendor
    BY <2>1
  <2>2. CASE IsActive(s) /\ CanSpeak(i) /\ Speak(i, <<chunk>>)
    <3>1. session[i].tencent = s
      BY <1>0, <2>2, ActiveIsConnected DEF CanSpeak, Open
    <3>2. vendor' = [vendor EXCEPT ![s] =
                        [vendor[s] EXCEPT !.said = vendor[s].said \o <<chunk>>]]
      BY <2>2, <3>1 DEF Speak
    <3>3. QED
      BY <1>0, <3>2 DEF VendorType
  <2>3. QED
    BY <2>1, <2>2 DEF SendChunk
<1>4. ASSUME NEW t \in Streams, vendor'[t].complete
      PROVE  stream'[t].pc \in {"flushed", "over"} /\ vendor'[t].said = First(t, stream'[t].sent)
  <2>1. t # s
    BY <1>1, <1>3, <1>4
  <2>2. stream'[t] = stream[t] /\ vendor'[t] = vendor[t]
    BY <1>2, <1>3, <2>1
  <2>3. QED
    BY <1>4, <2>2 DEF Whole, Produced
<1>5. QED
  BY <1>4 DEF Whole, Produced, First

\* When the vendor was ready by then, the end of an answer finds all of it
\* spoken or speaks what was kept back, and only then declares it complete.
LEMMA EndKeepsWhole ==
    ASSUME Prompt, Safe, Whole, NEW s \in Streams, End(s)
    PROVE  Whole'
<1> DEFINE i == stream[s].id
<1>0. /\ Books /\ EveryTurnInOrder /\ i \in Ids /\ Announced(s) /\ stream[s].pc = "streaming"
      /\ stream \in [Streams -> StreamType] /\ vendor \in [Streams -> VendorType]
  BY DEF Safe, Books, TypeOK, IdsOK, End, Announced
<1>1. stream' = [stream EXCEPT ![s] = [stream[s] EXCEPT !.pc = "flushed"]]
  BY DEF End
<1>2. /\ stream'[s].pc = "flushed"
      /\ \A t \in Streams : /\ stream'[t].sent = stream[t].sent
                            /\ t # s => stream'[t] = stream[t]
  BY <1>0, <1>1 DEF StreamType
<1>3. CASE UNCHANGED vendor
  <2>1. \A t \in Streams : vendor[t].complete => stream'[t].pc \in {"flushed", "over"}
    BY <1>2 DEF Whole
  <2>2. QED
    BY <1>2, <1>3, <2>1, KeepsWhole
<1>4. CASE ~UNCHANGED vendor
  <2> DEFINE flushed == IF CanSpeak(i) THEN session[i].pendingChunks ELSE <<>>
             said == vendor[s].said \o session[i].pendingChunks
  <2>1. IsActive(s) /\ Open(i) /\ Connected(i)
    BY <1>4 DEF End, Open
  <2>2. session[i].tencent = s
    BY <1>0, <2>1, ActiveIsConnected
  <2>3. flushed = session[i].pendingChunks
    BY <2>1 DEF End, CanSpeak
  <2>4. vendor' = [vendor EXCEPT ![s] = [vendor[s] EXCEPT !.complete = TRUE, !.said = said]]
    <3>1. vendor' = [vendor EXCEPT ![session[i].tencent] =
                        [vendor[session[i].tencent] EXCEPT
                            !.complete = TRUE,
                            !.said = vendor[session[i].tencent].said \o flushed]]
      BY <1>4, <2>1 DEF End
    <3>2. QED
      BY <2>2, <2>3, <3>1
  <2>5. said = First(s, stream[s].sent)
    BY <1>0, <2>1, <2>2 DEF EveryTurnInOrder, Produced
  <2> HIDE DEF said
  <2>6. /\ vendor'[s].said = said
        /\ \A t \in Streams : t # s => vendor'[t] = vendor[t]
    BY <1>0, <2>4 DEF VendorType
  <2>7. ASSUME NEW t \in Streams, vendor'[t].complete
        PROVE  stream'[t].pc \in {"flushed", "over"}
               /\ vendor'[t].said = First(t, stream'[t].sent)
    <3>1. CASE t = s
      BY <1>2, <2>5, <2>6, <3>1
    <3>2. CASE t # s
      <4>1. stream'[t] = stream[t] /\ vendor'[t] = vendor[t]
        BY <1>2, <2>6, <3>2
      <4>2. QED
        BY <2>7, <4>1 DEF Whole, Produced
    <3>3. QED
      BY <3>1, <3>2
  <2>8. QED
    BY <2>7 DEF Whole, Produced, First
<1>5. QED
  BY <1>3, <1>4

\* What is spoken once the vendor is ready is the rest of the answer.
LEMMA ReadyKeepsWhole ==
    ASSUME Safe, Whole, NEW i \in Ids, Ready(i)
    PROVE  Whole'
<1> DEFINE t == session[i].tencent
           said == vendor[t].said \o session[i].pendingChunks
<1>0. /\ EveryTurnInOrder /\ vendor \in [Streams -> VendorType]
      /\ session \in [Ids -> SessionType] /\ Open(i) /\ Connected(i) /\ UNCHANGED stream
  BY DEF Safe, Books, TypeOK, Ready, Open
<1>1. t \in Streams /\ said = Produced(t)
  BY <1>0 DEF Connected, SessionType, EveryTurnInOrder
<1>2. vendor' = [vendor EXCEPT ![t] = [vendor[t] EXCEPT !.said = said]]
  BY DEF Ready, Speak
<1> HIDE DEF said
<1>3. /\ vendor'[t].said = said
      /\ \A s \in Streams : /\ s # t => vendor'[s] = vendor[s]
                            /\ vendor'[s].complete = vendor[s].complete
  BY <1>0, <1>1, <1>2 DEF VendorType
<1>4. ASSUME NEW s \in Streams, vendor'[s].complete
      PROVE  stream'[s].pc \in {"flushed", "over"} /\ vendor'[s].said = Produced(s)
  <2>1. vendor[s].complete
    BY <1>3, <1>4
  <2>2. QED
    BY <1>0, <1>1, <1>3, <2>1 DEF Whole
<1>5. QED
  BY <1>0, <1>4 DEF Whole, Produced, First

LEMMA WholeNext == ASSUME Prompt PROVE Safe /\ Whole /\ [Next]_vars => Whole'
<1> SUFFICES ASSUME Safe, Whole, [Next]_vars
             PROVE  Whole'
  OBVIOUS
<1>0. TypeOK /\ IdsOK
  BY DEF Safe, Books
<1>1. CASE UNCHANGED <<stream, vendor>>
  BY <1>1 DEF Whole, Produced, First
<1>2. CASE \E c \in Clients : Browser(c)
  <2>1. PICK c \in Clients : Browser(c)
    BY <1>2
  <2>2. CASE \E i \in Ids : Connect(c, i)
    BY <2>2, HangingUpKeepsWhole DEF Connect
  <2>3. CASE Leave(c)
    BY <1>1, <2>3 DEF Leave
  <2>4. CASE ClientClosed(c)
    <3>1. client[c].id \in Ids /\ vendor' = Hung(client[c].id) /\ UNCHANGED stream
      BY <1>0, <2>4 DEF ClientClosed, IdsOK
    <3>2. QED
      BY <3>1, HangingUpKeepsWhole
  <2>5. QED
    BY <2>1, <2>2, <2>3, <2>4 DEF Browser
<1>3. CASE \E s \in Streams : Answer(s)
  BY <1>3, AnswersKeepWhole, StartKeepsWhole, ChunkKeepsWhole, EndKeepsWhole DEF Answer
<1>4. CASE \E i \in Ids : Vendor(i)
  <2>1. PICK i \in Ids : Vendor(i)
    BY <1>4
  <2>2. CASE Release(i)
    BY <2>2, HangingUpKeepsWhole DEF Release
  <2>3. CASE Opened(i) \/ HangUp(i)
    <3>1. session[i].tencent \in Streams /\ UNCHANGED stream
      BY <1>0, <2>3 DEF Opened, HangUp, Open, Connected, TypeOK, SessionType
    <3>2. PICK st \in {"open", "closing"} :
            vendor' = [vendor EXCEPT ![session[i].tencent].state = st]
      BY <2>3 DEF Opened, HangUp
    <3>3. \A s \in Streams : /\ vendor'[s].said = vendor[s].said
                             /\ vendor'[s].complete = vendor[s].complete
      BY <1>0, <3>1, <3>2 DEF TypeOK, VendorType
    <3>4. \A s \in Streams : vendor[s].complete => stream'[s].pc \in {"flushed", "over"}
      BY <3>1 DEF Whole
    <3>5. QED
      BY <3>1, <3>3, <3>4, KeepsWhole
  <2>4. CASE Ready(i)
    BY <2>4, ReadyKeepsWhole
  <2>5. QED
    BY <2>1, <2>2, <2>3, <2>4 DEF Vendor, Final, VendorError, VendorClosed
<1>5. QED
  BY <1>1, <1>2, <1>3, <1>4 DEF Next, vars

\* Where the vendor is ready by the time an answer ends, a turn is declared
\* complete only once all of it has been spoken, and nothing is spoken after
\* that (handleEnd flushes what is kept back before it sends FINAL).
THEOREM CompletedTurnsAreWhole == ASSUME Prompt PROVE Spec => []CompleteIsWhole
<1>1. Init => Whole
  BY DEF Init, Whole
<1>2. Safe /\ Whole /\ [Next]_vars => Whole'
  BY WholeNext
<1>3. Whole => CompleteIsWhole
  BY DEF Whole, CompleteIsWhole
<1>4. QED
  BY <1>1, <1>2, <1>3, SafeAlways, PTL DEF Spec

=============================================================================
