----------------------------- MODULE Chat_proofs -----------------------------
(***************************************************************************)
(* What conversations, their windows and the long memory keep to, for every  *)
(* number of sessions, turns, requests and failures, and every window.       *)
(***************************************************************************)
EXTENDS Chat, SequenceTheorems, TLAPS

-----------------------------------------------------------------------------
(* The invariant, by parts *)

TurnType == [pc : TurnPC, kind : {"none", "chat", "stream", "speech"},
             session : Sessions \cup {Null}, loading : {"no", "try", "rows", "fill", "loaded"},
             history : Seq(Messages), cancelled : BOOLEAN, answer : Answers,
             title : Titles \cup {Null}]

OpType == [pc : {"new", "rename", "messages", "session", "done"},
           kind : {"none", "rename", "remove"}, session : Sessions \cup {Null}]

\* A turn knows its session where it needs one, and has nothing before it is asked.
TurnSound(r) ==
    /\ r.pc \in {"new", "create"} => r.session = Null
    /\ r.session = Null => r.history = <<>> /\ r.loading \in {"no", "loaded"}
    /\ r.pc \in {"touch", "touchSave", "history", "persistSession", "persistMessages", "cache"} =>
          r.session # Null
    /\ r.pc \in {"touchSave", "persistSession"} => r.title \in Titles
    /\ r.pc \in {"new", "history", "answer"} => ~r.cancelled
    /\ r.loading = "fill" => r.history # <<>>
    /\ r.cancelled /\ r.session = Null => r.pc \in {"create", "done"}
    /\ r.pc = "answer" /\ r.session = Null => r.kind = "chat"

OpSound(r) ==
    /\ r.pc = "new" => r.kind = "none"
    /\ r.pc \in {"rename", "messages", "session"} => r.session # Null
    /\ r.pc \in {"messages", "session"} => r.kind = "remove"

SessTyped == DOMAIN sess \subseteq Sessions /\ \A s \in DOMAIN sess : sess[s] \in Titles

WindowTyped ==
    /\ window \in [Sessions -> Seq(Messages) \cup {Null}]
    /\ \A s \in Sessions : window[s] # Null =>
                              window[s] \in Seq(Messages) /\ Len(window[s]) \in 1..MaxWindow

StoresTyped == db \in [Sessions -> Seq(Messages)] /\ remembered \subseteq Turns

TurnsTyped == turn \in [Turns -> TurnType] /\ \A t \in Turns : TurnSound(turn[t])

OpsTyped == op \in [Ops -> OpType] /\ \A o \in Ops : OpSound(op[o])

BoundsTyped ==
    faults \in 0..MaxFaults /\ calm \in BOOLEAN /\ cascade \in BOOLEAN /\ (calm => ~cascade)

Typed == SessTyped /\ WindowTyped /\ StoresTyped /\ TurnsTyped /\ OpsTyped /\ BoundsTyped

\* How a turn and the stores stand to each other: its session is there unless it
\* is being removed; the history it works with, and its own messages once they
\* are inserted, are stored; what was said of it when it was over holds.
Fits(t) ==
    LET s == turn[t].session
    IN  /\ s # Null => s \in DOMAIN sess \/ Removing(s)
        /\ s # Null /\ ~Removing(s) =>
              /\ Range2(turn[t].history) \subseteq Range2(db[s])
              /\ turn[t].pc = "cache" => {QuestionOf(t), AnswerOf(t)} \subseteq Range2(db[s])
        /\ t \in remembered =>
              turn[t].pc = "done" /\ ~turn[t].cancelled /\ (Stored(t) \/ Removing(s))
        /\ turn[t].pc = "done" /\ turn[t].cancelled /\ s # Null => Stored(t) \/ Removing(s)

Kept == WindowWasStored /\ \A t \in Turns : Fits(t)

-----------------------------------------------------------------------------
(* The operators *)

\* The end of a sequence: at most n elements, all of them its own.
LEMMA LastOfIs ==
    ASSUME NEW T, NEW seq \in Seq(T), NEW n \in Nat
    PROVE  /\ LastOf(seq, n) \in Seq(T)
           /\ Len(LastOf(seq, n)) = IF Len(seq) > n THEN n ELSE Len(seq)
           /\ \A i \in 1..Len(LastOf(seq, n)) :
                 LastOf(seq, n)[i] = IF Len(seq) > n THEN seq[i + Len(seq) - n] ELSE seq[i]
           /\ Range2(LastOf(seq, n)) \subseteq Range2(seq)
<1> DEFINE k == IF Len(seq) > n THEN Len(seq) - n + 1 ELSE 1
           m == Len(seq)
           l == LastOf(seq, n)
<1>1. m \in Nat /\ k \in Nat \ {0} /\ l = SubSeq(seq, k, m)
  BY DEF LastOf
<1>2. \A i \in k..m : seq[i] \in T
  BY <1>1
<1>a. k = IF m > n THEN m - n + 1 ELSE 1
  OBVIOUS
<1> HIDE DEF k, l, m
<1>3. /\ l \in Seq(T) /\ Len(l) = IF k <= m THEN m - k + 1 ELSE 0
      /\ \A i \in 1..(m - k + 1) : l[i] = seq[k + i - 1]
  BY <1>1, <1>2, SubSeqProperties
<1>4. Len(l) = IF m > n THEN n ELSE m
  BY <1>1, <1>3, <1>a
<1>5. \A i \in 1..Len(l) : l[i] = IF m > n THEN seq[i + m - n] ELSE seq[i]
  <2> SUFFICES ASSUME NEW i \in 1..Len(l)
               PROVE  l[i] = IF m > n THEN seq[i + m - n] ELSE seq[i]
    OBVIOUS
  <2>1. CASE m > n
    <3>1. i \in 1..(m - k + 1) /\ k + i - 1 = i + m - n
      BY <1>1, <1>4, <1>a, <2>1
    <3> QED
      BY <1>3, <2>1, <3>1
  <2>2. CASE ~(m > n)
    <3>1. i \in 1..(m - k + 1) /\ k + i - 1 = i
      BY <1>1, <1>4, <1>a, <2>2
    <3> QED
      BY <1>3, <2>2, <3>1
  <2> QED
    BY <2>1, <2>2
<1>6. ASSUME NEW i \in 1..Len(l)
      PROVE  l[i] \in Range2(seq)
  <2>1. \E h \in 1..m : l[i] = seq[h]
    <3>1. CASE m > n
      <4>1. i + m - n \in 1..m
        BY <1>1, <1>4, <3>1
      <4> QED
        BY <1>5, <3>1, <4>1
    <3>2. CASE ~(m > n)
      BY <1>1, <1>4, <1>5, <3>2
    <3> QED
      BY <3>1, <3>2
  <2> QED
    BY <2>1 DEF Range2, m
<1>7. DOMAIN l = 1..Len(l)
  BY <1>3
<1>8. Range2(l) \subseteq Range2(seq)
  BY <1>6, <1>7 DEF Range2
<1> QED
  BY <1>3, <1>4, <1>5, <1>8 DEF l, m

\* Two sequences one after the other.
LEMMA ConcatIs ==
    ASSUME NEW T, NEW a \in Seq(T), NEW b \in Seq(T)
    PROVE  /\ a \o b \in Seq(T) /\ Len(a \o b) = Len(a) + Len(b)
           /\ Len(a) \in Nat /\ Len(b) \in Nat
           /\ \A i \in 1..(Len(a) + Len(b)) :
                 (a \o b)[i] = IF i <= Len(a) THEN a[i] ELSE b[i - Len(a)]
  OBVIOUS

\* The messages of two sequences one after the other.
LEMMA ConcatRange ==
    ASSUME NEW T, NEW a \in Seq(T), NEW b \in Seq(T)
    PROVE  a \o b \in Seq(T) /\ Range2(a \o b) = Range2(a) \cup Range2(b)
<1>1. /\ a \o b \in Seq(T) /\ Len(a \o b) = Len(a) + Len(b) /\ Len(a) \in Nat /\ Len(b) \in Nat
      /\ DOMAIN (a \o b) = 1..(Len(a) + Len(b)) /\ DOMAIN a = 1..Len(a) /\ DOMAIN b = 1..Len(b)
      /\ \A i \in 1..(Len(a) + Len(b)) :
            (a \o b)[i] = IF i <= Len(a) THEN a[i] ELSE b[i - Len(a)]
  OBVIOUS
<1>2. ASSUME NEW i \in DOMAIN (a \o b)
      PROVE  (a \o b)[i] \in Range2(a) \cup Range2(b)
  <2>1. CASE i <= Len(a)
    BY <1>1, <2>1 DEF Range2
  <2>2. CASE ~(i <= Len(a))
    <3>1. i - Len(a) \in DOMAIN b
      BY <1>1, <2>2
    <3> QED
      BY <1>1, <2>2, <3>1 DEF Range2
  <2> QED
    BY <2>1, <2>2
<1>3. ASSUME NEW i \in DOMAIN a
      PROVE  a[i] \in Range2(a \o b)
  <2>1. i \in DOMAIN (a \o b) /\ (a \o b)[i] = a[i]
    BY <1>1
  <2> QED
    BY <2>1 DEF Range2
<1>4. ASSUME NEW i \in DOMAIN b
      PROVE  b[i] \in Range2(a \o b)
  <2>1. i + Len(a) \in DOMAIN (a \o b) /\ (a \o b)[i + Len(a)] = b[i]
    BY <1>1
  <2> QED
    BY <2>1 DEF Range2
<1>5. Range2(a \o b) \subseteq Range2(a) \cup Range2(b)
  BY <1>2 DEF Range2
<1>6. Range2(a) \subseteq Range2(a \o b) /\ Range2(b) \subseteq Range2(a \o b)
  BY <1>3, <1>4 DEF Range2
<1> QED
  BY <1>1, <1>5, <1>6

\* A turn's two messages.
LEMMA PairIs ==
    ASSUME NEW t \in Turns, turn[t].answer \in Answers
    PROVE  /\ <<QuestionOf(t), AnswerOf(t)>> \in Seq(Messages)
           /\ Len(<<QuestionOf(t), AnswerOf(t)>>) = 2
           /\ Range2(<<QuestionOf(t), AnswerOf(t)>>) = {QuestionOf(t), AnswerOf(t)}
           /\ QuestionOf(t).turn = t
<1>1. QuestionOf(t) \in Messages /\ AnswerOf(t) \in Messages /\ QuestionOf(t).turn = t
  BY DEF QuestionOf, AnswerOf, Messages
<1> HIDE DEF QuestionOf
<1>2. <<QuestionOf(t), AnswerOf(t)>> \in Seq(Messages)
  BY <1>1
<1>3. Range2(<<QuestionOf(t), AnswerOf(t)>>) = {QuestionOf(t), AnswerOf(t)}
  <2>1. DOMAIN <<QuestionOf(t), AnswerOf(t)>> = {1, 2}
    OBVIOUS
  <2> QED
    BY <2>1 DEF Range2
<1> QED
  BY <1>1, <1>2, <1>3

\* What a turn that is over leaves.
LEMMA OverIs ==
    ASSUME NEW r \in TurnType
    PROVE  /\ Over(r) \in TurnType
           /\ Over(r).pc = "done" /\ Over(r).session = r.session
           /\ Over(r).cancelled = r.cancelled
           /\ Over(r).loading = IF r.loading = "loaded" THEN "no" ELSE r.loading
           /\ Over(r).history = IF r.loading = "fill" THEN r.history ELSE <<>>
<1> DEFINE l == IF r.loading = "loaded" THEN "no" ELSE r.loading
           h == IF r.loading = "fill" THEN r.history ELSE <<>>
           r1 == [Unasked EXCEPT !.pc = "done"]
           r2 == [r1 EXCEPT !.session = r.session]
           r3 == [r2 EXCEPT !.cancelled = r.cancelled]
           r4 == [r3 EXCEPT !.loading = l]
           r5 == [r4 EXCEPT !.history = h]
<1>0. <<>> \in Seq(Messages)
  OBVIOUS
<1>1. l \in {"no", "try", "rows", "fill", "loaded"} /\ h \in Seq(Messages)
      /\ r.session \in Sessions \cup {Null} /\ r.cancelled \in BOOLEAN
  BY <1>0 DEF TurnType
<1>2. Unasked \in TurnType
  BY <1>0 DEF Unasked, TurnType, TurnPC, Answers
<1>3. Over(r) = r5
  BY DEF Over
<1> HIDE DEF l, h
<1>4. r1 \in TurnType /\ r1.pc = "done"
  BY <1>2 DEF TurnType, TurnPC
<1> HIDE DEF r1
<1>5. r2 \in TurnType /\ r2.pc = "done" /\ r2.session = r.session
  BY <1>1, <1>4 DEF TurnType
<1> HIDE DEF r2
<1>6. r3 \in TurnType /\ r3.pc = "done" /\ r3.session = r.session /\ r3.cancelled = r.cancelled
  BY <1>1, <1>5 DEF TurnType
<1> HIDE DEF r3
<1>7. r4 \in TurnType /\ r4.pc = "done" /\ r4.session = r.session /\ r4.cancelled = r.cancelled
      /\ r4.loading = l
  BY <1>1, <1>6 DEF TurnType
<1> HIDE DEF r4
<1>8. r5 \in TurnType /\ r5.pc = "done" /\ r5.session = r.session /\ r5.cancelled = r.cancelled
      /\ r5.loading = l /\ r5.history = h
  BY <1>1, <1>7 DEF TurnType
<1> HIDE DEF r5
<1> QED
  BY <1>3, <1>8 DEF l, h

\* It is sound.
LEMMA OverSound ==
    ASSUME NEW r \in TurnType, TurnSound(r)
    PROVE  TurnSound(Over(r))
  BY OverIs DEF TurnSound

\* A turn that turns to its history.
LEMMA ToHistoryIs ==
    ASSUME NEW r \in TurnType, r.session # Null, r.loading = "fill" => r.history # <<>>
    PROVE  /\ ToHistory(r) \in TurnType /\ TurnSound(ToHistory(r))
           /\ ToHistory(r).session = r.session
           /\ ToHistory(r).history = r.history /\ ToHistory(r).cancelled = r.cancelled
           /\ ToHistory(r).pc = (IF r.cancelled THEN "persist" ELSE "history")
           /\ ToHistory(r).loading = (IF r.cancelled THEN r.loading ELSE "try")
<1>1. CASE r.cancelled
  <2> DEFINE r1 == [r EXCEPT !.pc = "persist"]
             r2 == [r1 EXCEPT !.answer = "interrupted"]
  <2>1. ToHistory(r) = r2
    BY <1>1 DEF ToHistory
  <2>2. r1 \in TurnType /\ r1.pc = "persist" /\ r1.session = r.session /\ r1.history = r.history
        /\ r1.cancelled = r.cancelled /\ r1.loading = r.loading
    BY DEF TurnType, TurnPC
  <2> HIDE DEF r1
  <2>3. r2 \in TurnType /\ r2.pc = "persist" /\ r2.session = r.session /\ r2.history = r.history
        /\ r2.cancelled = r.cancelled /\ r2.loading = r.loading
    BY <2>2 DEF TurnType, Answers
  <2> HIDE DEF r2
  <2> QED
    BY <1>1, <2>1, <2>3 DEF TurnSound
<1>2. CASE ~r.cancelled
  <2> DEFINE r1 == [r EXCEPT !.pc = "history"]
             r2 == [r1 EXCEPT !.loading = "try"]
  <2>1. ToHistory(r) = r2
    BY <1>2 DEF ToHistory
  <2>2. r1 \in TurnType /\ r1.pc = "history" /\ r1.session = r.session /\ r1.history = r.history
        /\ r1.cancelled = r.cancelled
    BY DEF TurnType, TurnPC
  <2> HIDE DEF r1
  <2>3. r2 \in TurnType /\ r2.pc = "history" /\ r2.session = r.session /\ r2.history = r.history
        /\ r2.cancelled = r.cancelled /\ r2.loading = "try"
    BY <2>2 DEF TurnType
  <2> HIDE DEF r2
  <2> QED
    BY <1>2, <2>1, <2>3 DEF TurnSound
<1> QED
  BY <1>1, <1>2

\* A turn whose history is there.
LEMMA LoadedIs ==
    ASSUME NEW r \in TurnType, TurnSound(r), r.session # Null, NEW h \in Seq(Messages)
    PROVE  /\ Loaded(r, h) \in TurnType /\ TurnSound(Loaded(r, h))
           /\ Loaded(r, h).session = r.session /\ Loaded(r, h).cancelled = r.cancelled
           /\ Loaded(r, h).answer = r.answer \/ r.pc = "done"
           /\ Loaded(r, h).pc = IF r.pc = "history" THEN "answer" ELSE r.pc
           /\ Loaded(r, h).history = IF r.pc = "done" THEN <<>> ELSE h
           /\ Loaded(r, h).loading = IF r.pc = "done" THEN "no" ELSE "loaded"
<1> DEFINE r1 == [r EXCEPT !.loading = "loaded"]
<1>1. r1 \in TurnType /\ r1.pc = r.pc /\ r1.session = r.session /\ r1.cancelled = r.cancelled
      /\ r1.history = r.history /\ r1.answer = r.answer /\ r1.title = r.title /\ r1.loading = "loaded"
  BY DEF TurnType
<1>2. TurnSound(r1)
  BY <1>1 DEF TurnSound
<1>3. CASE r.pc = "done"
  <2>1. Loaded(r, h) = Over(r1)
    BY <1>3 DEF Loaded
  <2> HIDE DEF r1
  <2> QED
    BY <1>1, <1>2, <1>3, <2>1, OverIs, OverSound
<1>4. CASE r.pc # "done"
  <2> DEFINE pc == IF r.pc = "history" THEN "answer" ELSE r.pc
             r2 == [r1 EXCEPT !.history = h]
             r3 == [r2 EXCEPT !.pc = pc]
  <2>1. Loaded(r, h) = r3
    BY <1>4 DEF Loaded, TurnType
  <2> HIDE DEF r1
  <2>2. r2 \in TurnType /\ r2.pc = r.pc /\ r2.session = r.session /\ r2.cancelled = r.cancelled
        /\ r2.history = h /\ r2.answer = r.answer /\ r2.title = r.title /\ r2.loading = "loaded"
    BY <1>1 DEF TurnType
  <2>3. pc \in TurnPC
    BY DEF TurnType, TurnPC
  <2> HIDE DEF r2, pc
  <2>4. r3 \in TurnType /\ r3.pc = pc /\ r3.session = r.session /\ r3.cancelled = r.cancelled
        /\ r3.history = h /\ r3.answer = r.answer /\ r3.title = r.title /\ r3.loading = "loaded"
    BY <2>2, <2>3 DEF TurnType
  <2> HIDE DEF r3
  <2> QED
    BY <1>4, <2>1, <2>4 DEF TurnSound, pc
<1> QED
  BY <1>3, <1>4

\* A turn whose session was not found.
LEMMA NotFoundIs ==
    ASSUME NEW r \in TurnType, TurnSound(r)
    PROVE  /\ NotFound(r) \in TurnType /\ TurnSound(NotFound(r))
           /\ NotFound(r).session = r.session /\ NotFound(r).cancelled = r.cancelled
           /\ IF r.pc \in {"history", "done"}
              THEN NotFound(r).pc = "done" /\ NotFound(r).history = <<>>
              ELSE /\ NotFound(r).pc = r.pc /\ NotFound(r).history = r.history
                   /\ NotFound(r).answer = r.answer
<1> DEFINE r1 == [r EXCEPT !.loading = "loaded"]
<1>1. r1 \in TurnType /\ r1.pc = r.pc /\ r1.session = r.session /\ r1.cancelled = r.cancelled
      /\ r1.history = r.history /\ r1.answer = r.answer /\ r1.title = r.title /\ r1.loading = "loaded"
  BY DEF TurnType
<1>2. TurnSound(r1)
  BY <1>1 DEF TurnSound
<1>3. NotFound(r) = IF r.pc \in {"history", "done"} THEN Over(r1) ELSE r1
  BY DEF NotFound
<1> HIDE DEF r1
<1> QED
  BY <1>1, <1>2, <1>3, OverIs, OverSound

-----------------------------------------------------------------------------
(* Steps that store nothing *)

\* A session that is in use is not gone unless it is being removed, and a store
\* loses rows of those being removed only.
Grows ==
    /\ \A s : Removing(s) => Removing(s)'
    /\ \A s \in Sessions : ~Removing(s)' => Range2(db[s]) \subseteq Range2(db'[s])
    /\ \A s \in DOMAIN sess : s \in DOMAIN sess' \/ Removing(s)'

\* What such a step may make of a turn.
Replaced(t, r) ==
    /\ r \in TurnType /\ TurnSound(r)
    /\ turn' = [turn EXCEPT ![t] = r]
    /\ r.session = turn[t].session \/ r.session \in DOMAIN sess'
    /\ r.session # Null => \/ r.history = <<>>
                           \/ r.history = turn[t].history /\ r.session = turn[t].session
                           \/ Removing(r.session)
                           \/ Range2(r.history) \subseteq Range2(db[r.session])
    /\ r.pc = "cache" =>
          turn[t].pc = "cache" /\ r.answer = turn[t].answer /\ r.session = turn[t].session
    /\ turn[t].pc = "done" =>
          r.pc = "done" /\ r.cancelled = turn[t].cancelled /\ r.session = turn[t].session
    /\ r.pc = "done" /\ r.cancelled /\ r.session # Null =>
          turn[t].pc = "done" \/ Removing(r.session)

\* What Fits says of a turn in the next state, with its parts named.
LEMMA FitsNext ==
    ASSUME NEW t \in Turns, NEW s, NEW h, turn'[t].session = s, turn'[t].history = h,
           s # Null => s \in DOMAIN sess' \/ Removing(s)',
           s # Null /\ ~Removing(s)' =>
              /\ Range2(h) \subseteq Range2(db'[s])
              /\ turn'[t].pc = "cache" =>
                    {QuestionOf(t), [turn |-> t, role |-> "assistant", text |-> turn'[t].answer]}
                        \subseteq Range2(db'[s]),
           t \in remembered' =>
              /\ turn'[t].pc = "done" /\ ~turn'[t].cancelled
              /\ (s # Null /\ \E m \in Range2(db'[s]) : m.turn = t) \/ Removing(s)',
           turn'[t].pc = "done" /\ turn'[t].cancelled /\ s # Null =>
              (\E m \in Range2(db'[s]) : m.turn = t) \/ Removing(s)'
    PROVE  Fits(t)'
<1>1. Removing(turn[t].session)' <=> Removing(s)'
  BY DEF Removing
<1>2. Range2(turn[t].history)' = Range2(h)
  BY DEF Range2
<1>3. Range2(db[turn[t].session])' = Range2(db'[s])
  BY DEF Range2
<1>4. QuestionOf(t)' = QuestionOf(t)
      /\ AnswerOf(t)' = [turn |-> t, role |-> "assistant", text |-> turn'[t].answer]
  BY DEF QuestionOf, AnswerOf
<1>5. Stored(t)' <=> (s # Null /\ \E m \in Range2(db'[s]) : m.turn = t)
  BY <1>3 DEF Stored
<1> QED
  BY <1>1, <1>2, <1>3, <1>4, <1>5 DEF Fits

\* Another turn is as it was.
LEMMA FitsStays ==
    ASSUME Typed, Grows, NEW t \in Turns, Fits(t), turn'[t] = turn[t],
           t \in remembered' <=> t \in remembered
    PROVE  Fits(t)'
<1> PICK s : s = turn[t].session
  OBVIOUS
<1>1. s \in Sessions \cup {Null} /\ DOMAIN sess \subseteq Sessions
  BY DEF Typed, TurnsTyped, SessTyped, TurnType
<1>2. Removing(s) => Removing(s)'
  BY DEF Grows
<1>3. s # Null /\ ~Removing(s)' => Range2(db[s]) \subseteq Range2(db'[s])
  BY <1>1 DEF Grows
<1>4. s # Null => s \in DOMAIN sess' \/ Removing(s)'
  BY <1>1, <1>2 DEF Grows, Fits
<1>5. s # Null /\ ~Removing(s)' =>
              /\ Range2(turn[t].history) \subseteq Range2(db'[s])
              /\ turn'[t].pc = "cache" =>
                    {QuestionOf(t), [turn |-> t, role |-> "assistant", text |-> turn'[t].answer]}
                        \subseteq Range2(db'[s])
  BY <1>2, <1>3 DEF Fits, AnswerOf
<1>6. Stored(t) => (s # Null /\ \E m \in Range2(db'[s]) : m.turn = t) \/ Removing(s)'
  BY <1>3 DEF Stored
<1>7. t \in remembered' =>
              /\ turn'[t].pc = "done" /\ ~turn'[t].cancelled
              /\ (s # Null /\ \E m \in Range2(db'[s]) : m.turn = t) \/ Removing(s)'
  BY <1>2, <1>6 DEF Fits
<1>8. turn'[t].pc = "done" /\ turn'[t].cancelled /\ s # Null =>
              (\E m \in Range2(db'[s]) : m.turn = t) \/ Removing(s)'
  BY <1>2, <1>6 DEF Fits
<1> QED
  BY <1>4, <1>5, <1>7, <1>8, FitsNext

\* The turn that took the step.
LEMMA FitsMoves ==
    ASSUME Typed, Grows, NEW t \in Turns, Fits(t), NEW r, Replaced(t, r), 
           remembered' = remembered
    PROVE  Fits(t)'
<1> PICK s : s = r.session
  OBVIOUS
<1>0. turn'[t] = r
  BY DEF Replaced, Typed, TurnsTyped
<1>1. s \in Sessions \cup {Null} /\ DOMAIN sess \subseteq Sessions
      /\ turn[t].session \in Sessions \cup {Null}
  BY DEF Typed, TurnsTyped, SessTyped, TurnType, Replaced
<1>2. Removing(s) => Removing(s)'
  BY DEF Grows
<1>3. s # Null /\ ~Removing(s)' => Range2(db[s]) \subseteq Range2(db'[s])
  BY <1>1 DEF Grows
<1>4. s # Null => s \in DOMAIN sess' \/ Removing(s)'
  BY <1>1, <1>2 DEF Grows, Fits, Replaced
<1>5. Range2(<<>>) = {}
  BY DEF Range2
<1>6. s # Null /\ ~Removing(s)' => Range2(r.history) \subseteq Range2(db'[s])
  BY <1>2, <1>3, <1>5 DEF Fits, Replaced
<1>7. s # Null /\ ~Removing(s)' /\ r.pc = "cache" =>
         {QuestionOf(t), [turn |-> t, role |-> "assistant", text |-> r.answer]}
             \subseteq Range2(db'[s])
  BY <1>2, <1>3 DEF Fits, AnswerOf, Replaced
<1>8. Stored(t) /\ turn[t].session = s =>
         (s # Null /\ \E m \in Range2(db'[s]) : m.turn = t) \/ Removing(s)'
  BY <1>3 DEF Stored
<1>9. t \in remembered' =>
              /\ r.pc = "done" /\ ~r.cancelled
              /\ (s # Null /\ \E m \in Range2(db'[s]) : m.turn = t) \/ Removing(s)'
  BY <1>2, <1>8 DEF Fits, Replaced
<1>10. r.pc = "done" /\ r.cancelled /\ s # Null =>
              (\E m \in Range2(db'[s]) : m.turn = t) \/ Removing(s)'
  BY <1>2, <1>8 DEF Fits, Replaced
<1> DEFINE h == r.history
<1>11. turn'[t].session = s /\ turn'[t].history = h
  BY <1>0
<1> HIDE DEF h
<1> QED
  BY <1>0, <1>4, <1>6, <1>7, <1>9, <1>10, <1>11, FitsNext DEF h

\* A window that is not replaced holds what was stored.
LEMMA WindowStays ==
    ASSUME Typed, Grows, WindowWasStored,
           \A s \in Sessions : window'[s] = window[s] \/ window'[s] = Null
    PROVE  WindowWasStored'
<1> SUFFICES ASSUME NEW s \in Sessions, window'[s] # Null, ~Removing(s)'
             PROVE  Range2(window'[s]) \subseteq Range2(db'[s])
  BY DEF WindowWasStored, Range2
<1>1. window'[s] = window[s] /\ ~Removing(s) /\ Range2(db[s]) \subseteq Range2(db'[s])
  BY DEF Grows
<1> QED
  BY <1>1 DEF WindowWasStored

-----------------------------------------------------------------------------
(* The actions of a turn *)

\* A step that puts one turn in another place keeps what is said of turns.
LEMMA TurnMoves ==
    ASSUME Typed, Kept, Grows, NEW t \in Turns, NEW r, Replaced(t, r), remembered' = remembered
    PROVE  TurnsTyped' /\ \A u \in Turns : Fits(u)'
<1>1. turn' \in [Turns -> TurnType] /\ \A u \in Turns : TurnSound(turn[u])'
  <2>1. turn'[t] = r /\ \A u \in Turns : u # t => turn'[u] = turn[u]
    BY DEF Replaced, Typed, TurnsTyped
  <2>2. \A u \in Turns : TurnSound(turn'[u])
    BY <2>1 DEF Replaced, Typed, TurnsTyped
  <2>3. \A u \in Turns : TurnSound(turn'[u]) => TurnSound(turn[u])'
    BY DEF TurnSound
  <2> QED
    BY <2>2, <2>3 DEF Replaced, Typed, TurnsTyped
<1>2. ASSUME NEW u \in Turns
      PROVE  Fits(u)'
  <2>1. CASE u = t
    BY <2>1, FitsMoves DEF Kept
  <2>2. CASE u # t
    <3>1. turn'[u] = turn[u]
      BY <2>2 DEF Replaced, Typed, TurnsTyped
    <3> QED
      BY <3>1, FitsStays DEF Kept
  <2> QED
    BY <2>1, <2>2
<1> QED
  BY <1>1, <1>2 DEF TurnsTyped

\* When no window is written either, it keeps everything.
LEMMA QuietStep ==
    ASSUME Typed, Kept, Grows, NEW t \in Turns, NEW r, Replaced(t, r), remembered' = remembered,
           \A s \in Sessions : window'[s] = window[s] \/ window'[s] = Null
    PROVE  Kept' /\ TurnsTyped'
  BY TurnMoves, WindowStays DEF Kept

\* Nothing but turns changes: nothing is lost.
LEMMA StillThere ==
    ASSUME op' = op, db' = db, DOMAIN sess \subseteq DOMAIN sess'
    PROVE  Grows
<1>1. \A s : Removing(s)' <=> Removing(s)
  BY DEF Removing
<1>2. \A s \in Sessions : Range2(db[s]) \subseteq Range2(db'[s])
  BY DEF Range2
<1> QED
  BY <1>1, <1>2 DEF Grows

\* Saving a session.
LEMMA SaveIs ==
    ASSUME SessTyped, NEW s \in Sessions, NEW title \in Titles, Save(s, title)
    PROVE  SessTyped' /\ DOMAIN sess' = DOMAIN sess \cup {s} /\ Exists(s)'
<1>1. DOMAIN sess' = DOMAIN sess \cup {s}
  BY DEF Save
<1>2. \A x \in DOMAIN sess' : sess'[x] \in Titles
  BY <1>1 DEF Save, SessTyped
<1> QED
  BY <1>1, <1>2 DEF SessTyped, Exists

\* What does not change stays typed.
LEMMA TypesStay ==
    ASSUME Typed
    PROVE  /\ sess' = sess => SessTyped'
           /\ window' = window => WindowTyped'
           /\ db' = db /\ remembered' = remembered => StoresTyped'
           /\ op' = op => OpsTyped'
           /\ UNCHANGED <<faults, calm, cascade>> => BoundsTyped'
<1>1. sess' = sess => SessTyped'
  BY DEF Typed, SessTyped
<1>2. window' = window => WindowTyped'
  BY DEF Typed, WindowTyped
<1>3. db' = db /\ remembered' = remembered => StoresTyped'
  BY DEF Typed, StoresTyped
<1>4. op' = op => OpsTyped'
  BY DEF Typed, OpsTyped, OpSound
<1>5. UNCHANGED <<faults, calm, cascade>> => BoundsTyped'
  BY DEF Typed, BoundsTyped
<1> QED
  BY <1>1, <1>2, <1>3, <1>4, <1>5

\* A window that is saved holds the end of what is given, if that was stored.
LEMMA WindowSaved ==
    ASSUME Typed, Kept, NEW s \in Sessions, NEW h \in Seq(Messages), h # <<>>, SaveWindow(s, h),
           Removing(s) \/ Range2(h) \subseteq Range2(db[s]), UNCHANGED <<db, op, calm, cascade>>
    PROVE  WindowTyped' /\ WindowWasStored' /\ BoundsTyped'
<1>1. \A x : Removing(x)' <=> Removing(x)
  BY DEF Removing
<1> DEFINE l == LastOf(h, MaxWindow)
<1>2. l \in Seq(Messages) /\ Len(l) \in 1..MaxWindow /\ Range2(l) \subseteq Range2(h)
  <2>1. MaxWindow \in Nat \ {0} /\ Len(h) \in Nat \ {0}
    BY ChatAssumption
  <2>2. l \in Seq(Messages) /\ Range2(l) \subseteq Range2(h)
        /\ Len(l) = IF Len(h) > MaxWindow THEN MaxWindow ELSE Len(h)
    BY <2>1, LastOfIs
  <2> HIDE DEF l
  <2> QED
    BY <2>1, <2>2
<1>3. CASE Store(s, h) /\ UNCHANGED faults
  <2>1. window' = [window EXCEPT ![s] = l]
    BY <1>3 DEF Store
  <2> HIDE DEF l
  <2>2. window'[s] = l /\ \A x \in Sessions : x # s => window'[x] = window[x]
    BY <2>1 DEF Typed, WindowTyped
  <2>3. window' \in [Sessions -> Seq(Messages) \cup {Null}]
    BY <1>2, <2>1 DEF Typed, WindowTyped
  <2>4. \A x \in Sessions : window'[x] # Null =>
                              window'[x] \in Seq(Messages) /\ Len(window'[x]) \in 1..MaxWindow
    BY <1>2, <2>2 DEF Typed, WindowTyped
  <2>5. WindowTyped'
    BY <2>3, <2>4 DEF WindowTyped
  <2>6. ASSUME NEW x \in Sessions, window'[x] # Null, ~Removing(x)
        PROVE  Range2(window'[x]) \subseteq Range2(db[x])
    BY <1>2, <2>2, <2>6 DEF Kept, WindowWasStored
  <2>7. WindowWasStored'
    BY <1>1, <2>6 DEF WindowWasStored, Range2
  <2> QED
    BY <1>3, <2>5, <2>7, TypesStay
<1>4. CASE UNCHANGED window /\ Fault
  <2>1. BoundsTyped'
    BY <1>4, ChatAssumption DEF Typed, BoundsTyped, Fault
  <2>2. WindowWasStored'
    BY <1>1, <1>4, SMTT(30) DEF Kept, WindowWasStored, Range2
  <2> QED
    BY <1>4, <2>1, <2>2, TypesStay
<1> QED
  BY <1>3, <1>4 DEF SaveWindow

\* A question is asked.
LEMMA AskKeeps ==
    ASSUME Typed, Kept, NEW t \in Turns, NEW kind \in {"chat", "stream", "speech"},
           NEW s \in Sessions \cup {Null}, Ask(t, kind, s)
    PROVE  Typed' /\ Kept'
<1> DEFINE r1 == [turn[t] EXCEPT !.kind = kind]
           r2 == [r1 EXCEPT !.session = s]
<1>1. turn[t] \in TurnType /\ TurnSound(turn[t]) /\ turn[t].pc = "new"
  BY DEF Typed, TurnsTyped, Ask
<1>2. turn[t].session = Null /\ turn[t].history = <<>> /\ ~turn[t].cancelled
      /\ turn[t].loading \in {"no", "loaded"}
  BY <1>1 DEF TurnSound
<1>3. r1 \in TurnType /\ r1.pc = "new" /\ r1.history = <<>> /\ ~r1.cancelled
      /\ r1.loading \in {"no", "loaded"} /\ r1.kind = kind
  BY <1>1, <1>2 DEF TurnType
<1> HIDE DEF r1
<1>4. r2 \in TurnType /\ r2.pc = "new" /\ r2.history = <<>> /\ ~r2.cancelled
      /\ r2.loading \in {"no", "loaded"} /\ r2.session = s /\ r2.kind = kind
  BY <1>3 DEF TurnType
<1> DEFINE pc == IF kind = "chat" THEN "answer" ELSE "create"
           l == IF kind = "chat" THEN "loaded" ELSE "no"
           r3 == [r2 EXCEPT !.pc = pc]
           r4 == [r3 EXCEPT !.loading = l]
           r5 == [r2 EXCEPT !.pc = "touch"]
           r == IF s = Null THEN r4 ELSE IF kind = "speech" THEN r5 ELSE ToHistory(r2)
<1>5. turn' = [turn EXCEPT ![t] = r]
  BY DEF Ask, r1
<1> HIDE DEF r2
<1>6. pc \in TurnPC /\ l \in {"no", "loaded"} /\ pc \in {"answer", "create"}
      /\ (pc = "answer" => kind = "chat")
  BY DEF TurnPC
<1> HIDE DEF pc, l
<1>7. r3 \in TurnType /\ r3.pc = pc /\ r3.history = <<>> /\ ~r3.cancelled /\ r3.session = s
      /\ r3.kind = kind
  BY <1>4, <1>6 DEF TurnType
<1> HIDE DEF r3
<1>8. r4 \in TurnType /\ r4.pc = pc /\ r4.history = <<>> /\ ~r4.cancelled /\ r4.session = s
      /\ r4.loading = l /\ r4.kind = kind
  BY <1>6, <1>7 DEF TurnType
<1> HIDE DEF r4
<1>9. r5 \in TurnType /\ r5.pc = "touch" /\ r5.history = <<>> /\ ~r5.cancelled /\ r5.session = s
      /\ r5.loading \in {"no", "loaded"}
  BY <1>4 DEF TurnType, TurnPC
<1> HIDE DEF r5
<1>10. /\ r \in TurnType /\ TurnSound(r) /\ r.session = s /\ r.history = <<>>
       /\ r.pc \notin {"cache", "done"}
  <2>1. CASE s = Null
    BY <1>6, <1>8, <2>1 DEF TurnSound
  <2>2. CASE s # Null /\ kind = "speech"
    BY <1>9, <2>2 DEF TurnSound
  <2>3. CASE s # Null /\ kind # "speech"
    BY <1>4, <2>3, ToHistoryIs
  <2> QED
    BY <2>1, <2>2, <2>3
<1> HIDE DEF r
<1>11. s = Null \/ s \in DOMAIN sess
  BY DEF Ask, Exists
<1>12. UNCHANGED <<sess, db, window, remembered, op, faults, calm, cascade>>
  BY DEF Ask
<1>13. Replaced(t, r)
  BY <1>1, <1>2, <1>5, <1>10, <1>11, <1>12 DEF Replaced
<1>14. Grows
  BY <1>12, StillThere
<1> QED
  BY <1>12, <1>13, <1>14, QuietStep, TypesStay DEF Typed

\* The session of a new conversation is made.
LEMMA CreateKeeps ==
    ASSUME Typed, Kept, NEW t \in Turns, Create(t)
    PROVE  Typed' /\ Kept'
<1> PICK s \in Unused : /\ Save(s, "question")
                        /\ turn' = [turn EXCEPT ![t] =
                                      IF @.cancelled /\ @.kind = "stream" THEN Over(@)
                                      ELSE ToHistory([@ EXCEPT !.session = s])]
  BY DEF Create
<1> DEFINE r1 == [turn[t] EXCEPT !.session = s]
           r == IF turn[t].cancelled /\ turn[t].kind = "stream" THEN Over(turn[t])
                ELSE ToHistory(r1)
<1>1. turn[t] \in TurnType /\ TurnSound(turn[t]) /\ turn[t].pc = "create" /\ s \in Sessions /\ s # Null
  BY ChatAssumption DEF Typed, TurnsTyped, Create, Unused
<1> HIDE DEF Unused
<1>2. turn[t].session = Null /\ turn[t].history = <<>> /\ turn[t].loading \in {"no", "loaded"}
  BY <1>1 DEF TurnSound
<1>3. turn' = [turn EXCEPT ![t] = r]
  OBVIOUS
<1>4. r1 \in TurnType /\ r1.session = s /\ r1.history = <<>> /\ r1.loading \in {"no", "loaded"}
  BY <1>1, <1>2 DEF TurnType
<1> HIDE DEF r1
<1>5. /\ Over(turn[t]) \in TurnType /\ TurnSound(Over(turn[t])) /\ Over(turn[t]).session = Null
      /\ Over(turn[t]).pc = "done"
  BY <1>1, <1>2, OverIs, OverSound
<1>6. /\ ToHistory(r1) \in TurnType /\ TurnSound(ToHistory(r1)) /\ ToHistory(r1).session = s
      /\ ToHistory(r1).history = <<>> /\ ToHistory(r1).pc \in {"persist", "history"}
  BY <1>1, <1>4, ToHistoryIs
<1>7. r \in TurnType /\ TurnSound(r) /\ (r.session = Null \/ (r.session = s /\ r.history = <<>>))
      /\ (r.session # Null => r.pc # "done") /\ r.pc # "cache"
  <2>1. CASE turn[t].cancelled /\ turn[t].kind = "stream"
    <3>1. r = Over(turn[t])
      BY <2>1
    <3> HIDE DEF r
    <3> QED
      BY <1>5, <3>1
  <2>2. CASE ~(turn[t].cancelled /\ turn[t].kind = "stream")
    <3>1. r = ToHistory(r1)
      BY <2>2
    <3> HIDE DEF r
    <3> QED
      BY <1>1, <1>6, <3>1
  <2> QED
    BY <2>1, <2>2
<1> HIDE DEF r
<1>8. SessTyped' /\ DOMAIN sess' = DOMAIN sess \cup {s}
  BY <1>1, SaveIs DEF Titles, Typed
<1>9. UNCHANGED <<db, window, remembered, op, faults, calm, cascade>>
  BY DEF Create
<1>10. Replaced(t, r)
  BY <1>1, <1>2, <1>3, <1>7, <1>8 DEF Replaced
<1>11. Grows
  BY <1>8, <1>9, StillThere
<1> QED
  BY <1>8, <1>9, <1>10, <1>11, QuietStep, TypesStay DEF Typed

\* touchTitle reads the session.
LEMMA TouchKeeps ==
    ASSUME Typed, Kept, NEW t \in Turns, Touch(t)
    PROVE  Typed' /\ Kept'
<1> DEFINE s == turn[t].session
           title == Retitled(sess[s])
           r1 == [turn[t] EXCEPT !.pc = "touchSave"]
           r2 == [r1 EXCEPT !.title = title]
           r == IF Exists(s) THEN r2 ELSE Over(turn[t])
<1>1. turn[t] \in TurnType /\ TurnSound(turn[t]) /\ turn[t].pc = "touch" /\ s # Null
      /\ Fits(t) /\ turn \in [Turns -> TurnType]
  BY DEF Typed, TurnsTyped, Touch, TurnSound, Kept
<1>2. turn' = [turn EXCEPT ![t] = r]
  BY <1>1 DEF Touch, Finish
<1>3. UNCHANGED <<sess, db, window, remembered, op, faults, calm, cascade>>
  BY DEF Touch
<1>4. Replaced(t, r)
  <2>1. CASE Exists(s)
    <3>1. title \in Titles
      BY <2>1, ChatAssumption DEF Retitled, Titles, Exists, Typed, SessTyped
    <3> HIDE DEF title
    <3>2. r1 \in TurnType /\ r1.pc = "touchSave" /\ r1.session = s
          /\ r1.history = turn[t].history /\ r1.cancelled = turn[t].cancelled
          /\ r1.loading = turn[t].loading
      BY <1>1 DEF TurnType, TurnPC
    <3> HIDE DEF r1
    <3>3. r2 \in TurnType /\ r2.pc = "touchSave" /\ r2.session = s /\ r2.title = title
          /\ r2.history = turn[t].history /\ r2.cancelled = turn[t].cancelled
          /\ r2.loading = turn[t].loading
      BY <3>1, <3>2 DEF TurnType
    <3> HIDE DEF r2
    <3> QED
      BY <1>1, <1>2, <2>1, <3>1, <3>3 DEF Replaced, TurnSound
  <2>2. CASE ~Exists(s)
    <3>1. Removing(s)
      BY <1>1, <2>2 DEF Fits, Exists
    <3> HIDE DEF s
    <3> QED
      BY <1>1, <1>2, <2>2, <3>1, OverIs, OverSound DEF Replaced, s
  <2> QED
    BY <2>1, <2>2
<1>5. Grows
  BY <1>3, StillThere
<1> HIDE DEF r
<1> QED
  BY <1>3, <1>4, <1>5, QuietStep, TypesStay DEF Typed

\* touchTitle saves the session.
LEMMA TouchSaveKeeps ==
    ASSUME Typed, Kept, NEW t \in Turns, TouchSave(t)
    PROVE  Typed' /\ Kept'
<1> DEFINE s == turn[t].session
           r == ToHistory(turn[t])
<1>1. turn[t] \in TurnType /\ TurnSound(turn[t]) /\ turn[t].pc = "touchSave" /\ s \in Sessions
      /\ s # Null /\ turn[t].title \in Titles
  BY ChatAssumption DEF Typed, TurnsTyped, TouchSave, TurnSound, TurnType
<1>2. turn' = [turn EXCEPT ![t] = r]
  BY DEF TouchSave
<1>3. UNCHANGED <<db, window, remembered, op, faults, calm, cascade>>
  BY DEF TouchSave
<1>4. SessTyped' /\ DOMAIN sess' = DOMAIN sess \cup {s}
  BY <1>1, SaveIs DEF TouchSave, Typed
<1>5. /\ r \in TurnType /\ TurnSound(r) /\ r.session = s /\ r.history = turn[t].history
      /\ r.pc \in {"persist", "history"}
  BY <1>1, ToHistoryIs DEF TurnSound
<1> HIDE DEF r
<1>6. Replaced(t, r)
  BY <1>1, <1>2, <1>5 DEF Replaced
<1>7. Grows
  BY <1>3, <1>4, StillThere
<1> QED
  BY <1>3, <1>4, <1>6, <1>7, QuietStep, TypesStay DEF Typed

\* A window is looked up.
LEMMA TryLoadKeeps ==
    ASSUME Typed, Kept, NEW t \in Turns, TryLoad(t)
    PROVE  Typed' /\ Kept'
<1> DEFINE s == turn[t].session
           cached == window[s]
<1>1. turn[t] \in TurnType /\ TurnSound(turn[t]) /\ turn[t].loading = "try" /\ s \in Sessions
      /\ s # Null /\ turn \in [Turns -> TurnType]
  BY ChatAssumption DEF Typed, TurnsTyped, TryLoad, TurnSound, TurnType
<1>2. UNCHANGED <<sess, db, window, remembered, op, calm, cascade>>
  BY DEF TryLoad
<1>3. Grows
  BY <1>2, StillThere
<1>4. CASE cached # Null /\ turn' = [turn EXCEPT ![t] = Loaded(@, cached)] /\ UNCHANGED faults
  <2> DEFINE r == Loaded(turn[t], cached)
  <2>1. turn' = [turn EXCEPT ![t] = r]
    BY <1>4
  <2>2. cached \in Seq(Messages)
    BY <1>1, <1>4 DEF Typed, WindowTyped
  <2>3. Removing(s) \/ Range2(cached) \subseteq Range2(db[s])
    BY <1>1, <1>4 DEF Kept, WindowWasStored
  <2> HIDE DEF cached, s
  <2>4. /\ r \in TurnType /\ TurnSound(r) /\ r.session = turn[t].session
        /\ r.cancelled = turn[t].cancelled
        /\ r.answer = turn[t].answer \/ turn[t].pc = "done"
        /\ r.pc = IF turn[t].pc = "history" THEN "answer" ELSE turn[t].pc
        /\ r.history = IF turn[t].pc = "done" THEN <<>> ELSE cached
    BY <1>1, <2>2, LoadedIs DEF s
  <2> HIDE DEF r
  <2>5. Replaced(t, r)
    BY <1>1, <2>1, <2>3, <2>4 DEF Replaced, s
  <2> QED
    BY <1>2, <1>3, <1>4, <2>5, QuietStep, TypesStay DEF Typed
<1>5. CASE /\ IF cached = Null THEN UNCHANGED faults ELSE Fault
           /\ turn' = [turn EXCEPT ![t].loading = "rows"]
  <2> DEFINE r == [turn[t] EXCEPT !.loading = "rows"]
  <2>1. turn' = [turn EXCEPT ![t] = r]
    BY <1>1, <1>5
  <2>2. r \in TurnType /\ TurnSound(r) /\ r.pc = turn[t].pc /\ r.session = s
        /\ r.history = turn[t].history /\ r.cancelled = turn[t].cancelled
        /\ r.answer = turn[t].answer
    BY <1>1 DEF TurnType, TurnSound
  <2> HIDE DEF r
  <2>3. Replaced(t, r)
    BY <1>1, <2>1, <2>2 DEF Replaced
  <2>4. BoundsTyped'
    BY <1>2, <1>5, ChatAssumption DEF Typed, BoundsTyped, Fault
  <2> QED
    BY <1>2, <1>3, <2>3, <2>4, QuietStep, TypesStay DEF Typed
<1> QED
  BY <1>4, <1>5 DEF TryLoad

\* The rows are read.
LEMMA LoadRowsKeeps ==
    ASSUME Typed, Kept, NEW t \in Turns, LoadRows(t)
    PROVE  Typed' /\ Kept'
<1> DEFINE s == turn[t].session
           rows == LastOf(db[s], MaxWindow)
           f1 == [turn[t] EXCEPT !.loading = "fill"]
           f2 == [f1 EXCEPT !.history = rows]
           r == IF ~Exists(s) THEN NotFound(turn[t])
                ELSE IF rows = <<>> THEN Loaded(turn[t], rows) ELSE f2
<1>1. turn[t] \in TurnType /\ TurnSound(turn[t]) /\ turn[t].loading = "rows" /\ s \in Sessions
      /\ s # Null /\ Fits(t)
  BY ChatAssumption DEF Typed, TurnsTyped, LoadRows, TurnSound, TurnType, Kept
<1>2. UNCHANGED <<sess, db, window, remembered, op, faults, calm, cascade>>
  BY DEF LoadRows
<1>3. Grows
  BY <1>2, StillThere
<1>4. turn' = [turn EXCEPT ![t] = r]
  BY DEF LoadRows
<1>5. rows \in Seq(Messages) /\ Range2(rows) \subseteq Range2(db[s])
  <2>1. db[s] \in Seq(Messages) /\ MaxWindow \in Nat
    BY <1>1, ChatAssumption DEF Typed, StoresTyped
  <2> QED
    BY <2>1, LastOfIs
<1> HIDE DEF rows, s
<1>6. Replaced(t, r)
  <2>1. CASE ~Exists(s)
    <3>1. r = NotFound(turn[t])
      BY <2>1
    <3> HIDE DEF r
    <3>2. Removing(s)
      BY <1>1, <2>1 DEF Fits, Exists, s
    <3> QED
      BY <1>1, <1>4, <3>1, <3>2, NotFoundIs DEF Replaced, s
  <2>2. CASE Exists(s) /\ rows = <<>>
    <3>1. r = Loaded(turn[t], rows)
      BY <2>2
    <3> HIDE DEF r
    <3>2. /\ r \in TurnType /\ TurnSound(r) /\ r.session = turn[t].session
          /\ r.cancelled = turn[t].cancelled
          /\ r.answer = turn[t].answer \/ turn[t].pc = "done"
          /\ r.pc = IF turn[t].pc = "history" THEN "answer" ELSE turn[t].pc
          /\ r.history = <<>>
      BY <1>1, <1>5, <2>2, <3>1, LoadedIs DEF s
    <3> QED
      BY <1>1, <1>4, <3>2 DEF Replaced, s
  <2>3. CASE Exists(s) /\ rows # <<>>
    <3>1. r = f2
      BY <2>3
    <3> HIDE DEF r
    <3>2. f1 \in TurnType /\ f1.pc = turn[t].pc /\ f1.session = s /\ f1.loading = "fill"
          /\ f1.cancelled = turn[t].cancelled /\ f1.answer = turn[t].answer /\ f1.title = turn[t].title
      BY <1>1 DEF TurnType, s
    <3> HIDE DEF f1
    <3>3. f2 \in TurnType /\ f2.pc = turn[t].pc /\ f2.session = s /\ f2.loading = "fill"
          /\ f2.cancelled = turn[t].cancelled /\ f2.answer = turn[t].answer /\ f2.title = turn[t].title
          /\ f2.history = rows
      BY <1>5, <3>2 DEF TurnType
    <3> HIDE DEF f2
    <3> QED
      BY <1>1, <1>4, <1>5, <2>3, <3>1, <3>3 DEF Replaced, TurnSound, s
  <2> QED
    BY <2>1, <2>2, <2>3
<1> HIDE DEF r
<1> QED
  BY <1>2, <1>3, <1>6, QuietStep, TypesStay DEF Typed

\* The window is filled with rows.
LEMMA FillKeeps ==
    ASSUME Typed, Kept, NEW t \in Turns, Fill(t)
    PROVE  Typed' /\ Kept'
<1> DEFINE s == turn[t].session
           h == turn[t].history
           r == Loaded(turn[t], h)
<1>1. turn[t] \in TurnType /\ TurnSound(turn[t]) /\ turn[t].loading = "fill" /\ s \in Sessions
      /\ s # Null /\ Fits(t) /\ h \in Seq(Messages) /\ h # <<>>
  BY ChatAssumption DEF Typed, TurnsTyped, Fill, TurnSound, TurnType, Kept
<1>2. UNCHANGED <<sess, db, remembered, op, calm, cascade>>
  BY DEF Fill
<1>3. Grows
  BY <1>2, StillThere
<1>4. turn' = [turn EXCEPT ![t] = r]
  BY <1>1 DEF Fill
<1>5. Removing(s) \/ Range2(h) \subseteq Range2(db[s])
  BY <1>1 DEF Fits
<1>6. SaveWindow(s, h)
  BY DEF Fill
<1> HIDE DEF h, s
<1>7. /\ r \in TurnType /\ TurnSound(r) /\ r.session = turn[t].session
      /\ r.cancelled = turn[t].cancelled
      /\ r.answer = turn[t].answer \/ turn[t].pc = "done"
      /\ r.pc = IF turn[t].pc = "history" THEN "answer" ELSE turn[t].pc
      /\ r.history = IF turn[t].pc = "done" THEN <<>> ELSE h
  BY <1>1, LoadedIs DEF s
<1> HIDE DEF r
<1>8. Replaced(t, r)
  BY <1>1, <1>4, <1>5, <1>7 DEF Replaced, s
<1>9. TurnsTyped' /\ \A u \in Turns : Fits(u)'
  BY <1>2, <1>3, <1>8, TurnMoves
<1>10. WindowTyped' /\ WindowWasStored' /\ BoundsTyped'
  BY <1>1, <1>2, <1>5, <1>6, WindowSaved
<1> QED
  BY <1>2, <1>9, <1>10, TypesStay DEF Typed, Kept

\* A turn that is put to another place of its course, and nothing else.
LEMMA MoveIs ==
    ASSUME Typed, NEW t \in Turns, NEW pc \in TurnPC \ {"new", "create", "history", "answer", "cache"},
           turn[t].pc # "done", turn[t].session # Null,
           pc # "done",
           pc \in {"touchSave", "persistSession"} => turn[t].title \in Titles,
           NEW r, r = [turn[t] EXCEPT !.pc = pc], turn' = [turn EXCEPT ![t].pc = pc]
    PROVE  Replaced(t, r)
<1>1. turn[t] \in TurnType /\ TurnSound(turn[t]) /\ turn \in [Turns -> TurnType]
  BY DEF Typed, TurnsTyped
<1>2. /\ r \in TurnType /\ r.pc = pc /\ r.session = turn[t].session
      /\ r.history = turn[t].history /\ r.cancelled = turn[t].cancelled
      /\ r.loading = turn[t].loading /\ r.title = turn[t].title
  BY <1>1 DEF TurnType
<1>3. turn' = [turn EXCEPT ![t] = r]
  BY <1>1
<1>4. TurnSound(r)
  BY <1>1, <1>2 DEF TurnSound
<1> QED
  BY <1>2, <1>3, <1>4 DEF Replaced

\* The answer is there, or has failed.
LEMMA AnswerKeeps ==
    ASSUME Typed, Kept, NEW t \in Turns, Answer(t)
    PROVE  Typed' /\ Kept'
<1>1. turn[t] \in TurnType /\ TurnSound(turn[t]) /\ turn[t].pc = "answer" /\ ~turn[t].cancelled
      /\ turn \in [Turns -> TurnType]
  BY DEF Typed, TurnsTyped, Answer, TurnSound
<1>2. UNCHANGED <<sess, db, window, remembered, op, faults, calm, cascade>>
  BY DEF Answer
<1>3. Grows
  BY <1>2, StillThere
<1>4. \E r : Replaced(t, r)
  <2> DEFINE r1 == [turn[t] EXCEPT !.pc = "persist"]
             r2 == [r1 EXCEPT !.answer = "failed"]
             r3 == Over(turn[t])
  <2>1. turn' = [turn EXCEPT ![t] = r1] \/ turn' = [turn EXCEPT ![t] = r2]
        \/ turn' = [turn EXCEPT ![t] = r3]
    BY <1>1 DEF Answer, Move, Finish
  <2>2. /\ r1 \in TurnType /\ TurnSound(r1) /\ r1.pc = "persist" /\ r1.session = turn[t].session
        /\ r1.history = turn[t].history
    BY <1>1 DEF TurnType, TurnPC, TurnSound
  <2> HIDE DEF r1
  <2>3. /\ r2 \in TurnType /\ TurnSound(r2) /\ r2.pc = "persist" /\ r2.session = turn[t].session
        /\ r2.history = turn[t].history
    BY <2>2 DEF TurnType, Answers, TurnSound
  <2> HIDE DEF r2
  <2>4. /\ r3 \in TurnType /\ TurnSound(r3) /\ r3.pc = "done" /\ r3.session = turn[t].session
        /\ ~r3.cancelled /\ (r3.history = turn[t].history \/ r3.history = <<>>)
    BY <1>1, OverIs, OverSound
  <2> HIDE DEF r3
  <2>5. CASE turn' = [turn EXCEPT ![t] = r1]
    <3>1. Replaced(t, r1)
      BY <1>1, <2>2, <2>5 DEF Replaced
    <3> QED
      BY <3>1
  <2>6. CASE turn' = [turn EXCEPT ![t] = r2]
    <3>1. Replaced(t, r2)
      BY <1>1, <2>3, <2>6 DEF Replaced
    <3> QED
      BY <3>1
  <2>7. CASE turn' = [turn EXCEPT ![t] = r3]
    <3>1. Replaced(t, r3)
      BY <1>1, <2>4, <2>7 DEF Replaced
    <3> QED
      BY <3>1
  <2> QED
    BY <2>1, <2>5, <2>6, <2>7
<1> PICK r : Replaced(t, r)
  BY <1>4
<1> QED
  BY <1>2, <1>3, QuietStep, TypesStay DEF Typed

\* The client stops the stream.
LEMMA StopKeeps ==
    ASSUME Typed, Kept, NEW t \in Turns, Stop(t)
    PROVE  Typed' /\ Kept'
<1> DEFINE r1 == [turn[t] EXCEPT !.cancelled = TRUE]
           r2 == [r1 EXCEPT !.answer = "interrupted"]
           r3 == [r2 EXCEPT !.pc = "persist"]
           r == IF r2.pc \in {"history", "answer"} THEN r3 ELSE r2
<1>0. turn[t].kind # "chat"
  BY DEF Stop
<1>1. turn[t] \in TurnType /\ TurnSound(turn[t])
      /\ turn[t].pc \in {"touch", "touchSave", "create", "history", "answer"}
  BY DEF Typed, TurnsTyped, Stop
<1>2. UNCHANGED <<sess, db, window, remembered, op, faults, calm, cascade>>
  BY DEF Stop
<1>3. Grows
  BY <1>2, StillThere
<1>4. turn' = [turn EXCEPT ![t] = r]
  BY DEF Stop
<1>5. /\ r1 \in TurnType /\ r1.pc = turn[t].pc /\ r1.session = turn[t].session
      /\ r1.history = turn[t].history /\ r1.loading = turn[t].loading /\ r1.title = turn[t].title
  BY <1>1 DEF TurnType
<1> HIDE DEF r1
<1>6. /\ r2 \in TurnType /\ r2.pc = turn[t].pc /\ r2.session = turn[t].session
      /\ r2.history = turn[t].history /\ r2.loading = turn[t].loading /\ r2.title = turn[t].title
  BY <1>5 DEF TurnType, Answers
<1> HIDE DEF r2
<1>7. /\ r3 \in TurnType /\ r3.pc = "persist" /\ r3.session = turn[t].session
      /\ r3.history = turn[t].history /\ r3.loading = turn[t].loading
  BY <1>6 DEF TurnType, TurnPC
<1> HIDE DEF r3
<1>8. /\ r \in TurnType /\ TurnSound(r) /\ r.session = turn[t].session
      /\ r.history = turn[t].history /\ r.pc \notin {"cache", "done"}
  <2>1. CASE turn[t].pc \in {"history", "answer"}
    <3>1. turn[t].session # Null
      BY <1>1, <1>0, <2>1 DEF TurnSound
    <3> QED
      BY <1>1, <1>6, <1>7, <2>1, <3>1 DEF TurnSound
  <2>2. CASE turn[t].pc \notin {"history", "answer"}
    BY <1>1, <1>6, <2>2 DEF TurnSound
  <2> QED
    BY <2>1, <2>2
<1> HIDE DEF r
<1>9. Replaced(t, r)
  BY <1>1, <1>4, <1>8 DEF Replaced
<1> QED
  BY <1>2, <1>3, <1>9, QuietStep, TypesStay DEF Typed

\* appendTurn finds the session or makes it.
LEMMA PersistKeeps ==
    ASSUME Typed, Kept, NEW t \in Turns, Persist(t)
    PROVE  Typed' /\ Kept'
<1> DEFINE s == turn[t].session
<1>1. turn[t] \in TurnType /\ TurnSound(turn[t]) /\ turn[t].pc = "persist" /\ Fits(t)
      /\ turn \in [Turns -> TurnType]
  BY DEF Typed, TurnsTyped, Persist, Kept
<1>2. UNCHANGED <<db, window, remembered, op, faults, calm, cascade>>
  BY DEF Persist
<1>3. CASE s = Null
  <2> PICK new \in Unused : /\ Save(new, "question")
                            /\ turn' = [turn EXCEPT ![t].pc = "persistSession", ![t].session = new,
                                                    ![t].title = "question"]
    BY <1>3 DEF Persist
  <2> DEFINE r1 == [turn[t] EXCEPT !.pc = "persistSession"]
             r2 == [r1 EXCEPT !.session = new]
             r == [r2 EXCEPT !.title = "question"]
  <2>1. new \in Sessions /\ new # Null
    BY ChatAssumption DEF Unused
  <2>2. turn[t].history = <<>> /\ turn[t].loading \in {"no", "loaded"}
    BY <1>1, <1>3 DEF TurnSound
  <2>3. turn' = [turn EXCEPT ![t] = r]
    BY <1>1
  <2>4. /\ r1 \in TurnType /\ r1.pc = "persistSession" /\ r1.history = <<>>
        /\ r1.loading = turn[t].loading
    BY <1>1, <2>2 DEF TurnType, TurnPC
  <2> HIDE DEF r1
  <2>5. /\ r2 \in TurnType /\ r2.pc = "persistSession" /\ r2.history = <<>>
        /\ r2.loading = turn[t].loading /\ r2.session = new
    BY <2>1, <2>4 DEF TurnType
  <2> HIDE DEF r2
  <2>6. /\ r \in TurnType /\ r.pc = "persistSession" /\ r.history = <<>>
        /\ r.loading = turn[t].loading /\ r.session = new /\ r.title = "question"
    BY <2>5 DEF TurnType, Titles
  <2> HIDE DEF r
  <2>7. SessTyped' /\ DOMAIN sess' = DOMAIN sess \cup {new}
    BY <2>1, SaveIs DEF Titles, Typed
  <2>8. TurnSound(r)
    BY <2>1, <2>2, <2>6 DEF TurnSound, Titles
  <2>9. Replaced(t, r)
    BY <1>1, <2>3, <2>6, <2>7, <2>8 DEF Replaced
  <2>10. Grows
    BY <1>2, <2>7, StillThere
  <2> QED
    BY <1>2, <2>7, <2>9, <2>10, QuietStep, TypesStay DEF Typed
<1>4. CASE s # Null /\ Exists(s)
  <2> DEFINE title == Retitled(sess[s])
             r1 == [turn[t] EXCEPT !.pc = "persistSession"]
             r == [r1 EXCEPT !.title = title]
  <2>1. title \in Titles
    BY <1>4 DEF Retitled, Titles, Exists, Typed, SessTyped
  <2>2. turn' = [turn EXCEPT ![t] = r] /\ sess' = sess
    BY <1>1, <1>4 DEF Persist
  <2> HIDE DEF title, s
  <2>3. /\ r1 \in TurnType /\ r1.pc = "persistSession" /\ r1.history = turn[t].history
        /\ r1.loading = turn[t].loading /\ r1.session = s
    BY <1>1 DEF TurnType, TurnPC, s
  <2> HIDE DEF r1
  <2>4. /\ r \in TurnType /\ r.pc = "persistSession" /\ r.history = turn[t].history
        /\ r.loading = turn[t].loading /\ r.session = s /\ r.title = title
    BY <2>1, <2>3 DEF TurnType
  <2> HIDE DEF r
  <2>5. TurnSound(r)
    BY <1>1, <1>4, <2>1, <2>4 DEF TurnSound, s
  <2>6. Replaced(t, r)
    BY <1>1, <1>4, <2>2, <2>4, <2>5 DEF Replaced, s
  <2>7. Grows
    BY <1>2, <2>2, StillThere
  <2> QED
    BY <1>2, <2>2, <2>6, <2>7, QuietStep, TypesStay DEF Typed
<1>5. CASE s # Null /\ ~Exists(s)
  <2> DEFINE r == Over(turn[t])
  <2>1. turn' = [turn EXCEPT ![t] = r] /\ sess' = sess
    BY <1>5 DEF Persist, Finish
  <2>2. Removing(s)
    BY <1>1, <1>5 DEF Fits, Exists
  <2> HIDE DEF s
  <2>3. /\ r \in TurnType /\ TurnSound(r) /\ r.pc = "done" /\ r.session = s
        /\ r.cancelled = turn[t].cancelled
    BY <1>1, OverIs, OverSound DEF s
  <2> HIDE DEF r
  <2>4. Replaced(t, r)
    BY <1>1, <2>1, <2>2, <2>3 DEF Replaced, s
  <2>5. Grows
    BY <1>2, <2>1, StillThere
  <2> QED
    BY <1>2, <2>1, <2>4, <2>5, QuietStep, TypesStay DEF Typed
<1> QED
  BY <1>3, <1>4, <1>5

\* appendTurn saves the session.
LEMMA PersistSessionKeeps ==
    ASSUME Typed, Kept, NEW t \in Turns, PersistSession(t)
    PROVE  Typed' /\ Kept'
<1> DEFINE s == turn[t].session
           r == [turn[t] EXCEPT !.pc = "persistMessages"]
<1>1. turn[t] \in TurnType /\ TurnSound(turn[t]) /\ turn[t].pc = "persistSession" /\ s \in Sessions
      /\ s # Null /\ turn[t].title \in Titles
  BY ChatAssumption DEF Typed, TurnsTyped, PersistSession, TurnSound, TurnType
<1>2. UNCHANGED <<db, window, remembered, op, faults, calm, cascade>>
  BY DEF PersistSession
<1>3. SessTyped' /\ DOMAIN sess' = DOMAIN sess \cup {s}
  BY <1>1, SaveIs DEF PersistSession, Typed
<1>4. Grows
  BY <1>2, <1>3, StillThere
<1>5. turn' = [turn EXCEPT ![t].pc = "persistMessages"]
  BY DEF PersistSession, Move
<1>6. "persistMessages" \in TurnPC \ {"new", "create", "history", "answer", "cache"}
  BY DEF TurnPC
<1> DEFINE pc == "persistMessages"
<1>7. r = [turn[t] EXCEPT !.pc = pc] /\ turn' = [turn EXCEPT ![t].pc = pc]
  BY <1>5
<1>8. pc \in TurnPC \ {"new", "create", "history", "answer", "cache"} /\ pc # "done"
      /\ pc \notin {"touchSave", "persistSession"}
  BY <1>6
<1> HIDE DEF r, pc
<1>9. Replaced(t, r)
  BY <1>1, <1>7, <1>8, MoveIs
<1> QED
  BY <1>2, <1>3, <1>4, <1>9, QuietStep, TypesStay DEF Typed

\* A step of one turn leaves the others as they fit.
LEMMA OthersStay ==
    ASSUME Typed, Kept, Grows, NEW t \in Turns, NEW r \in TurnType, TurnSound(r),
           turn' = [turn EXCEPT ![t] = r], Fits(t)',
           \A u \in Turns : u # t => (u \in remembered' <=> u \in remembered)
    PROVE  TurnsTyped' /\ \A u \in Turns : Fits(u)'
<1>1. turn'[t] = r /\ \A u \in Turns : u # t => turn'[u] = turn[u]
  BY DEF Typed, TurnsTyped
<1>2. \A u \in Turns : TurnSound(turn'[u])
  BY <1>1 DEF Typed, TurnsTyped
<1>3. \A u \in Turns : TurnSound(turn'[u]) => TurnSound(turn[u])'
  BY DEF TurnSound
<1>4. turn' \in [Turns -> TurnType]
  BY DEF Typed, TurnsTyped
<1>5. ASSUME NEW u \in Turns
      PROVE  Fits(u)'
  <2>1. CASE u = t
    BY <2>1
  <2>2. CASE u # t
    BY <1>1, <2>2, FitsStays DEF Kept
  <2> QED
    BY <2>1, <2>2
<1> QED
  BY <1>2, <1>3, <1>4, <1>5 DEF TurnsTyped

\* appendTurn inserts both messages.
LEMMA PersistMessagesKeeps ==
    ASSUME Typed, Kept, NEW t \in Turns, PersistMessages(t)
    PROVE  Typed' /\ Kept'
<1> DEFINE s == turn[t].session
<1>1. turn[t] \in TurnType /\ TurnSound(turn[t]) /\ turn[t].pc = "persistMessages"
      /\ s \in Sessions /\ s # Null /\ Fits(t) /\ turn \in [Turns -> TurnType]
  BY ChatAssumption DEF Typed, TurnsTyped, PersistMessages, TurnSound, TurnType, Kept
<1>2. UNCHANGED <<sess, window, remembered, op, faults, calm, cascade>>
  BY DEF PersistMessages
<1>3. CASE cascade /\ ~Exists(s)
  <2> DEFINE r == Over(turn[t])
  <2>1. turn' = [turn EXCEPT ![t] = r] /\ db' = db
    BY <1>3 DEF PersistMessages, Finish
  <2>2. Removing(s)
    BY <1>1, <1>3 DEF Fits, Exists
  <2> HIDE DEF s
  <2>3. /\ r \in TurnType /\ TurnSound(r) /\ r.pc = "done" /\ r.session = s
        /\ r.cancelled = turn[t].cancelled
    BY <1>1, OverIs, OverSound DEF s
  <2> HIDE DEF r
  <2>4. Replaced(t, r)
    BY <1>1, <2>1, <2>2, <2>3 DEF Replaced, s
  <2>5. Grows
    BY <1>2, <2>1, StillThere
  <2> QED
    BY <1>2, <2>1, <2>4, <2>5, QuietStep, TypesStay DEF Typed
<1>4. CASE ~(cascade /\ ~Exists(s))
  <2> DEFINE r == [turn[t] EXCEPT !.pc = "cache"]
             pair == <<QuestionOf(t), AnswerOf(t)>>
  <2>1. db' = [db EXCEPT ![s] = @ \o pair] /\ turn' = [turn EXCEPT ![t] = r]
    BY <1>1, <1>4 DEF PersistMessages, Move
  <2>2. /\ r \in TurnType /\ r.pc = "cache" /\ r.session = s /\ r.history = turn[t].history
        /\ r.cancelled = turn[t].cancelled /\ r.answer = turn[t].answer
        /\ r.loading = turn[t].loading
    BY <1>1 DEF TurnType, TurnPC
  <2>3. TurnSound(r)
    BY <1>1, <2>2 DEF TurnSound
  <2>4. pair \in Seq(Messages) /\ Range2(pair) = {QuestionOf(t), AnswerOf(t)}
    BY <1>1, PairIs DEF TurnType
  <2> HIDE DEF pair, r
  <2>5. db[s] \in Seq(Messages) /\ db \in [Sessions -> Seq(Messages)]
    BY <1>1 DEF Typed, StoresTyped
  <2>6. db[s] \o pair \in Seq(Messages) /\ Range2(db[s] \o pair) = Range2(db[s]) \cup Range2(pair)
    BY <2>4, <2>5, ConcatRange
  <2>7. /\ db'[s] = db[s] \o pair /\ db' \in [Sessions -> Seq(Messages)]
        /\ \A x \in Sessions : x # s => db'[x] = db[x]
    BY <1>1, <2>1, <2>5, <2>6
  <2>8. StoresTyped'
    BY <1>2, <2>7 DEF StoresTyped, Typed
  <2>9. Grows
    <3>1. \A x : Removing(x)' <=> Removing(x)
      BY <1>2 DEF Removing
    <3>2. \A x \in Sessions : Range2(db[x]) \subseteq Range2(db'[x])
      BY <2>6, <2>7
    <3> QED
      BY <1>2, <3>1, <3>2 DEF Grows
  <2>10. Fits(t)'
    <3> PICK x : x = s
      OBVIOUS
    <3> DEFINE h == turn[t].history
    <3>0. Removing(x) => Removing(x)'
      BY <2>9 DEF Grows
    <3>1. turn'[t] = r /\ turn'[t].session = x /\ turn'[t].history = h
      BY <1>1, <2>1, <2>2
    <3>2. x \in DOMAIN sess' \/ Removing(x)'
      BY <1>1, <1>2, <3>0 DEF Fits
    <3>3. ~Removing(x)' => Range2(h) \subseteq Range2(db'[x])
      BY <1>1, <2>6, <2>7, <3>0 DEF Fits
    <3>4. {QuestionOf(t), [turn |-> t, role |-> "assistant", text |-> r.answer]}
            \subseteq Range2(db'[x])
      BY <2>2, <2>4, <2>6, <2>7 DEF AnswerOf
    <3>5. t \notin remembered'
      BY <1>1, <1>2 DEF Fits
    <3> HIDE DEF h, s
    <3> QED
      BY <2>2, <3>1, <3>2, <3>3, <3>4, <3>5, FitsNext
  <2>11. TurnsTyped' /\ \A u \in Turns : Fits(u)'
    BY <1>2, <2>1, <2>2, <2>3, <2>9, <2>10, OthersStay
  <2>12. WindowWasStored'
    BY <1>2, <2>9, WindowStays DEF Kept
  <2> QED
    BY <1>2, <2>8, <2>11, <2>12, TypesStay DEF Typed, Kept
<1> QED
  BY <1>3, <1>4

\* The window is saved, and the turn perhaps remembered.
LEMMA CacheKeeps ==
    ASSUME Typed, Kept, NEW t \in Turns, Cache(t)
    PROVE  Typed' /\ Kept'
<1> DEFINE s == turn[t].session
           r == Over(turn[t])
           pair == <<QuestionOf(t), AnswerOf(t)>>
           h == turn[t].history \o pair
<1>1. turn[t] \in TurnType /\ TurnSound(turn[t]) /\ turn[t].pc = "cache"
      /\ s \in Sessions /\ s # Null /\ Fits(t) /\ turn \in [Turns -> TurnType]
  BY ChatAssumption DEF Typed, TurnsTyped, Cache, TurnSound, TurnType, Kept
<1>2. UNCHANGED <<sess, db, op, calm, cascade>>
  BY DEF Cache
<1>3. Grows
  BY <1>2, StillThere
<1>4. turn' = [turn EXCEPT ![t] = r]
  BY DEF Cache, Finish
<1>5. /\ r \in TurnType /\ TurnSound(r) /\ r.pc = "done" /\ r.session = s
      /\ r.cancelled = turn[t].cancelled /\ (r.history = turn[t].history \/ r.history = <<>>)
  BY <1>1, OverIs, OverSound
<1> HIDE DEF r
<1>6. pair \in Seq(Messages) /\ Range2(pair) = {QuestionOf(t), AnswerOf(t)} /\ Len(pair) = 2
      /\ QuestionOf(t).turn = t
  BY <1>1, PairIs DEF TurnType
<1> HIDE DEF pair
<1>7. h \in Seq(Messages) /\ Range2(h) = Range2(turn[t].history) \cup Range2(pair) /\ h # <<>>
  <2>1. turn[t].history \in Seq(Messages)
    BY <1>1 DEF TurnType
  <2>2. h \in Seq(Messages) /\ Range2(h) = Range2(turn[t].history) \cup Range2(pair)
    BY <1>6, <2>1, ConcatRange
  <2>3. Range2(<<>>) = {}
    BY DEF Range2
  <2> HIDE DEF h
  <2> QED
    BY <1>6, <2>2, <2>3
<1>8. SaveWindow(s, h)
  BY DEF Cache, pair
<1>9. Removing(s) \/ Range2(h) \subseteq Range2(db[s])
  BY <1>1, <1>6, <1>7 DEF Fits
<1> HIDE DEF h
<1>10. WindowTyped' /\ WindowWasStored' /\ BoundsTyped'
  BY <1>1, <1>2, <1>7, <1>8, <1>9, WindowSaved
<1>11. /\ t \in remembered' => ~turn[t].cancelled
       /\ \A u \in Turns : u # t => (u \in remembered' <=> u \in remembered)
       /\ remembered' \subseteq Turns
  <2>1. t \notin remembered
    BY <1>1 DEF Fits
  <2>2. remembered' = remembered \/ (~turn[t].cancelled /\ remembered' = remembered \cup {t})
    BY DEF Cache
  <2> QED
    BY <2>1, <2>2 DEF Typed, StoresTyped
<1>12. Fits(t)'
  <2> PICK x : x = s
    OBVIOUS
  <2> PICK g : g = r.history
    OBVIOUS
  <2>0. Removing(x) => Removing(x)'
    BY <1>3 DEF Grows
  <2>1. turn'[t] = r /\ turn'[t].session = x /\ turn'[t].history = g
    BY <1>1, <1>4, <1>5
  <2>2. x \in DOMAIN sess' \/ Removing(x)'
    BY <1>1, <1>2, <2>0 DEF Fits
  <2>3. Range2(<<>>) = {}
    BY DEF Range2
  <2>4. ~Removing(x)' => Range2(g) \subseteq Range2(db'[x])
    BY <1>1, <1>2, <1>5, <2>0, <2>3 DEF Fits
  <2>5. (\E m \in Range2(db'[x]) : m.turn = t) \/ Removing(x)'
    BY <1>1, <1>2, <1>6, <2>0 DEF Fits
  <2>6. x # Null
    BY <1>1
  <2> HIDE DEF s
  <2> QED
    BY <1>5, <1>11, <2>1, <2>2, <2>4, <2>5, <2>6, FitsNext
<1>13. TurnsTyped' /\ \A u \in Turns : Fits(u)'
  BY <1>3, <1>4, <1>5, <1>11, <1>12, OthersStay
<1>14. StoresTyped'
  BY <1>2, <1>11 DEF StoresTyped, Typed
<1> QED
  BY <1>2, <1>10, <1>13, <1>14, TypesStay DEF Typed, Kept

-----------------------------------------------------------------------------
(* The requests on a session, and the time to live *)

\* A step that loses nothing and leaves the turns and the memory alone.
LEMMA RequestKeeps ==
    ASSUME Typed, Kept, Grows, UNCHANGED <<turn, remembered>>,
           \A s \in Sessions : window'[s] = window[s] \/ window'[s] = Null
    PROVE  Kept' /\ TurnsTyped'
<1>1. TurnsTyped'
  BY DEF Typed, TurnsTyped, TurnSound
<1>2. ASSUME NEW t \in Turns
      PROVE  Fits(t)'
  BY FitsStays DEF Kept
<1> QED
  BY <1>1, <1>2, WindowStays DEF Kept

\* A request moves on: which session it is about stays.
LEMMA OpMoves ==
    ASSUME Typed, NEW o \in Ops, NEW q \in OpType, OpSound(q), op' = [op EXCEPT ![o] = q],
           op[o].kind = "remove" => q.kind = "remove" /\ q.session = op[o].session
    PROVE  OpsTyped' /\ \A s : Removing(s) => Removing(s)'
<1>1. op'[o] = q /\ \A p \in Ops : p # o => op'[p] = op[p]
  BY DEF Typed, OpsTyped
<1>2. op' \in [Ops -> OpType]
  BY DEF Typed, OpsTyped
<1>3. \A p \in Ops : OpSound(op'[p])
  BY <1>1 DEF Typed, OpsTyped
<1>4. \A p \in Ops : OpSound(op'[p]) => OpSound(op[p])'
  BY DEF OpSound
<1>5. ASSUME NEW s, Removing(s)
      PROVE  Removing(s)'
  <2> PICK p \in Ops : op[p].kind = "remove" /\ op[p].session = s
    BY <1>5 DEF Removing
  <2>1. op'[p].kind = "remove" /\ op'[p].session = s
    BY <1>1
  <2> QED
    BY <2>1 DEF Removing
<1> QED
  BY <1>2, <1>3, <1>4, <1>5 DEF OpsTyped

\* A request begins.
LEMMA OpStartKeeps ==
    ASSUME Typed, Kept, NEW o \in Ops, NEW kind \in {"rename", "remove"}, NEW s \in Sessions,
           OpStart(o, kind, s)
    PROVE  Typed' /\ Kept'
<1> DEFINE pc == IF kind = "rename" THEN "rename" ELSE "messages"
           q == [kind |-> kind, session |-> s, pc |-> pc]
<1>1. op' = [op EXCEPT ![o] = q] /\ UNCHANGED <<sess, db, window, remembered, turn, faults, calm, cascade>>
  BY DEF OpStart
<1>2. q \in OpType /\ OpSound(q)
  BY ChatAssumption DEF OpType, OpSound
<1>3. op[o].kind = "none"
  BY DEF OpStart, Typed, OpsTyped, OpSound
<1> HIDE DEF q
<1>4. OpsTyped' /\ \A x : Removing(x) => Removing(x)'
  BY <1>1, <1>2, <1>3, OpMoves
<1>5. Grows
  BY <1>1, <1>4 DEF Grows, Range2
<1> QED
  BY <1>1, <1>4, <1>5, RequestKeeps, TypesStay DEF Typed

\* rename saves the session.
LEMMA RenameKeeps ==
    ASSUME Typed, Kept, NEW o \in Ops, Rename(o)
    PROVE  Typed' /\ Kept'
<1> DEFINE q == [op[o] EXCEPT !.pc = "done"]
           s == op[o].session
<1>1. op[o] \in OpType /\ OpSound(op[o]) /\ op[o].pc = "rename" /\ s \in Sessions
  BY DEF Typed, OpsTyped, OpType, OpSound, Rename
<1>2. op' = [op EXCEPT ![o] = q] /\ UNCHANGED <<db, window, remembered, turn, faults, calm, cascade>>
  BY DEF Rename, Typed, OpsTyped
<1>3. q \in OpType /\ OpSound(q) /\ q.kind = op[o].kind /\ q.session = op[o].session
  BY <1>1 DEF OpType, OpSound
<1> HIDE DEF q
<1>4. OpsTyped' /\ \A x : Removing(x) => Removing(x)'
  BY <1>2, <1>3, OpMoves
<1>5. SessTyped' /\ DOMAIN sess' = DOMAIN sess \cup {s}
  BY <1>1, SaveIs DEF Titles, Typed, Rename
<1>6. Grows
  BY <1>2, <1>4, <1>5 DEF Grows, Range2
<1> QED
  BY <1>2, <1>4, <1>5, <1>6, RequestKeeps, TypesStay DEF Typed

\* remove deletes the messages.
LEMMA RemoveMessagesKeeps ==
    ASSUME Typed, Kept, NEW o \in Ops, RemoveMessages(o)
    PROVE  Typed' /\ Kept'
<1> DEFINE q == [op[o] EXCEPT !.pc = "session"]
           s == op[o].session
<1>1. op[o] \in OpType /\ OpSound(op[o]) /\ op[o].pc = "messages" /\ op[o].kind = "remove"
      /\ s \in Sessions /\ s # Null
  BY DEF Typed, OpsTyped, OpType, OpSound, RemoveMessages
<1>2. op' = [op EXCEPT ![o] = q] /\ db' = [db EXCEPT ![s] = <<>>]
      /\ UNCHANGED <<sess, window, remembered, turn, faults, calm, cascade>>
  BY DEF RemoveMessages, Typed, OpsTyped
<1>3. q \in OpType /\ OpSound(q) /\ q.kind = "remove" /\ q.session = s
  BY <1>1 DEF OpType, OpSound
<1> HIDE DEF q
<1>4. OpsTyped' /\ \A x : Removing(x) => Removing(x)'
  BY <1>2, <1>3, OpMoves
<1>5. Removing(s)
  BY <1>1 DEF Removing
<1>6. <<>> \in Seq(Messages)
  OBVIOUS
<1> HIDE DEF s
<1>7. db' \in [Sessions -> Seq(Messages)] /\ \A x \in Sessions : x # s => db'[x] = db[x]
  BY <1>2, <1>6 DEF Typed, StoresTyped
<1>8. Grows
  BY <1>2, <1>4, <1>5, <1>7 DEF Grows
<1> QED
  BY <1>2, <1>4, <1>7, <1>8, RequestKeeps, TypesStay DEF Typed, StoresTyped

\* remove deletes the session, and what was inserted in between.
LEMMA RemoveSessionKeeps ==
    ASSUME Typed, Kept, NEW o \in Ops, RemoveSession(o)
    PROVE  Typed' /\ Kept'
<1> DEFINE q == [op[o] EXCEPT !.pc = "done"]
           s == op[o].session
<1>1. op[o] \in OpType /\ OpSound(op[o]) /\ op[o].pc = "session" /\ op[o].kind = "remove"
      /\ s \in Sessions /\ s # Null
  BY DEF Typed, OpsTyped, OpType, OpSound, RemoveSession
<1>2. /\ op' = [op EXCEPT ![o] = q] /\ UNCHANGED <<window, remembered, turn, faults, calm, cascade>>
      /\ db' = [db EXCEPT ![s] = <<>>] \/ db' = db
      /\ sess' = [x \in DOMAIN sess \ {s} |-> sess[x]]
  BY DEF RemoveSession, Typed, OpsTyped
<1>3. q \in OpType /\ OpSound(q) /\ q.kind = "remove" /\ q.session = s
  BY <1>1 DEF OpType, OpSound
<1> HIDE DEF q
<1>4. OpsTyped' /\ \A x : Removing(x) => Removing(x)'
  BY <1>2, <1>3, OpMoves
<1>5. Removing(s)
  BY <1>1 DEF Removing
<1>6. <<>> \in Seq(Messages)
  OBVIOUS
<1> HIDE DEF s
<1>7. db' \in [Sessions -> Seq(Messages)] /\ \A x \in Sessions : x # s => db'[x] = db[x]
  BY <1>2, <1>6 DEF Typed, StoresTyped
<1>8. Grows
  BY <1>2, <1>4, <1>5, <1>7 DEF Grows
<1>9. SessTyped'
  BY <1>2 DEF Typed, SessTyped
<1> QED
  BY <1>2, <1>4, <1>7, <1>8, <1>9, RequestKeeps, TypesStay DEF Typed, StoresTyped

\* A window's time to live runs out.
LEMMA ExpireKeeps ==
    ASSUME Typed, Kept, NEW s \in Sessions, Expire(s)
    PROVE  Typed' /\ Kept'
<1>1. UNCHANGED <<sess, db, remembered, turn, op, faults, calm, cascade>>
      /\ window' = [window EXCEPT ![s] = Null]
  BY DEF Expire
<1>2. \A x \in Sessions : window'[x] = window[x] \/ window'[x] = Null
  BY <1>1 DEF Typed, WindowTyped
<1>3. window' \in [Sessions -> Seq(Messages) \cup {Null}]
  BY <1>1 DEF Typed, WindowTyped
<1>4. WindowTyped'
  BY <1>2, <1>3 DEF Typed, WindowTyped
<1>5. Grows
  BY <1>1, StillThere
<1> QED
  BY <1>1, <1>2, <1>4, <1>5, RequestKeeps, TypesStay DEF Typed

-----------------------------------------------------------------------------
(* The theorems *)

IInv == Typed /\ Kept

\* It holds at first.
LEMMA AtFirst ==
    ASSUME Init
    PROVE  IInv
<1> DEFINE d == CHOOSE s \in Sessions : TRUE
<1>0. d \in Sessions
  BY ChatAssumption
<1> HIDE DEF d
<1>1. DOMAIN sess = {d} /\ sess[d] = "default"
  BY DEF Init, d
<1>2. <<>> \in Seq(Messages) /\ Range2(<<>>) = {}
  BY DEF Range2
<1>3. SessTyped
  BY <1>0, <1>1 DEF SessTyped, Titles
<1>4. WindowTyped /\ StoresTyped
  BY <1>2 DEF Init, WindowTyped, StoresTyped
<1>5. Unasked \in TurnType /\ TurnSound(Unasked) /\ Unasked.session = Null /\ Unasked.pc = "new"
  BY <1>2 DEF Unasked, TurnType, TurnPC, Answers, TurnSound
<1>6. TurnsTyped
  BY <1>5 DEF Init, TurnsTyped
<1>7. NoOp \in OpType /\ OpSound(NoOp)
  BY DEF NoOp, OpType, OpSound
<1>8. OpsTyped
  BY <1>7 DEF Init, OpsTyped
<1>9. BoundsTyped
  BY ChatAssumption DEF Init, BoundsTyped
<1>10. WindowWasStored
  BY DEF Init, WindowWasStored
<1>11. ASSUME NEW t \in Turns
       PROVE  Fits(t)
  <2>1. turn[t] = Unasked /\ t \notin remembered
    BY DEF Init
  <2> QED
    BY <1>5, <2>1 DEF Fits
<1> QED
  BY <1>3, <1>4, <1>6, <1>8, <1>9, <1>10, <1>11 DEF IInv, Typed, Kept

\* Every step keeps it.
LEMMA StepKeeps ==
    ASSUME IInv, [Next]_chatVars
    PROVE  IInv'
<1> USE DEF IInv
<1>1. ASSUME NEW t \in Turns, NEW kind \in {"chat", "stream", "speech"},
             NEW s \in Sessions \cup {Null}, Ask(t, kind, s)
      PROVE  IInv'
  BY <1>1, AskKeeps
<1>2. ASSUME NEW t \in Turns, TurnStep(t)
      PROVE  IInv'
  BY <1>2, CreateKeeps, TouchKeeps, TouchSaveKeeps, AnswerKeeps, PersistKeeps,
     PersistSessionKeeps, PersistMessagesKeeps, CacheKeeps DEF TurnStep
<1>3. ASSUME NEW t \in Turns, Load(t)
      PROVE  IInv'
  BY <1>3, TryLoadKeeps, LoadRowsKeeps, FillKeeps DEF Load
<1>4. ASSUME NEW t \in Turns, Stop(t)
      PROVE  IInv'
  BY <1>4, StopKeeps
<1>5. ASSUME NEW o \in Ops, OpStep(o)
      PROVE  IInv'
  BY <1>5, RenameKeeps, RemoveMessagesKeeps, RemoveSessionKeeps DEF OpStep
<1>6. ASSUME NEW o \in Ops, NEW kind \in {"rename", "remove"}, NEW s \in Sessions,
             OpStart(o, kind, s)
      PROVE  IInv'
  BY <1>6, OpStartKeeps
<1>7. ASSUME NEW s \in Sessions, Expire(s)
      PROVE  IInv'
  BY <1>7, ExpireKeeps
<1>8. CASE UNCHANGED chatVars
  <2>1. UNCHANGED <<sess, db, window, remembered, turn, op, faults, calm, cascade>>
    BY <1>8 DEF chatVars
  <2>2. Grows
    BY <2>1, StillThere
  <2> QED
    BY <2>1, <2>2, RequestKeeps, TypesStay DEF Typed
<1> QED
  BY <1>1, <1>2, <1>3, <1>4, <1>5, <1>6, <1>7, <1>8 DEF Next

\* Sessions, messages, windows, turns and requests are always well formed, and
\* no window is longer than the short memory.
THEOREM AlwaysTyped == Spec => []TypeOK
<1>1. IInv => TypeOK
  <2> SUFFICES ASSUME IInv
               PROVE  TypeOK
    OBVIOUS
  <2>1. SessTyped /\ WindowTyped /\ StoresTyped /\ TurnsTyped /\ OpsTyped /\ BoundsTyped
    BY DEF IInv, Typed
  <2>2. \A o \in Ops : op[o].pc \in {"new", "rename", "messages", "session", "done"}
    BY <2>1 DEF OpsTyped, OpType
  <2> QED
    BY <2>1, <2>2 DEF TypeOK, SessTyped, WindowTyped, StoresTyped, TurnsTyped, BoundsTyped, TurnType
<1> QED
  BY <1>1, AtFirst, StepKeeps, PTL DEF Spec

\* However turns, stops, requests and Redis failures overlap, a window never
\* holds a message that the database does not, but for sessions being removed.
THEOREM WindowsWereStored == Spec => []WindowWasStored
<1>1. IInv => WindowWasStored
  BY DEF IInv, Kept
<1> QED
  BY <1>1, AtFirst, StepKeeps, PTL DEF Spec

\* What enters the long memory was answered to the end and stored.
THEOREM MemoriesWereStored == Spec => []RememberedWasStored
<1>1. IInv => RememberedWasStored
  BY DEF IInv, Kept, Fits, RememberedWasStored, Typed, StoresTyped
<1> QED
  BY <1>1, AtFirst, StepKeeps, PTL DEF Spec

\* A turn that was stopped is stored when it is over, whenever the client left,
\* unless its session is being removed; the one stopped turn without a session
\* is a stream stopped while its session was being created.
THEOREM StoppedTurnsAreKept == Spec => []StoppedTurnIsKept
<1>1. IInv => StoppedTurnIsKept
  BY DEF IInv, Kept, Fits, StoppedTurnIsKept, Typed, TurnsTyped, TurnSound, TurnType
<1> QED
  BY <1>1, AtFirst, StepKeeps, PTL DEF Spec

-----------------------------------------------------------------------------
(* Requests kept apart: the window is the end of the conversation *)

Active(r) == r.pc \notin {"new", "done"} \/ r.loading \in {"try", "rows", "fill"}

\* One turn or request works on a session at a time ...
Alone ==
    /\ \A t, u \in Turns : Active(turn[t]) /\ Active(turn[u]) /\ turn[t].session # Null
                              /\ turn[t].session = turn[u].session => t = u
    /\ \A t \in Turns, o \in Ops :
          Active(turn[t]) /\ OpRunning(o) => turn[t].session # op[o].session
    /\ \A o, p \in Ops : OpRunning(o) /\ OpRunning(p) /\ op[o].session = op[p].session => o = p

\* ... and finds it there.
Present ==
    /\ \A t \in Turns : Active(turn[t]) /\ turn[t].session # Null => turn[t].session \in DOMAIN sess
    /\ \A o \in Ops : OpRunning(o) => op[o].session \in DOMAIN sess

\* A turn loads its history at one place of its course, and is not stopped before.
OnCourse(r) ==
    /\ r.loading \in {"try", "rows", "fill"} <=> r.pc = "history"
    /\ r.pc \in {"new", "touch", "touchSave", "create"} => r.loading = "no" /\ ~r.cancelled

\* What a turn works with is the end of its conversation; once its own messages
\* are inserted, of what came before them.
HistoryIsTail(t) ==
    LET s == turn[t].session
    IN  s # Null =>
          /\ turn[t].loading = "fill"
                \/ turn[t].pc \in {"answer", "persist", "persistSession", "persistMessages"} =>
                turn[t].history = LastOf(db[s], MaxWindow)
          /\ turn[t].pc = "cache" =>
                \E old \in Seq(Messages) : /\ db[s] = old \o <<QuestionOf(t), AnswerOf(t)>>
                                           /\ turn[t].history = LastOf(old, MaxWindow)

\* Between the messages and the window of a turn, or of a removal, they differ.
Unsettled(s) == \/ \E t \in Turns : turn[t].pc = "cache" /\ turn[t].session = s
                \/ \E o \in Ops : op[o].pc = "session" /\ op[o].session = s

Tails == \A s \in DOMAIN sess :
            window[s] # Null /\ ~Unsettled(s) => window[s] = LastOf(db[s], MaxWindow)

Tidy == Alone /\ Present /\ (\A t \in Turns : OnCourse(turn[t]) /\ HistoryIsTail(t)) /\ Tails

\* The end of an end, with more behind it, is the end of the whole.
LEMMA LastOfLast ==
    ASSUME NEW T, NEW a \in Seq(T), NEW b \in Seq(T), NEW n \in Nat
    PROVE  LastOf(LastOf(a, n) \o b, n) = LastOf(a \o b, n)
<1> DEFINE la == LastOf(a, n)
           x == la \o b
           y == a \o b
           lx == LastOf(x, n)
           ly == LastOf(y, n)
<1>1. /\ la \in Seq(T) /\ Len(la) = IF Len(a) > n THEN n ELSE Len(a)
      /\ \A i \in 1..Len(la) : la[i] = IF Len(a) > n THEN a[i + Len(a) - n] ELSE a[i]
  BY LastOfIs
<1>2. Len(a) \in Nat /\ Len(b) \in Nat
  OBVIOUS
<1> HIDE DEF la
<1>3. /\ x \in Seq(T) /\ Len(x) = Len(la) + Len(b)
      /\ \A i \in 1..Len(x) : x[i] = IF i <= Len(la) THEN la[i] ELSE b[i - Len(la)]
  <2>1. la \in Seq(T)
    BY <1>1
  <2>2. /\ x \in Seq(T) /\ Len(x) = Len(la) + Len(b)
        /\ \A i \in 1..(Len(la) + Len(b)) : x[i] = IF i <= Len(la) THEN la[i] ELSE b[i - Len(la)]
    BY <2>1, ConcatIs
  <2> QED
    BY <2>2
<1>4. /\ y \in Seq(T) /\ Len(y) = Len(a) + Len(b)
      /\ \A i \in 1..Len(y) : y[i] = IF i <= Len(a) THEN a[i] ELSE b[i - Len(a)]
  OBVIOUS
<1> HIDE DEF x, y
<1>5. /\ lx \in Seq(T) /\ Len(lx) = IF Len(x) > n THEN n ELSE Len(x)
      /\ \A i \in 1..Len(lx) : lx[i] = IF Len(x) > n THEN x[i + Len(x) - n] ELSE x[i]
  BY <1>3, LastOfIs
<1>6. /\ ly \in Seq(T) /\ Len(ly) = IF Len(y) > n THEN n ELSE Len(y)
      /\ \A i \in 1..Len(ly) : ly[i] = IF Len(y) > n THEN y[i + Len(y) - n] ELSE y[i]
  BY <1>4, LastOfIs
<1> HIDE DEF lx, ly
<1>7. CASE Len(a) <= n
  <2>1. Len(la) = Len(a) /\ \A i \in 1..Len(a) : la[i] = a[i]
    BY <1>1, <1>2, <1>7
  <2>2. la = a
    BY <1>1, <2>1
  <2> QED
    BY <2>2 DEF x, y, lx, ly, la
<1>8. CASE Len(a) > n
  <2>1. Len(lx) = n /\ Len(ly) = n
    BY <1>1, <1>2, <1>3, <1>4, <1>5, <1>6, <1>8
  <2>2. ASSUME NEW i \in 1..n
        PROVE  lx[i] = ly[i]
    <3>1. lx[i] = x[i + Len(b)]
      <4>1. lx[i] = IF Len(x) > n THEN x[i + Len(x) - n] ELSE x[i]
        BY <1>5, <2>1
      <4>2. Len(x) = n + Len(b)
        BY <1>1, <1>3, <1>8
      <4>3. i + Len(x) - n = i + Len(b) /\ (~(Len(x) > n) => i = i + Len(b))
        BY <1>2, <4>2
      <4> QED
        BY <4>1, <4>3
    <3>2. ly[i] = y[i + Len(a) + Len(b) - n]
      BY <1>2, <1>4, <1>6, <1>8, <2>1
    <3>3. CASE i + Len(b) <= n
      <4>1. x[i + Len(b)] = la[i + Len(b)] /\ i + Len(b) \in 1..Len(la)
        BY <1>1, <1>2, <1>3, <1>8, <3>3
      <4>2. la[i + Len(b)] = a[(i + Len(b)) + Len(a) - n]
        BY <1>1, <1>8, <4>1
      <4>3. y[i + Len(a) + Len(b) - n] = a[i + Len(a) + Len(b) - n]
        <5> PICK k : k = i + Len(a) + Len(b) - n
          OBVIOUS
        <5>1. k \in 1..Len(y) /\ k <= Len(a)
          BY <1>2, <1>4, <1>8, <3>3
        <5>2. y[k] = a[k]
          BY <1>4, <5>1
        <5> QED
          BY <5>2
      <4>4. (i + Len(b)) + Len(a) - n = i + Len(a) + Len(b) - n
        BY <1>2
      <4> QED
        BY <3>1, <3>2, <4>1, <4>2, <4>3, <4>4
    <3>4. CASE i + Len(b) > n
      <4>1. x[i + Len(b)] = b[(i + Len(b)) - n]
        BY <1>1, <1>2, <1>3, <1>8, <3>4
      <4>2. y[i + Len(a) + Len(b) - n] = b[(i + Len(a) + Len(b) - n) - Len(a)]
        <5> PICK k : k = i + Len(a) + Len(b) - n
          OBVIOUS
        <5>1. k \in 1..Len(y) /\ ~(k <= Len(a))
          BY <1>2, <1>4, <1>8, <3>4
        <5>2. y[k] = b[k - Len(a)]
          BY <1>4, <5>1
        <5> QED
          BY <5>2
      <4>3. (i + Len(a) + Len(b) - n) - Len(a) = (i + Len(b)) - n
        BY <1>2
      <4> QED
        BY <3>1, <3>2, <4>1, <4>2, <4>3
    <3> QED
      BY <1>2, <3>3, <3>4
  <2>3. lx = ly
    BY <1>5, <1>6, <2>1, <2>2
  <2> QED
    BY <2>3 DEF lx, ly, x, y, la
<1> QED
  BY <1>2, <1>7, <1>8

\* A step of one turn on one session, which nobody else works on, keeps the
\* conversations tidy when it keeps that one so.
LEMMA TurnTidies ==
    ASSUME Typed, Typed', Tidy, NEW t \in Turns, NEW x, x = turn'[t].session,
           \A u \in Turns : u # t => turn'[u] = turn[u],
           op' = op,
           turn[t].session = x \/ turn[t].session = Null,
           x # Null => \/ turn[t].session = x /\ Active(turn[t])
                       \/ ~Busy(x),
           DOMAIN sess \subseteq DOMAIN sess', DOMAIN sess' \subseteq DOMAIN sess \cup {x},
           x # Null /\ Active(turn'[t]) => x \in DOMAIN sess',
           \A y \in Sessions : y # x => db'[y] = db[y] /\ window'[y] = window[y],
           OnCourse(turn'[t]), HistoryIsTail(t)',
           turn[t].pc # "cache" \/ turn[t].session = x,
           x \in DOMAIN sess' /\ window'[x] # Null /\ turn'[t].pc # "cache" =>
              window'[x] = LastOf(db'[x], MaxWindow)
    PROVE  Tidy'
<1>1. x # Null => /\ \A u \in Turns : u # t /\ Active(turn[u]) => turn[u].session # x
                  /\ \A o \in Ops : OpRunning(o) => op[o].session # x
  BY DEF Tidy, Alone, Busy, Active, Running
<1>2. \A u \in Turns : u # t /\ Active(turn[u]) /\ turn[u].session # Null => turn[u].session # x
  BY <1>1
<1>3. \A o \in Ops : op[o].session # Null \/ ~OpRunning(o)
  BY DEF Typed, OpsTyped, OpSound, OpRunning, OpType
<1>4. \A u \in Turns : turn[u].session \in Sessions \cup {Null}
  BY DEF Typed, TurnsTyped, TurnType
<1>5. \A o \in Ops : OpRunning(o)' <=> OpRunning(o)
  BY DEF OpRunning
<1>6. \A u \in Turns : u # t => (Active(turn[u])' <=> Active(turn[u]))
  BY DEF Active
<1>7. Active(turn[t])' <=> Active(turn'[t])
  BY DEF Active
<1>8. \A o \in Ops : OpRunning(o) => op[o].session # x
  BY <1>1, <1>3
<1>9. Alone'
  <2>1. ASSUME NEW u \in Turns, NEW v \in Turns, Active(turn[u])', Active(turn[v])',
               turn'[u].session # Null, turn'[u].session = turn'[v].session
        PROVE  u = v
    <3>1. CASE u # t /\ v # t
      BY <1>6, <2>1, <3>1 DEF Tidy, Alone
    <3>2. CASE u = t \/ v = t
      BY <1>1, <1>6, <2>1, <3>2
    <3> QED
      BY <3>1, <3>2
  <2>2. ASSUME NEW u \in Turns, NEW o \in Ops, Active(turn[u])', OpRunning(o)'
        PROVE  turn'[u].session # op'[o].session
    <3>1. CASE u = t
      BY <1>5, <1>8, <2>2, <3>1
    <3>2. CASE u # t
      BY <1>5, <1>6, <2>2, <3>2 DEF Tidy, Alone
    <3> QED
      BY <3>1, <3>2
  <2>3. ASSUME NEW o \in Ops, NEW p \in Ops, OpRunning(o)', OpRunning(p)',
               op'[o].session = op'[p].session
        PROVE  o = p
    BY <1>5, <2>3 DEF Tidy, Alone
  <2> QED
    BY <2>1, <2>2, <2>3 DEF Alone
<1>10. Present'
  <2>1. ASSUME NEW u \in Turns, Active(turn[u])', turn'[u].session # Null
        PROVE  turn'[u].session \in DOMAIN sess'
    <3>1. CASE u = t
      BY <1>7, <2>1, <3>1
    <3>2. CASE u # t
      BY <1>6, <2>1, <3>2 DEF Tidy, Present
    <3> QED
      BY <3>1, <3>2
  <2>2. ASSUME NEW o \in Ops, OpRunning(o)'
        PROVE  op'[o].session \in DOMAIN sess'
    BY <1>5, <2>2 DEF Tidy, Present
  <2> QED
    BY <2>1, <2>2 DEF Present
<1>11. ASSUME NEW u \in Turns
       PROVE  (OnCourse(turn[u]) /\ HistoryIsTail(u))'
  <2>1. CASE u = t
    BY <2>1 DEF OnCourse
  <2>2. CASE u # t
    <3>1. OnCourse(turn[u])'
      BY <2>2 DEF Tidy, OnCourse
    <3> PICK s : s = turn[u].session
      OBVIOUS
    <3>2. CASE s = Null \/ ~Active(turn[u])
      <4>1. turn'[u] = turn[u]
        BY <2>2
      <4>2. s # Null => turn[u].loading # "fill"
              /\ turn[u].pc \notin {"answer", "persist", "persistSession", "persistMessages", "cache"}
        BY <3>2 DEF Active
      <4> QED
        BY <3>1, <4>1, <4>2 DEF HistoryIsTail
    <3>3. CASE s # Null /\ Active(turn[u])
      <4>1. s \in Sessions /\ s # x
        BY <1>2, <1>4, <2>2, <3>3
      <4>2. db'[s] = db[s] /\ turn'[u] = turn[u]
        BY <2>2, <4>1
      <4>3. HistoryIsTail(u)
        BY DEF Tidy
      <4>4. QuestionOf(u)' = QuestionOf(u) /\ AnswerOf(u)' = AnswerOf(u)
        BY <4>2 DEF QuestionOf, AnswerOf
      <4>5. LastOf(db[turn[u].session], MaxWindow)' = LastOf(db[s], MaxWindow)
        BY <4>2 DEF LastOf
      <4>6. turn[u].loading = "fill"
               \/ turn[u].pc \in {"answer", "persist", "persistSession", "persistMessages"} =>
               turn[u].history = LastOf(db[s], MaxWindow)
        BY <3>3, <4>3 DEF HistoryIsTail
      <4>7. turn[u].pc = "cache" =>
               \E old \in Seq(Messages) : /\ db[s] = old \o <<QuestionOf(u), AnswerOf(u)>>
                                          /\ turn[u].history = LastOf(old, MaxWindow)
        BY <3>3, <4>3 DEF HistoryIsTail
      <4>8. \A old : LastOf(old, MaxWindow)' = LastOf(old, MaxWindow)
        BY DEF LastOf
      <4>9. db'[turn'[u].session] = db[s]
        BY <4>2
      <4> QED
        BY <3>1, <4>2, <4>4, <4>5, <4>6, <4>7, <4>8, <4>9 DEF HistoryIsTail
    <3> QED
      BY <3>1, <3>2, <3>3
  <2> QED
    BY <2>1, <2>2
<1>12. ASSUME NEW s \in DOMAIN sess', window'[s] # Null, ~Unsettled(s)'
       PROVE  window'[s] = LastOf(db'[s], MaxWindow)
  <2>1. CASE s = x
    <3>1. turn'[t].pc # "cache"
      BY <1>12, <2>1 DEF Unsettled
    <3> QED
      BY <1>12, <2>1, <3>1
  <2>2. CASE s # x
    <3>1. s \in DOMAIN sess /\ s \in Sessions /\ s # Null
      BY <2>2, ChatAssumption DEF Typed, SessTyped
    <3>2. ~Unsettled(s)
      <4>1. \A u \in Turns : ~(turn[u].pc = "cache" /\ turn[u].session = s)
        BY <1>12, <2>2, <3>1 DEF Unsettled
      <4> QED
        BY <1>12, <4>1 DEF Unsettled
    <3> QED
      BY <1>12, <2>2, <3>1, <3>2 DEF Tidy, Tails
  <2> QED
    BY <2>1, <2>2
<1>13. Tails'
  <2>1. \A s : LastOf(db'[s], MaxWindow) = LastOf(db[s], MaxWindow)'
    BY DEF LastOf
  <2> QED
    BY <1>12, <2>1 DEF Tails
<1> QED
  BY <1>9, <1>10, <1>11, <1>13 DEF Tidy

\* A short sequence is its own end.
LEMMA LastOfShort ==
    ASSUME NEW T, NEW a \in Seq(T), NEW n \in Nat, Len(a) <= n
    PROVE  LastOf(a, n) = a
<1> DEFINE la == LastOf(a, n)
<1>1. /\ la \in Seq(T) /\ Len(la) = IF Len(a) > n THEN n ELSE Len(a)
      /\ \A i \in 1..Len(la) : la[i] = IF Len(a) > n THEN a[i + Len(a) - n] ELSE a[i]
  BY LastOfIs
<1> HIDE DEF la
<1>2. ~(Len(a) > n)
  OBVIOUS
<1>3. la = a
  BY <1>1, <1>2
<1> QED
  BY <1>3 DEF la

\* While a turn works and is not at its window, nothing is between messages and window.
LEMMA SettledFor ==
    ASSUME Typed, Tidy, NEW t \in Turns, Active(turn[t]), turn[t].pc # "cache",
           turn[t].session # Null
    PROVE  ~Unsettled(turn[t].session)
<1> SUFFICES ASSUME Unsettled(turn[t].session) PROVE FALSE
  OBVIOUS
<1>1. CASE \E u \in Turns : turn[u].pc = "cache" /\ turn[u].session = turn[t].session
  <2> PICK u \in Turns : turn[u].pc = "cache" /\ turn[u].session = turn[t].session
    BY <1>1
  <2>1. Active(turn[u]) /\ u # t
    BY DEF Active
  <2> QED
    BY <2>1 DEF Tidy, Alone
<1>2. CASE \E o \in Ops : op[o].pc = "session" /\ op[o].session = turn[t].session
  <2> PICK o \in Ops : op[o].pc = "session" /\ op[o].session = turn[t].session
    BY <1>2
  <2>1. OpRunning(o)
    BY DEF OpRunning
  <2> QED
    BY <2>1 DEF Tidy, Alone
<1> QED
  BY <1>1, <1>2 DEF Unsettled

\* A turn that goes on without touching messages or windows.
LEMMA TurnGoesOn ==
    ASSUME Typed, Typed', Tidy, NEW t \in Turns, NEW x, NEW r, x = r.session,
           turn' = [turn EXCEPT ![t] = r], UNCHANGED <<op, db, window>>,
           turn[t].session = x \/ turn[t].session = Null,
           x # Null => \/ turn[t].session = x /\ Active(turn[t])
                       \/ /\ ~Busy(x) /\ (Active(r) => x \in DOMAIN sess')
                          /\ (x \in DOMAIN sess \/ window[x] = Null),
           DOMAIN sess \subseteq DOMAIN sess', DOMAIN sess' \subseteq DOMAIN sess \cup {x},
           OnCourse(r), turn[t].pc # "cache", r.pc # "cache",
           x = Null
             \/ ~(r.loading = "fill"
                     \/ r.pc \in {"answer", "persist", "persistSession", "persistMessages"})
             \/ r.history = LastOf(db[x], MaxWindow)
    PROVE  Tidy'
<1>1. turn'[t] = r /\ \A u \in Turns : u # t => turn'[u] = turn[u]
  BY DEF Typed, TurnsTyped
<1>2. x # Null /\ Active(turn'[t]) => x \in DOMAIN sess'
  BY <1>1 DEF Tidy, Present
<1>3. HistoryIsTail(t)'
  <2>0. db'[turn'[t].session] = db[x]
    BY <1>1
  <2>1. LastOf(db[turn[t].session], MaxWindow)' = LastOf(db[x], MaxWindow)
    BY <2>0 DEF LastOf
  <2>2. turn'[t].session = x /\ turn'[t].pc # "cache"
    BY <1>1
  <2> QED
    BY <1>1, <2>1, <2>2 DEF HistoryIsTail
<1>4. ASSUME x \in DOMAIN sess', window'[x] # Null
      PROVE  window'[x] = LastOf(db'[x], MaxWindow)
  <2>1. x \in Sessions /\ x # Null
    BY <1>4, ChatAssumption DEF Typed, SessTyped
  <2>2. ~Unsettled(x)
    <3>1. CASE turn[t].session = x /\ Active(turn[t])
      BY <2>1, <3>1, SettledFor
    <3>2. CASE ~Busy(x)
      BY <3>2 DEF Busy, Unsettled, Running, OpRunning
    <3> QED
      BY <2>1, <3>1, <3>2
  <2>3. x \in DOMAIN sess
    BY <1>4, <2>1 DEF Tidy, Present
  <2> QED
    BY <1>4, <2>2, <2>3 DEF Tidy, Tails
<1> QED
  BY <1>1, <1>2, <1>3, <1>4, TurnTidies

\* A question is asked.
LEMMA AskTidies ==
    ASSUME Typed, Typed', Tidy, calm, NEW t \in Turns, NEW kind \in {"chat", "stream", "speech"},
           NEW s \in Sessions \cup {Null}, Ask(t, kind, s)
    PROVE  Tidy'
<1> DEFINE r1 == [turn[t] EXCEPT !.kind = kind]
           r2 == [r1 EXCEPT !.session = s]
<1>1. turn[t] \in TurnType /\ TurnSound(turn[t]) /\ turn[t].pc = "new" /\ OnCourse(turn[t])
  BY DEF Typed, TurnsTyped, Ask, Tidy
<1>2. turn[t].session = Null /\ ~turn[t].cancelled /\ turn[t].loading = "no"
  BY <1>1 DEF TurnSound, OnCourse
<1>3. r1 \in TurnType /\ r1.pc = "new" /\ ~r1.cancelled /\ r1.loading = "no"
  BY <1>1, <1>2 DEF TurnType
<1> HIDE DEF r1
<1>4. r2 \in TurnType /\ r2.pc = "new" /\ ~r2.cancelled /\ r2.loading = "no" /\ r2.session = s
  BY <1>3 DEF TurnType
<1> DEFINE pc == IF kind = "chat" THEN "answer" ELSE "create"
           l == IF kind = "chat" THEN "loaded" ELSE "no"
           r3 == [r2 EXCEPT !.pc = pc]
           r4 == [r3 EXCEPT !.loading = l]
           r5 == [r2 EXCEPT !.pc = "touch"]
           r == IF s = Null THEN r4 ELSE IF kind = "speech" THEN r5 ELSE ToHistory(r2)
<1>5. turn' = [turn EXCEPT ![t] = r]
  BY DEF Ask, r1
<1> HIDE DEF r2
<1>6. pc \in TurnPC /\ l \in {"no", "loaded"} /\ pc \in {"answer", "create"}
      /\ (pc = "create" => l = "no")
  BY DEF TurnPC
<1> HIDE DEF pc, l
<1>7. r3 \in TurnType /\ r3.pc = pc /\ ~r3.cancelled /\ r3.session = s
  BY <1>4, <1>6 DEF TurnType
<1> HIDE DEF r3
<1>8. r4.pc = pc /\ ~r4.cancelled /\ r4.session = s /\ r4.loading = l
  BY <1>6, <1>7 DEF TurnType
<1> HIDE DEF r4
<1>9. r5.pc = "touch" /\ ~r5.cancelled /\ r5.session = s /\ r5.loading = "no"
  BY <1>4 DEF TurnType, TurnPC
<1> HIDE DEF r5
<1>10. /\ OnCourse(r) /\ r.session = s /\ r.pc # "cache"
       /\ s # Null => r.pc \in {"touch", "history"} /\ r.loading # "fill"
  <2>1. CASE s = Null
    BY <1>6, <1>8, <2>1 DEF OnCourse
  <2>2. CASE s # Null /\ kind = "speech"
    BY <1>9, <2>2 DEF OnCourse
  <2>3. CASE s # Null /\ kind # "speech"
    <3>1. r = ToHistory(r2)
      BY <2>3
    <3>2. ToHistory(r2).pc = "history" /\ ToHistory(r2).loading = "try"
          /\ ToHistory(r2).session = s
      BY <1>4, <2>3, ToHistoryIs
    <3> HIDE DEF r
    <3> QED
      BY <3>1, <3>2 DEF OnCourse
  <2> QED
    BY <2>1, <2>2, <2>3
<1> HIDE DEF r
<1>11. s # Null => s \in DOMAIN sess /\ ~Busy(s)
  BY DEF Ask, Exists
<1>12. UNCHANGED <<sess, db, window, op>>
  BY DEF Ask
<1> QED
  BY <1>1, <1>2, <1>5, <1>10, <1>11, <1>12, TurnGoesOn

\* The session of a new conversation is made.
LEMMA CreateTidies ==
    ASSUME Typed, Typed', Tidy, calm, NEW t \in Turns, Create(t)
    PROVE  Tidy'
<1> PICK s \in Unused : /\ Save(s, "question")
                        /\ turn' = [turn EXCEPT ![t] =
                                      IF @.cancelled /\ @.kind = "stream" THEN Over(@)
                                      ELSE ToHistory([@ EXCEPT !.session = s])]
  BY DEF Create
<1> DEFINE r1 == [turn[t] EXCEPT !.session = s]
           r == ToHistory(r1)
<1>1. turn[t] \in TurnType /\ TurnSound(turn[t]) /\ turn[t].pc = "create" /\ OnCourse(turn[t])
      /\ s \in Sessions /\ s # Null /\ window[s] = Null /\ ~Busy(s)
  BY ChatAssumption DEF Typed, TurnsTyped, Create, Unused, Tidy, Busy
<1> HIDE DEF Unused
<1>2. turn[t].session = Null /\ ~turn[t].cancelled /\ turn[t].loading = "no"
  BY <1>1 DEF TurnSound, OnCourse
<1>3. turn' = [turn EXCEPT ![t] = r]
  BY <1>2
<1>4. r1 \in TurnType /\ r1.session = s /\ ~r1.cancelled /\ r1.loading = "no"
  BY <1>1, <1>2 DEF TurnType
<1> HIDE DEF r1
<1>5. r.session = s /\ r.pc = "history" /\ r.loading = "try"
  BY <1>1, <1>4, ToHistoryIs
<1> HIDE DEF r
<1>6. DOMAIN sess' = DOMAIN sess \cup {s} /\ UNCHANGED <<op, db, window>>
  BY <1>1, SaveIs DEF Titles, Typed, Create
<1>7. OnCourse(r)
  BY <1>5 DEF OnCourse
<1> QED
  BY <1>1, <1>2, <1>3, <1>5, <1>6, <1>7, TurnGoesOn

\* A turn that works on a session it knows, and works with what it did.
LEMMA SameSession ==
    ASSUME Typed, Typed', Tidy, NEW t \in Turns, NEW r,
           turn' = [turn EXCEPT ![t] = r], UNCHANGED <<op, db, window>>,
           r.session = turn[t].session, Active(turn[t]),
           DOMAIN sess \subseteq DOMAIN sess', DOMAIN sess' \subseteq DOMAIN sess \cup {r.session},
           OnCourse(r), turn[t].pc # "cache", r.pc # "cache", r.loading # "fill",
           \/ r.pc \notin {"answer", "persist", "persistSession", "persistMessages"}
           \/ r.history = turn[t].history
              /\ turn[t].pc \in {"answer", "persist", "persistSession", "persistMessages"}
           \/ r.history = LastOf(db[r.session], MaxWindow)
    PROVE  Tidy'
<1> PICK x : x = r.session
  OBVIOUS
<1>1. HistoryIsTail(t)
  BY DEF Tidy
<1>2. x = Null
        \/ ~(r.loading = "fill"
                \/ r.pc \in {"answer", "persist", "persistSession", "persistMessages"})
        \/ r.history = LastOf(db[x], MaxWindow)
  BY <1>1 DEF HistoryIsTail
<1> QED
  BY <1>2, TurnGoesOn

\* touchTitle reads the session.
LEMMA TouchTidies ==
    ASSUME Typed, Typed', Tidy, calm, NEW t \in Turns, Touch(t)
    PROVE  Tidy'
<1> DEFINE s == turn[t].session
           title == Retitled(sess[s])
           r1 == [turn[t] EXCEPT !.pc = "touchSave"]
           r == [r1 EXCEPT !.title = title]
<1>1. turn[t] \in TurnType /\ TurnSound(turn[t]) /\ turn[t].pc = "touch" /\ OnCourse(turn[t])
      /\ turn \in [Turns -> TurnType] /\ Active(turn[t])
  BY DEF Typed, TurnsTyped, Touch, Tidy, Active
<1>2. s # Null /\ Exists(s) /\ ~turn[t].cancelled /\ turn[t].loading = "no"
  BY <1>1 DEF TurnSound, OnCourse, Tidy, Present, Exists
<1>3. turn' = [turn EXCEPT ![t] = r] /\ UNCHANGED <<sess, op, db, window>>
  BY <1>1, <1>2 DEF Touch
<1> HIDE DEF title, s
<1>4. r1.pc = "touchSave" /\ r1.session = s /\ ~r1.cancelled /\ r1.loading = "no" /\ r1 \in TurnType
  BY <1>1, <1>2 DEF TurnType, TurnPC, s
<1> HIDE DEF r1
<1>5. r.pc = "touchSave" /\ r.session = s /\ ~r.cancelled /\ r.loading = "no"
  BY <1>4 DEF TurnType
<1> HIDE DEF r
<1>6. OnCourse(r)
  BY <1>5 DEF OnCourse
<1> QED
  BY <1>1, <1>3, <1>5, <1>6, SameSession DEF s

\* touchTitle saves the session.
LEMMA TouchSaveTidies ==
    ASSUME Typed, Typed', Tidy, calm, NEW t \in Turns, TouchSave(t)
    PROVE  Tidy'
<1> DEFINE s == turn[t].session
           r == ToHistory(turn[t])
<1>1. turn[t] \in TurnType /\ TurnSound(turn[t]) /\ turn[t].pc = "touchSave" /\ OnCourse(turn[t])
      /\ s \in Sessions /\ s # Null /\ turn[t].title \in Titles /\ Active(turn[t])
  BY ChatAssumption DEF Typed, TurnsTyped, TouchSave, TurnSound, TurnType, Tidy, Active
<1>2. turn' = [turn EXCEPT ![t] = r] /\ UNCHANGED <<op, db, window>>
  BY DEF TouchSave
<1>3. DOMAIN sess' = DOMAIN sess \cup {s}
  BY <1>1, SaveIs DEF TouchSave, Typed
<1>4. r.session = s /\ r.pc = "history" /\ r.loading = "try"
  BY <1>1, ToHistoryIs DEF TurnSound, OnCourse
<1> HIDE DEF r
<1>5. OnCourse(r)
  BY <1>4 DEF OnCourse
<1> QED
  BY <1>1, <1>2, <1>3, <1>4, <1>5, SameSession

\* A window is looked up: it is the end of the conversation.
LEMMA TryLoadTidies ==
    ASSUME Typed, Typed', Tidy, calm, NEW t \in Turns, TryLoad(t)
    PROVE  Tidy'
<1> DEFINE s == turn[t].session
           cached == window[s]
<1>1. turn[t] \in TurnType /\ TurnSound(turn[t]) /\ turn[t].loading = "try" /\ s \in Sessions
      /\ s # Null /\ turn \in [Turns -> TurnType] /\ OnCourse(turn[t])
  BY ChatAssumption DEF Typed, TurnsTyped, TryLoad, TurnSound, TurnType, Tidy
<1>2. turn[t].pc = "history" /\ Active(turn[t]) /\ s \in DOMAIN sess
  BY <1>1 DEF OnCourse, Active, Tidy, Present
<1>3. UNCHANGED <<sess, db, window, op>>
  BY DEF TryLoad
<1>4. CASE cached # Null /\ turn' = [turn EXCEPT ![t] = Loaded(@, cached)]
  <2> DEFINE r == Loaded(turn[t], cached)
  <2>1. turn' = [turn EXCEPT ![t] = r]
    BY <1>4
  <2>2. cached \in Seq(Messages)
    BY <1>1, <1>4 DEF Typed, WindowTyped
  <2>3. cached = LastOf(db[s], MaxWindow)
    BY <1>1, <1>2, <1>4, SettledFor DEF Tidy, Tails
  <2> HIDE DEF cached
  <2>4. r.session = s /\ r.pc = "answer" /\ r.history = cached /\ r.loading = "loaded"
    BY <1>1, <1>2, <2>2, LoadedIs
  <2> HIDE DEF r
  <2>5. OnCourse(r)
    BY <2>4 DEF OnCourse
  <2> QED
    BY <1>1, <1>2, <1>3, <2>1, <2>3, <2>4, <2>5, SameSession
<1>5. CASE turn' = [turn EXCEPT ![t].loading = "rows"]
  <2> DEFINE r == [turn[t] EXCEPT !.loading = "rows"]
  <2>1. turn' = [turn EXCEPT ![t] = r]
    BY <1>1, <1>5
  <2>2. r.session = s /\ r.pc = "history" /\ r.loading = "rows"
    BY <1>1, <1>2 DEF TurnType
  <2> HIDE DEF r
  <2>3. OnCourse(r)
    BY <2>2 DEF OnCourse
  <2> QED
    BY <1>1, <1>2, <1>3, <2>1, <2>2, <2>3, SameSession
<1> QED
  BY <1>4, <1>5 DEF TryLoad

\* The rows are read.
LEMMA LoadRowsTidies ==
    ASSUME Typed, Typed', Tidy, calm, NEW t \in Turns, LoadRows(t)
    PROVE  Tidy'
<1> DEFINE s == turn[t].session
           rows == LastOf(db[s], MaxWindow)
           f1 == [turn[t] EXCEPT !.loading = "fill"]
           f2 == [f1 EXCEPT !.history = rows]
           r == IF rows = <<>> THEN Loaded(turn[t], rows) ELSE f2
<1>1. turn[t] \in TurnType /\ TurnSound(turn[t]) /\ turn[t].loading = "rows" /\ s \in Sessions
      /\ s # Null /\ OnCourse(turn[t])
  BY ChatAssumption DEF Typed, TurnsTyped, LoadRows, TurnSound, TurnType, Tidy
<1>2. turn[t].pc = "history" /\ Active(turn[t]) /\ Exists(s)
  BY <1>1 DEF OnCourse, Active, Tidy, Present, Exists
<1>3. UNCHANGED <<sess, db, window, op>> /\ turn' = [turn EXCEPT ![t] = r]
  BY <1>2 DEF LoadRows
<1>4. rows \in Seq(Messages)
  <2>1. db[s] \in Seq(Messages) /\ MaxWindow \in Nat
    BY <1>1, ChatAssumption DEF Typed, StoresTyped
  <2> QED
    BY <2>1, LastOfIs
<1> PICK h : h = rows
  OBVIOUS
<1>5. /\ OnCourse(r) /\ r.session = s /\ r.pc # "cache" /\ r.history = h
  <2>1. CASE h = <<>>
    <3>1. r = Loaded(turn[t], h)
      BY <2>1
    <3>2. h \in Seq(Messages)
      BY <1>4
    <3> HIDE DEF r, rows
    <3>3. r.session = s /\ r.pc = "answer" /\ r.history = h /\ r.loading = "loaded"
      BY <1>1, <1>2, <3>1, <3>2, LoadedIs
    <3> QED
      BY <3>3 DEF OnCourse
  <2>2. CASE h # <<>>
    <3>1. r = f2
      BY <2>2
    <3> HIDE DEF r, rows
    <3>2. f1 \in TurnType /\ f1.pc = "history" /\ f1.session = s /\ f1.loading = "fill"
      BY <1>1, <1>2 DEF TurnType
    <3> HIDE DEF f1
    <3>3. f2.pc = "history" /\ f2.session = s /\ f2.loading = "fill" /\ f2.history = rows
      BY <1>4, <3>2 DEF TurnType
    <3> HIDE DEF f2
    <3> QED
      BY <3>1, <3>3 DEF OnCourse
  <2> QED
    BY <2>1, <2>2
<1> PICK x : x = s
  OBVIOUS
<1>6. h = LastOf(db[x], MaxWindow)
  OBVIOUS
<1> HIDE DEF r, rows
<1> QED
  BY <1>1, <1>2, <1>3, <1>5, <1>6, TurnGoesOn

\* The window is filled with the rows: no failure is at hand while requests are
\* kept apart.
LEMMA FillTidies ==
    ASSUME Typed, Typed', Tidy, calm, NEW t \in Turns, Fill(t)
    PROVE  Tidy'
<1> PICK s : s = turn[t].session
  OBVIOUS
<1> PICK h : h = turn[t].history
  OBVIOUS
<1> DEFINE r == Loaded(turn[t], h)
<1>1. turn[t] \in TurnType /\ TurnSound(turn[t]) /\ turn[t].loading = "fill" /\ s \in Sessions
      /\ s # Null /\ OnCourse(turn[t]) /\ h \in Seq(Messages) /\ HistoryIsTail(t)
  BY ChatAssumption DEF Typed, TurnsTyped, Fill, TurnSound, TurnType, Tidy
<1>2. turn[t].pc = "history" /\ Active(turn[t]) /\ s \in DOMAIN sess
  BY <1>1 DEF OnCourse, Active, Tidy, Present
<1>3. h = LastOf(db[s], MaxWindow)
  BY <1>1 DEF HistoryIsTail
<1>4. turn' = [turn EXCEPT ![t] = r] /\ UNCHANGED <<sess, db, op>>
  BY <1>1 DEF Fill
<1>5. r.session = s /\ r.pc = "answer" /\ r.history = h /\ r.loading = "loaded"
  BY <1>1, <1>2, LoadedIs
<1> HIDE DEF r
<1>6. OnCourse(r)
  BY <1>5 DEF OnCourse
<1>7. turn'[t] = r /\ \A u \in Turns : u # t => turn'[u] = turn[u]
  BY <1>4 DEF Typed, TurnsTyped
<1>8. Len(h) <= MaxWindow /\ MaxWindow \in Nat
  <2>1. db[s] \in Seq(Messages) /\ MaxWindow \in Nat
    BY <1>1, ChatAssumption DEF Typed, StoresTyped
  <2>2. Len(h) = IF Len(db[s]) > MaxWindow THEN MaxWindow ELSE Len(db[s])
    BY <1>3, <2>1, LastOfIs
  <2> QED
    BY <2>1, <2>2
<1>9. window' = [window EXCEPT ![s] = h]
  <2>1. LastOf(h, MaxWindow) = h
    BY <1>1, <1>8, LastOfShort
  <2>2. Store(s, h)
    BY DEF Fill, SaveWindow, Fault
  <2> QED
    BY <2>1, <2>2 DEF Store
<1>10. window'[s] = h /\ \A y \in Sessions : y # s => window'[y] = window[y]
  BY <1>1, <1>9 DEF Typed, WindowTyped
<1>11. HistoryIsTail(t)'
  <2>1. db'[turn'[t].session] = db[s]
    BY <1>4, <1>5, <1>7
  <2>2. LastOf(db[turn[t].session], MaxWindow)' = h
    BY <1>3, <2>1 DEF LastOf
  <2> QED
    BY <1>5, <1>7, <2>2 DEF HistoryIsTail
<1> QED
  BY <1>1, <1>2, <1>3, <1>4, <1>5, <1>6, <1>7, <1>10, <1>11, TurnTidies

\* The answer is there, or has failed.
LEMMA AnswerTidies ==
    ASSUME Typed, Typed', Tidy, calm, NEW t \in Turns, Answer(t)
    PROVE  Tidy'
<1> DEFINE r1 == [turn[t] EXCEPT !.pc = "persist"]
           r2 == [r1 EXCEPT !.answer = "failed"]
           r3 == Over(turn[t])
<1>1. turn[t] \in TurnType /\ TurnSound(turn[t]) /\ turn[t].pc = "answer" /\ OnCourse(turn[t])
      /\ turn \in [Turns -> TurnType] /\ Active(turn[t])
  BY DEF Typed, TurnsTyped, Answer, Tidy, Active
<1>2. turn[t].loading \in {"no", "loaded"}
  BY <1>1 DEF OnCourse, TurnType
<1>3. UNCHANGED <<sess, db, window, op>>
  BY DEF Answer
<1>4. turn' = [turn EXCEPT ![t] = r1] \/ turn' = [turn EXCEPT ![t] = r2]
      \/ turn' = [turn EXCEPT ![t] = r3]
  BY <1>1 DEF Answer, Move, Finish
<1>5. /\ r1 \in TurnType /\ r1.pc = "persist" /\ r1.session = turn[t].session
      /\ r1.history = turn[t].history /\ r1.loading = turn[t].loading
  BY <1>1 DEF TurnType, TurnPC
<1> HIDE DEF r1
<1>6. /\ r2.pc = "persist" /\ r2.session = turn[t].session
      /\ r2.history = turn[t].history /\ r2.loading = turn[t].loading
  BY <1>5 DEF TurnType, Answers
<1> HIDE DEF r2
<1>7. r3.pc = "done" /\ r3.session = turn[t].session /\ r3.loading = "no"
  BY <1>1, <1>2, OverIs
<1> HIDE DEF r3
<1>8. OnCourse(r1) /\ OnCourse(r2) /\ OnCourse(r3)
  BY <1>2, <1>5, <1>6, <1>7 DEF OnCourse
<1>9. CASE turn' = [turn EXCEPT ![t] = r1]
  BY <1>1, <1>2, <1>3, <1>5, <1>8, <1>9, SameSession
<1>10. CASE turn' = [turn EXCEPT ![t] = r2]
  BY <1>1, <1>2, <1>3, <1>6, <1>8, <1>10, SameSession
<1>11. CASE turn' = [turn EXCEPT ![t] = r3]
  BY <1>1, <1>3, <1>7, <1>8, <1>11, SameSession
<1> QED
  BY <1>4, <1>9, <1>10, <1>11

\* The client stops the stream, not before it is being answered.
LEMMA StopTidies ==
    ASSUME Typed, Typed', Tidy, calm, ~EarlyStops, NEW t \in Turns, Stop(t)
    PROVE  Tidy'
<1> DEFINE r1 == [turn[t] EXCEPT !.cancelled = TRUE]
           r2 == [r1 EXCEPT !.answer = "interrupted"]
           r3 == [r2 EXCEPT !.pc = "persist"]
           r == IF r2.pc \in {"history", "answer"} THEN r3 ELSE r2
<1>1. turn[t] \in TurnType /\ turn[t].pc = "answer" /\ OnCourse(turn[t]) /\ Active(turn[t])
  BY DEF Typed, TurnsTyped, Stop, Tidy, Active
<1>2. turn[t].loading \in {"no", "loaded"}
  BY <1>1 DEF OnCourse, TurnType
<1>3. UNCHANGED <<sess, db, window, op>> /\ turn' = [turn EXCEPT ![t] = r]
  BY DEF Stop
<1>4. /\ r1 \in TurnType /\ r1.pc = "answer" /\ r1.session = turn[t].session
      /\ r1.history = turn[t].history /\ r1.loading = turn[t].loading
  BY <1>1 DEF TurnType
<1> HIDE DEF r1
<1>5. /\ r2 \in TurnType /\ r2.pc = "answer" /\ r2.session = turn[t].session
      /\ r2.history = turn[t].history /\ r2.loading = turn[t].loading
  BY <1>4 DEF TurnType, Answers
<1> HIDE DEF r2
<1>6. /\ r3.pc = "persist" /\ r3.session = turn[t].session
      /\ r3.history = turn[t].history /\ r3.loading = turn[t].loading
  BY <1>5 DEF TurnType, TurnPC
<1> HIDE DEF r3
<1>7. r = r3
  BY <1>5
<1> HIDE DEF r
<1>8. OnCourse(r)
  BY <1>2, <1>6, <1>7 DEF OnCourse
<1> QED
  BY <1>1, <1>2, <1>3, <1>6, <1>7, <1>8, SameSession

\* appendTurn finds the session, which is there, or makes it.
LEMMA PersistTidies ==
    ASSUME Typed, Typed', Tidy, calm, NEW t \in Turns, Persist(t)
    PROVE  Tidy'
<1> DEFINE s == turn[t].session
<1>1. turn[t] \in TurnType /\ TurnSound(turn[t]) /\ turn[t].pc = "persist" /\ OnCourse(turn[t])
      /\ turn \in [Turns -> TurnType] /\ Active(turn[t])
  BY DEF Typed, TurnsTyped, Persist, Tidy, Active
<1>2. UNCHANGED <<db, window, op>> /\ turn[t].loading \in {"no", "loaded"}
  BY <1>1 DEF Persist, OnCourse, TurnType
<1>3. CASE s = Null
  <2> PICK new \in Unused : /\ Save(new, "question")
                            /\ turn' = [turn EXCEPT ![t].pc = "persistSession", ![t].session = new,
                                                    ![t].title = "question"]
    BY <1>3 DEF Persist
  <2> DEFINE r1 == [turn[t] EXCEPT !.pc = "persistSession"]
             r2 == [r1 EXCEPT !.session = new]
             r == [r2 EXCEPT !.title = "question"]
  <2>1. new \in Sessions /\ new # Null /\ window[new] = Null /\ db[new] = <<>> /\ ~Busy(new)
    BY ChatAssumption DEF Unused, Busy
  <2>2. turn[t].history = <<>>
    BY <1>1, <1>3 DEF TurnSound
  <2>3. turn' = [turn EXCEPT ![t] = r]
    BY <1>1
  <2>4. /\ r1 \in TurnType /\ r1.pc = "persistSession" /\ r1.history = <<>>
        /\ r1.loading = turn[t].loading
    BY <1>1, <2>2 DEF TurnType, TurnPC
  <2> HIDE DEF r1
  <2>5. /\ r2 \in TurnType /\ r2.pc = "persistSession" /\ r2.history = <<>>
        /\ r2.loading = turn[t].loading /\ r2.session = new
    BY <2>1, <2>4 DEF TurnType
  <2> HIDE DEF r2
  <2>6. /\ r.pc = "persistSession" /\ r.history = <<>>
        /\ r.loading = turn[t].loading /\ r.session = new
    BY <2>5 DEF TurnType, Titles
  <2> HIDE DEF r
  <2>7. DOMAIN sess' = DOMAIN sess \cup {new}
    BY <2>1, SaveIs DEF Titles, Typed
  <2>8. OnCourse(r)
    BY <1>2, <2>6 DEF OnCourse
  <2>9. LastOf(<<>>, MaxWindow) = <<>>
    <3>1. <<>> \in Seq(Messages) /\ Len(<<>>) <= MaxWindow /\ MaxWindow \in Nat
      BY ChatAssumption
    <3> QED
      BY <3>1, LastOfShort
  <2>10. r.history = LastOf(db[new], MaxWindow)
    BY <2>1, <2>6, <2>9
  <2> QED
    BY <1>1, <1>2, <1>3, <2>1, <2>3, <2>6, <2>7, <2>8, <2>10, TurnGoesOn
<1>4. CASE s # Null
  <2> DEFINE title == Retitled(sess[s])
             r1 == [turn[t] EXCEPT !.pc = "persistSession"]
             r == [r1 EXCEPT !.title = title]
  <2>1. Exists(s)
    BY <1>1, <1>4 DEF Tidy, Present, Exists
  <2>2. turn' = [turn EXCEPT ![t] = r] /\ sess' = sess
    BY <1>1, <1>4, <2>1 DEF Persist
  <2> HIDE DEF title
  <2>3. /\ r1 \in TurnType /\ r1.pc = "persistSession" /\ r1.history = turn[t].history
        /\ r1.loading = turn[t].loading /\ r1.session = turn[t].session
    BY <1>1 DEF TurnType, TurnPC
  <2> HIDE DEF r1
  <2>4. /\ r.pc = "persistSession" /\ r.history = turn[t].history
        /\ r.loading = turn[t].loading /\ r.session = turn[t].session
    BY <2>3 DEF TurnType
  <2> HIDE DEF r
  <2>5. OnCourse(r)
    BY <1>2, <2>4 DEF OnCourse
  <2> QED
    BY <1>1, <1>2, <2>2, <2>4, <2>5, SameSession
<1> QED
  BY <1>3, <1>4

\* appendTurn saves the session.
LEMMA PersistSessionTidies ==
    ASSUME Typed, Typed', Tidy, calm, NEW t \in Turns, PersistSession(t)
    PROVE  Tidy'
<1> DEFINE s == turn[t].session
           r == [turn[t] EXCEPT !.pc = "persistMessages"]
<1>1. turn[t] \in TurnType /\ TurnSound(turn[t]) /\ turn[t].pc = "persistSession" /\ s \in Sessions
      /\ s # Null /\ turn[t].title \in Titles /\ OnCourse(turn[t]) /\ Active(turn[t])
      /\ turn \in [Turns -> TurnType]
  BY ChatAssumption DEF Typed, TurnsTyped, PersistSession, TurnSound, TurnType, Tidy, Active
<1>2. UNCHANGED <<db, window, op>> /\ turn[t].loading \in {"no", "loaded"}
  BY <1>1 DEF PersistSession, OnCourse, TurnType
<1>3. DOMAIN sess' = DOMAIN sess \cup {s}
  BY <1>1, SaveIs DEF PersistSession, Typed
<1>4. turn' = [turn EXCEPT ![t] = r]
  BY <1>1 DEF PersistSession, Move
<1>5. /\ r.pc = "persistMessages" /\ r.history = turn[t].history
      /\ r.loading = turn[t].loading /\ r.session = s
  BY <1>1 DEF TurnType
<1> HIDE DEF r
<1>6. OnCourse(r)
  BY <1>2, <1>5 DEF OnCourse
<1> QED
  BY <1>1, <1>2, <1>3, <1>4, <1>5, <1>6, SameSession

\* appendTurn inserts both messages behind what the turn had loaded.
LEMMA PersistMessagesTidies ==
    ASSUME Typed, Typed', Tidy, calm, NEW t \in Turns, PersistMessages(t)
    PROVE  Tidy'
<1> PICK s : s = turn[t].session
  OBVIOUS
<1> PICK old : old = db[s]
  OBVIOUS
<1> DEFINE r == [turn[t] EXCEPT !.pc = "cache"]
<1>1. turn[t] \in TurnType /\ TurnSound(turn[t]) /\ turn[t].pc = "persistMessages" /\ s \in Sessions
      /\ s # Null /\ OnCourse(turn[t]) /\ Active(turn[t]) /\ turn \in [Turns -> TurnType]
      /\ HistoryIsTail(t) /\ db \in [Sessions -> Seq(Messages)] /\ ~cascade
  BY ChatAssumption DEF Typed, TurnsTyped, PersistMessages, TurnSound, TurnType, Tidy, Active,
     StoresTyped, BoundsTyped
<1>2. UNCHANGED <<sess, window, op>> /\ turn[t].loading \in {"no", "loaded"}
  BY <1>1 DEF PersistMessages, OnCourse, TurnType
<1>3. turn[t].history = LastOf(old, MaxWindow) /\ old \in Seq(Messages)
  BY <1>1 DEF HistoryIsTail
<1>4. turn' = [turn EXCEPT ![t] = r]
      /\ db' = [db EXCEPT ![s] = @ \o <<QuestionOf(t), AnswerOf(t)>>]
  BY <1>1 DEF PersistMessages, Move
<1>5. /\ r.pc = "cache" /\ r.history = turn[t].history /\ r.answer = turn[t].answer
      /\ r.loading = turn[t].loading /\ r.session = s
  BY <1>1 DEF TurnType
<1> HIDE DEF r
<1>6. OnCourse(r)
  BY <1>2, <1>5 DEF OnCourse
<1>7. turn'[t] = r /\ \A u \in Turns : u # t => turn'[u] = turn[u]
  BY <1>4 DEF Typed, TurnsTyped
<1>8. db'[s] = old \o <<QuestionOf(t), AnswerOf(t)>> /\ \A y \in Sessions : y # s => db'[y] = db[y]
  BY <1>1, <1>4
<1>9. HistoryIsTail(t)'
  <2>1. QuestionOf(t)' = QuestionOf(t) /\ AnswerOf(t)' = AnswerOf(t)
    BY <1>5, <1>7 DEF QuestionOf, AnswerOf
  <2>2. turn'[t].session = s /\ turn'[t].pc = "cache" /\ turn'[t].loading # "fill"
        /\ turn'[t].history = turn[t].history
    BY <1>2, <1>5, <1>7
  <2>3. db'[turn'[t].session] = old \o <<QuestionOf(t)', AnswerOf(t)'>>
    BY <1>8, <2>1, <2>2
  <2>4. turn'[t].history = LastOf(old, MaxWindow)'
    BY <1>3, <2>2 DEF LastOf
  <2> QED
    BY <1>3, <2>2, <2>3, <2>4 DEF HistoryIsTail
<1>10. s \in DOMAIN sess
  BY <1>1 DEF Tidy, Present
<1> QED
  BY <1>1, <1>2, <1>5, <1>6, <1>7, <1>8, <1>9, <1>10, TurnTidies

\* The window becomes the end of the conversation again.
LEMMA CacheTidies ==
    ASSUME Typed, Typed', Tidy, calm, NEW t \in Turns, Cache(t)
    PROVE  Tidy'
<1> PICK s : s = turn[t].session
  OBVIOUS
<1> PICK pair : pair = <<QuestionOf(t), AnswerOf(t)>>
  OBVIOUS
<1> DEFINE r == Over(turn[t])
<1>1. turn[t] \in TurnType /\ TurnSound(turn[t]) /\ turn[t].pc = "cache" /\ s \in Sessions
      /\ s # Null /\ OnCourse(turn[t]) /\ Active(turn[t]) /\ turn \in [Turns -> TurnType]
      /\ HistoryIsTail(t) /\ MaxWindow \in Nat
  BY ChatAssumption DEF Typed, TurnsTyped, Cache, TurnSound, TurnType, Tidy, Active
<1>2. UNCHANGED <<sess, db, op>> /\ turn[t].loading \in {"no", "loaded"}
  BY <1>1 DEF Cache, OnCourse, TurnType
<1> PICK old \in Seq(Messages) : db[s] = old \o pair /\ turn[t].history = LastOf(old, MaxWindow)
  BY <1>1 DEF HistoryIsTail
<1>3. pair \in Seq(Messages)
  BY <1>1, PairIs DEF TurnType
<1>4. LastOf(turn[t].history \o pair, MaxWindow) = LastOf(db[s], MaxWindow)
  <2>1. LastOf(LastOf(old, MaxWindow) \o pair, MaxWindow) = LastOf(old \o pair, MaxWindow)
    BY <1>1, <1>3, LastOfLast
  <2> QED
    BY <2>1
<1>5. turn' = [turn EXCEPT ![t] = r]
  BY DEF Cache, Finish
<1>6. r.pc = "done" /\ r.session = s /\ r.loading = "no"
  BY <1>1, <1>2, OverIs
<1> HIDE DEF r
<1>7. OnCourse(r)
  BY <1>6 DEF OnCourse
<1>8. turn'[t] = r /\ \A u \in Turns : u # t => turn'[u] = turn[u]
  BY <1>5 DEF Typed, TurnsTyped
<1>9. window' = [window EXCEPT ![s] = LastOf(db[s], MaxWindow)]
  <2>1. Store(s, turn[t].history \o pair)
    BY DEF Cache, SaveWindow, Fault
  <2> QED
    BY <1>4, <2>1 DEF Store
<1>10. window'[s] = LastOf(db[s], MaxWindow) /\ \A y \in Sessions : y # s => window'[y] = window[y]
  BY <1>1, <1>9 DEF Typed, WindowTyped
<1>11. HistoryIsTail(t)'
  BY <1>6, <1>8 DEF HistoryIsTail
<1>12. s \in DOMAIN sess
  BY <1>1 DEF Tidy, Present
<1> QED
  BY <1>1, <1>2, <1>6, <1>7, <1>8, <1>10, <1>11, <1>12, TurnTidies

\* A step of one request on one session, which nobody else works on.
LEMMA OpTidies ==
    ASSUME Typed, Typed', Tidy, NEW o \in Ops, NEW x \in Sessions, NEW q, q.session = x,
           op' = [op EXCEPT ![o] = q], turn' = turn,
           \/ op[o].session = x /\ OpRunning(o)
           \/ ~Busy(x) /\ ~OpRunning(o),
           DOMAIN sess \ {x} \subseteq DOMAIN sess', DOMAIN sess' \subseteq DOMAIN sess,
           q.pc \notin {"new", "done"} => x \in DOMAIN sess',
           \A y \in Sessions : y # x => db'[y] = db[y] /\ window'[y] = window[y],
           x \in DOMAIN sess' /\ window'[x] # Null /\ q.pc # "session" =>
              window'[x] = LastOf(db'[x], MaxWindow)
    PROVE  Tidy'
<1>1. op'[o] = q /\ \A p \in Ops : p # o => op'[p] = op[p]
  BY DEF Typed, OpsTyped
<1>2. /\ \A u \in Turns : Active(turn[u]) => turn[u].session # x
      /\ \A p \in Ops : p # o /\ OpRunning(p) => op[p].session # x
  BY DEF Tidy, Alone, Busy, Active, Running
<1>3. \A u \in Turns : Active(turn[u])' <=> Active(turn[u])
  BY DEF Active
<1>4. \A p \in Ops : p # o => (OpRunning(p)' <=> OpRunning(p))
  BY <1>1 DEF OpRunning
<1>5. \A u \in Turns : turn[u].session \in Sessions \cup {Null}
  BY DEF Typed, TurnsTyped, TurnType
<1>6. Alone'
  <2>1. ASSUME NEW u \in Turns, NEW v \in Turns, Active(turn[u])', Active(turn[v])',
               turn'[u].session # Null, turn'[u].session = turn'[v].session
        PROVE  u = v
    BY <1>3, <2>1 DEF Tidy, Alone
  <2>2. ASSUME NEW u \in Turns, NEW p \in Ops, Active(turn[u])', OpRunning(p)'
        PROVE  turn'[u].session # op'[p].session
    <3>1. CASE p = o
      BY <1>1, <1>2, <1>3, <2>2, <3>1
    <3>2. CASE p # o
      BY <1>1, <1>3, <1>4, <2>2, <3>2 DEF Tidy, Alone
    <3> QED
      BY <3>1, <3>2
  <2>3. ASSUME NEW p \in Ops, NEW p2 \in Ops, OpRunning(p)', OpRunning(p2)',
               op'[p].session = op'[p2].session
        PROVE  p = p2
    <3>1. CASE p # o /\ p2 # o
      BY <1>1, <1>4, <2>3, <3>1 DEF Tidy, Alone
    <3>2. CASE p = o \/ p2 = o
      BY <1>1, <1>2, <1>4, <2>3, <3>2
    <3> QED
      BY <3>1, <3>2
  <2> QED
    BY <2>1, <2>2, <2>3 DEF Alone
<1>7. Present'
  <2>1. ASSUME NEW u \in Turns, Active(turn[u])', turn'[u].session # Null
        PROVE  turn'[u].session \in DOMAIN sess'
    BY <1>2, <1>3, <2>1 DEF Tidy, Present
  <2>2. ASSUME NEW p \in Ops, OpRunning(p)'
        PROVE  op'[p].session \in DOMAIN sess'
    <3>1. CASE p = o
      BY <1>1, <2>2, <3>1 DEF OpRunning
    <3>2. CASE p # o
      BY <1>1, <1>2, <1>4, <2>2, <3>2 DEF Tidy, Present
    <3> QED
      BY <3>1, <3>2
  <2> QED
    BY <2>1, <2>2 DEF Present
<1>8. ASSUME NEW u \in Turns
      PROVE  (OnCourse(turn[u]) /\ HistoryIsTail(u))'
  <2>1. OnCourse(turn[u])'
    BY DEF Tidy, OnCourse
  <2> PICK s : s = turn[u].session
    OBVIOUS
  <2>2. CASE s = Null \/ ~Active(turn[u])
    <3>1. s # Null => turn[u].loading # "fill"
            /\ turn[u].pc \notin {"answer", "persist", "persistSession", "persistMessages", "cache"}
      BY <2>2 DEF Active
    <3> QED
      BY <2>1, <3>1 DEF HistoryIsTail
  <2>3. CASE s # Null /\ Active(turn[u])
    <3>1. db'[s] = db[s]
      BY <1>2, <1>5, <2>3
    <3>2. HistoryIsTail(u)
      BY DEF Tidy
    <3>3. QuestionOf(u)' = QuestionOf(u) /\ AnswerOf(u)' = AnswerOf(u)
      BY DEF QuestionOf, AnswerOf
    <3>4. LastOf(db[turn[u].session], MaxWindow)' = LastOf(db[s], MaxWindow)
      BY <3>1 DEF LastOf
    <3>5. turn[u].loading = "fill"
             \/ turn[u].pc \in {"answer", "persist", "persistSession", "persistMessages"} =>
             turn[u].history = LastOf(db[s], MaxWindow)
      BY <2>3, <3>2 DEF HistoryIsTail
    <3>6. turn[u].pc = "cache" =>
             \E old \in Seq(Messages) : /\ db[s] = old \o <<QuestionOf(u), AnswerOf(u)>>
                                        /\ turn[u].history = LastOf(old, MaxWindow)
      BY <2>3, <3>2 DEF HistoryIsTail
    <3>7. \A old : LastOf(old, MaxWindow)' = LastOf(old, MaxWindow)
      BY DEF LastOf
    <3>8. db'[turn'[u].session] = db[s]
      BY <3>1
    <3> QED
      BY <2>1, <3>3, <3>4, <3>5, <3>6, <3>7, <3>8 DEF HistoryIsTail
  <2> QED
    BY <2>2, <2>3
<1>9. ASSUME NEW s \in DOMAIN sess', window'[s] # Null, ~Unsettled(s)'
      PROVE  window'[s] = LastOf(db'[s], MaxWindow)
  <2>1. CASE s = x
    <3>1. q.pc # "session"
      BY <1>1, <1>9, <2>1 DEF Unsettled
    <3> QED
      BY <1>9, <2>1, <3>1
  <2>2. CASE s # x
    <3>1. s \in DOMAIN sess /\ s \in Sessions
      BY <2>2 DEF Typed, SessTyped
    <3>2. ~Unsettled(s)
      <4>1. \A u \in Turns : ~(turn[u].pc = "cache" /\ turn[u].session = s)
        BY <1>9 DEF Unsettled
      <4>2. \A p \in Ops : ~(op[p].pc = "session" /\ op[p].session = s)
        <5> SUFFICES ASSUME NEW p \in Ops, op[p].pc = "session", op[p].session = s PROVE FALSE
          OBVIOUS
        <5>1. CASE p = o
          BY <2>2, <5>1 DEF OpRunning
        <5>2. CASE p # o
          BY <1>1, <1>9, <5>2 DEF Unsettled
        <5> QED
          BY <5>1, <5>2
      <4> QED
        BY <4>1, <4>2 DEF Unsettled
    <3> QED
      BY <1>9, <2>2, <3>1, <3>2 DEF Tidy, Tails
  <2> QED
    BY <2>1, <2>2
<1>10. Tails'
  <2>1. \A s : LastOf(db'[s], MaxWindow) = LastOf(db[s], MaxWindow)'
    BY DEF LastOf
  <2> QED
    BY <1>9, <2>1 DEF Tails
<1> QED
  BY <1>6, <1>7, <1>8, <1>10 DEF Tidy

\* A request begins.
LEMMA OpStartTidies ==
    ASSUME Typed, Typed', Tidy, calm, NEW o \in Ops, NEW kind \in {"rename", "remove"},
           NEW s \in Sessions, OpStart(o, kind, s)
    PROVE  Tidy'
<1> DEFINE pc == IF kind = "rename" THEN "rename" ELSE "messages"
           q == [kind |-> kind, session |-> s, pc |-> pc]
<1>1. op' = [op EXCEPT ![o] = q] /\ UNCHANGED <<sess, db, window, turn>>
  BY DEF OpStart
<1>2. q.session = s /\ q.pc # "session"
  OBVIOUS
<1> HIDE DEF q
<1>3. ~Busy(s) /\ s \in DOMAIN sess /\ ~OpRunning(o)
  BY DEF OpStart, Exists, OpRunning
<1>4. ~Unsettled(s)
  BY <1>3 DEF Busy, Unsettled, Running, OpRunning
<1>5. window'[s] # Null => window'[s] = LastOf(db'[s], MaxWindow)
  BY <1>1, <1>3, <1>4 DEF Tidy, Tails
<1> QED
  BY <1>1, <1>2, <1>3, <1>5, OpTidies

\* A request on its way works on its session alone.
LEMMA OpFacts ==
    ASSUME Typed, Tidy, NEW o \in Ops, OpRunning(o)
    PROVE  /\ op[o] \in OpType /\ op[o].session \in Sessions /\ op[o].session \in DOMAIN sess
           /\ op[o].pc # "session" => ~Unsettled(op[o].session)
<1>1. op[o] \in OpType /\ op[o].session \in Sessions /\ op[o].session \in DOMAIN sess
  BY DEF Typed, OpsTyped, OpType, OpSound, Tidy, Present, OpRunning, SessTyped
<1>2. ASSUME op[o].pc # "session", Unsettled(op[o].session)
      PROVE  FALSE
  <2>1. CASE \E u \in Turns : turn[u].pc = "cache" /\ turn[u].session = op[o].session
    <3> PICK u \in Turns : turn[u].pc = "cache" /\ turn[u].session = op[o].session
      BY <2>1
    <3>1. Active(turn[u])
      BY DEF Active
    <3> QED
      BY <3>1 DEF Tidy, Alone
  <2>2. CASE \E p \in Ops : op[p].pc = "session" /\ op[p].session = op[o].session
    <3> PICK p \in Ops : op[p].pc = "session" /\ op[p].session = op[o].session
      BY <2>2
    <3>1. OpRunning(p) /\ p # o
      BY <1>2 DEF OpRunning
    <3> QED
      BY <3>1 DEF Tidy, Alone
  <2> QED
    BY <1>2, <2>1, <2>2 DEF Unsettled
<1> QED
  BY <1>1, <1>2

\* rename saves the session.
LEMMA RenameTidies ==
    ASSUME Typed, Typed', Tidy, calm, NEW o \in Ops, Rename(o)
    PROVE  Tidy'
<1> DEFINE q == [op[o] EXCEPT !.pc = "done"]
<1> PICK s : s = op[o].session
  OBVIOUS
<1>1. OpRunning(o) /\ op[o].pc = "rename"
  BY DEF Rename, OpRunning
<1>2. op[o] \in OpType /\ s \in Sessions /\ s \in DOMAIN sess /\ ~Unsettled(s)
  BY <1>1, OpFacts
<1>3. op' = [op EXCEPT ![o] = q] /\ UNCHANGED <<db, window, turn>>
  BY DEF Rename, Typed, OpsTyped
<1>4. q.session = s /\ q.pc = "done"
  BY <1>2 DEF OpType
<1> HIDE DEF q
<1>5. DOMAIN sess' = DOMAIN sess
  BY <1>2, SaveIs DEF Titles, Typed, Rename
<1>6. window'[s] # Null => window'[s] = LastOf(db'[s], MaxWindow)
  BY <1>2, <1>3 DEF Tidy, Tails
<1> QED
  BY <1>1, <1>2, <1>3, <1>4, <1>5, <1>6, OpTidies

\* remove deletes the messages: window and messages differ until the session goes.
LEMMA RemoveMessagesTidies ==
    ASSUME Typed, Typed', Tidy, calm, NEW o \in Ops, RemoveMessages(o)
    PROVE  Tidy'
<1> DEFINE q == [op[o] EXCEPT !.pc = "session"]
<1> PICK s : s = op[o].session
  OBVIOUS
<1>1. OpRunning(o)
  BY DEF RemoveMessages, OpRunning
<1>2. op[o] \in OpType /\ s \in Sessions /\ s \in DOMAIN sess
  BY <1>1, OpFacts
<1>3. op' = [op EXCEPT ![o] = q] /\ UNCHANGED <<sess, window, turn>>
      /\ db' = [db EXCEPT ![s] = <<>>]
  BY DEF RemoveMessages, Typed, OpsTyped
<1>4. q.session = s /\ q.pc = "session"
  BY <1>2 DEF OpType
<1> HIDE DEF q
<1>5. \A y \in Sessions : y # s => db'[y] = db[y] /\ window'[y] = window[y]
  BY <1>3 DEF Typed, StoresTyped
<1> QED
  BY <1>1, <1>2, <1>3, <1>4, <1>5, OpTidies

\* remove deletes the session.
LEMMA RemoveSessionTidies ==
    ASSUME Typed, Typed', Tidy, calm, NEW o \in Ops, RemoveSession(o)
    PROVE  Tidy'
<1> DEFINE q == [op[o] EXCEPT !.pc = "done"]
<1> PICK s : s = op[o].session
  OBVIOUS
<1>1. OpRunning(o)
  BY DEF RemoveSession, OpRunning
<1>2. op[o] \in OpType /\ s \in Sessions
  BY <1>1, OpFacts
<1>3. op' = [op EXCEPT ![o] = q] /\ UNCHANGED <<window, turn>>
      /\ sess' = [x \in DOMAIN sess \ {s} |-> sess[x]] /\ db' = db
  BY DEF RemoveSession, Typed, OpsTyped, BoundsTyped
<1>4. q.session = s /\ q.pc = "done"
  BY <1>2 DEF OpType
<1> HIDE DEF q
<1>5. DOMAIN sess' = DOMAIN sess \ {s}
  BY <1>3
<1> QED
  BY <1>1, <1>2, <1>3, <1>4, <1>5, OpTidies

\* A window's time to live runs out.
LEMMA ExpireTidies ==
    ASSUME Typed, Typed', Tidy, calm, NEW s \in Sessions, Expire(s)
    PROVE  Tidy'
<1>1. UNCHANGED <<sess, db, turn, op>> /\ window' = [window EXCEPT ![s] = Null]
  BY DEF Expire
<1>2. \A x \in Sessions : window'[x] = window[x] \/ window'[x] = Null
  BY <1>1 DEF Typed, WindowTyped
<1>3. Alone' /\ Present'
  BY <1>1 DEF Tidy, Alone, Present, Active, OpRunning
<1>4. \A u \in Turns : (OnCourse(turn[u]) /\ HistoryIsTail(u))'
  BY <1>1 DEF Tidy, OnCourse, HistoryIsTail, QuestionOf, AnswerOf, LastOf
<1>5. \A x : Unsettled(x)' <=> Unsettled(x)
  BY <1>1 DEF Unsettled
<1>6. \A x : LastOf(db'[x], MaxWindow) = LastOf(db[x], MaxWindow)'
  BY DEF LastOf
<1>7. Tails'
  BY <1>1, <1>2, <1>5, <1>6 DEF Tidy, Tails, Typed, SessTyped
<1> QED
  BY <1>3, <1>4, <1>7 DEF Tidy

\* Conversations begin tidy ...
LEMMA TidyAtFirst ==
    ASSUME Init
    PROVE  Tidy
<1>1. \A t \in Turns : turn[t] = Unasked
  BY DEF Init
<1>2. \A o \in Ops : op[o] = NoOp
  BY DEF Init
<1>3. Unasked.pc = "new" /\ Unasked.loading = "no" /\ Unasked.session = Null /\ ~Unasked.cancelled
  BY DEF Unasked
<1>4. NoOp.pc = "new"
  BY DEF NoOp
<1>5. \A t \in Turns : ~Active(turn[t])
  BY <1>1, <1>3 DEF Active
<1>6. \A o \in Ops : ~OpRunning(o)
  BY <1>2, <1>4 DEF OpRunning
<1>7. Alone /\ Present
  BY <1>5, <1>6 DEF Alone, Present
<1>8. \A t \in Turns : OnCourse(turn[t]) /\ HistoryIsTail(t)
  BY <1>1, <1>3 DEF OnCourse, HistoryIsTail
<1>9. Tails
  BY AtFirst DEF Init, Tails, IInv, Typed, SessTyped
<1> QED
  BY <1>7, <1>8, <1>9 DEF Tidy

\* ... and stay so, with requests kept apart and no turn stopped early.
LEMMA StepTidies ==
    ASSUME IInv, IInv', calm => Tidy, ~EarlyStops, [Next]_chatVars
    PROVE  (calm => Tidy)'
<1>1. calm' = calm
  BY ZenonT(40)
     DEF Next, chatVars, TurnStep, Load, OpStep, Ask, Create, Touch, TouchSave, Answer, Persist,
         PersistSession, PersistMessages, Cache, TryLoad, LoadRows, Fill, Stop, Rename,
         RemoveMessages, RemoveSession, OpStart, Expire
<1> SUFFICES ASSUME calm PROVE Tidy'
  BY <1>1
<1> USE DEF IInv
<1>2. ASSUME NEW t \in Turns, NEW kind \in {"chat", "stream", "speech"},
             NEW s \in Sessions \cup {Null}, Ask(t, kind, s)
      PROVE  Tidy'
  BY <1>2, AskTidies
<1>3. ASSUME NEW t \in Turns, TurnStep(t)
      PROVE  Tidy'
  BY <1>3, CreateTidies, TouchTidies, TouchSaveTidies, AnswerTidies, PersistTidies,
     PersistSessionTidies, PersistMessagesTidies, CacheTidies DEF TurnStep
<1>4. ASSUME NEW t \in Turns, Load(t)
      PROVE  Tidy'
  BY <1>4, TryLoadTidies, LoadRowsTidies, FillTidies DEF Load
<1>5. ASSUME NEW t \in Turns, Stop(t)
      PROVE  Tidy'
  BY <1>5, StopTidies
<1>6. ASSUME NEW o \in Ops, OpStep(o)
      PROVE  Tidy'
  BY <1>6, RenameTidies, RemoveMessagesTidies, RemoveSessionTidies DEF OpStep
<1>7. ASSUME NEW o \in Ops, NEW kind \in {"rename", "remove"}, NEW s \in Sessions,
             OpStart(o, kind, s)
      PROVE  Tidy'
  BY <1>7, OpStartTidies
<1>8. ASSUME NEW s \in Sessions, Expire(s)
      PROVE  Tidy'
  BY <1>8, ExpireTidies
<1>9. CASE UNCHANGED chatVars
  <2>1. UNCHANGED <<sess, db, window, turn, op>>
    BY <1>9 DEF chatVars
  <2> QED
    BY <2>1, ZenonT(40)
    DEF Tidy, Alone, Present, Active, OpRunning, OnCourse, HistoryIsTail, QuestionOf,
       AnswerOf, LastOf, Tails, Unsettled
<1> QED
  BY <1>2, <1>3, <1>4, <1>5, <1>6, <1>7, <1>8, <1>9 DEF Next

\* With requests on a session kept apart, and no turn stopped before its history
\* is there, a window is exactly the end of the conversation, whatever expires,
\* is removed, fails to be answered or is stopped later.
THEOREM WindowsAreTails ==
    ASSUME ~EarlyStops
    PROVE  Spec => []WindowIsTail
<1>1. IInv /\ (calm => Tidy) => WindowIsTail
  <2> SUFFICES ASSUME IInv, calm, Tidy, NEW s \in DOMAIN sess, window[s] # Null, ~Busy(s)
               PROVE  window[s] = LastOf(db[s], MaxWindow)
    BY DEF WindowIsTail
  <2>1. ~Unsettled(s)
    BY DEF Busy, Unsettled, Running, OpRunning
  <2> QED
    BY <2>1 DEF Tidy, Tails
<1>2. Init => IInv /\ (calm => Tidy)
  BY AtFirst, TidyAtFirst
<1>3. IInv /\ (calm => Tidy) /\ [Next]_chatVars => (IInv /\ (calm => Tidy))'
  BY StepKeeps, StepTidies
<1> QED
  BY <1>1, <1>2, <1>3, PTL DEF Spec
=============================================================================
